----------------------------- MODULE MCFeatures -----------------------------
(***************************************************************************)
(* Model-checking instances of Features, and a statement of the sources    *)
(* that the code does not keep.                                            *)
(***************************************************************************)
EXTENDS Features, TLC

Symmetry == Permutations(Handlers)

\* The feature was created by a client's POST, not by the inbox.
Posted(i) == [kind |-> "Create", id |-> i, version |-> 1] \in changes

\* A PUT to a feature that was POSTed fails because the feature is gone or has
\* changed since it was read ("feature %d not found or version conflict",
\* feature_repo.go).  Violated by the first PUT after a POST whose document
\* has no version: the version computed from it does not exceed the column's.
RefusedOnConflict ==
  [][\A h \in Handlers :
       RefuseUpdate(h) /\ Posted(id[h])
         => \/ id[h] \notin stored
            \/ version[id[h]] # seen[h]]_vars
=============================================================================
