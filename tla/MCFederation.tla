---------------------------- MODULE MCFederation ----------------------------
(***************************************************************************)
(* A model-checking instance of Federation: three servers, the first of    *)
(* which makes one change.                                                 *)
(***************************************************************************)
EXTENDS Federation

CONSTANTS s1, s2, s3, c1

MCOrigin == [c \in {c1} |-> s1]

\* The pairs <<s, p>> such that s may have registered p at first: s1 and s2
\* each other, as do s2 and s3, and s3 also s1.  AddPeer adds others.
AtFirst == {<<s1, s2>>, <<s2, s1>>, <<s3, s1>>, <<s2, s3>>, <<s3, s2>>}

MCInit ==
  /\ Init
  /\ \A s, p \in Servers : <<s, p>> \notin AtFirst => row[s][p] = NoRow
  /\ row[s1][s2] # NoRow /\ row[s2][s1] # NoRow

MCSpec == MCInit /\ [][Next]_vars /\ Fairness
=============================================================================
