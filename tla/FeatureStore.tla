---------------------------- MODULE FeatureStore ----------------------------
(***************************************************************************)
(* What the features API of a server promises, without requests under way: *)
(* every change is one atomic step, recorded under a name no other change  *)
(* has, and the outbox reports changes that were made.                     *)
(*                                                                         *)
(* A replacement gets the version that follows from the very document it   *)
(* overwrites, and that version is a newer one.  The id of a deleted       *)
(* feature is not given out again.                                         *)
(***************************************************************************)
EXTENDS Integers

CONSTANTS Ids, Props, NoVersion

VARIABLES
  stored,   \* ids of the features there are
  version,  \* version of each id, 0 if it was never given out
  prop,     \* what the document of each id says of its version
  changes,  \* the changes made
  logged    \* the changes reported

vars == <<stored, version, prop, changes, logged>>

Init ==
  /\ stored = {}
  /\ version = [i \in Ids |-> 0]
  /\ prop = [i \in Ids |-> NoVersion]
  /\ changes = {} /\ logged = {}

\* The version that follows a document.
After(p) == IF p = NoVersion THEN 1 ELSE p + 1

Insert(i, p) ==
  /\ version[i] = 0
  /\ stored' = stored \cup {i}
  /\ version' = [version EXCEPT ![i] = 1]
  /\ prop' = [prop EXCEPT ![i] = p]

\* A change is recorded, and is not one that was recorded before.
Record(what, i, n) ==
  LET c == [kind |-> what, id |-> i, version |-> n] IN
    /\ c \notin changes
    /\ changes' = changes \cup {c}
    /\ UNCHANGED logged

Create(i, p) == Insert(i, p) /\ Record("Create", i, 1)

Replace(i, p) ==
  /\ i \in stored
  /\ After(prop[i]) > version[i]
  /\ version' = [version EXCEPT ![i] = After(prop[i])]
  /\ prop' = [prop EXCEPT ![i] = p]
  /\ UNCHANGED stored
  /\ Record("Update", i, After(prop[i]))

Delete(i) ==
  /\ i \in stored
  /\ stored' = stored \ {i}
  /\ UNCHANGED <<version, prop>>
  /\ Record("Delete", i, 0)

\* The copy of another server's feature is not a change of this server's.
Copy(i, p) == Insert(i, p) /\ UNCHANGED <<changes, logged>>

Report(c) ==
  /\ c \in changes
  /\ logged' = logged \cup {c}
  /\ UNCHANGED <<stored, version, prop, changes>>

Next ==
  \/ \E i \in Ids, p \in Props : Create(i, p) \/ Replace(i, p) \/ Copy(i, p)
  \/ \E i \in Ids : Delete(i)
  \/ \E c \in changes : Report(c)

Spec == Init /\ [][Next]_vars
=============================================================================
