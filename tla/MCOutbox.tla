------------------------------ MODULE MCOutbox ------------------------------
(***************************************************************************)
(* Model-checking instances of Outbox, and three statements the sources    *)
(* make of it that the code does not keep.                                 *)
(***************************************************************************)
EXTENDS Outbox, TLC

Symmetry == Permutations(Workers) \cup Permutations(Peers)

\* Worker w works on row r: it has been returned by w's polling query.
Processing(w, r) ==
  /\ pc[w] \notin {"idle", "select"}
  /\ r \in batch[w] \/ cur[w] = r

\* No two workers process the same row ("Use FOR UPDATE SKIP LOCKED to avoid
\* multiple workers processing same items", outbox_repo.go).  Violated: the
\* locks go with the SELECT, before the UPDATE that takes the rows.
NoDoubleProcessing ==
  \A v, w \in Workers, r \in Rows :
    Processing(v, r) /\ Processing(w, r) => v = w

\* A peer is not addressed while the backoff of its last failure runs
\* ("Update retry with exponential backoff", deliverToAllPeers).  Violated:
\* no query reads next_retry, and the row is PENDING at once.
BackoffRespected ==
  [][\A w \in Workers, p \in Peers :
       DeliverToPeer(w, p) => <<cur[w], p>> \notin waiting]_vars

\* An activity is not forgotten over a restart ("Outbox/Inbox pattern for
\* reliable synchronization", README).  Violated when the process dies after
\* MarkActivitiesAsProcessing: nothing reads rows in PROCESSING again.
SurvivesRestart == EventuallyReachedOrFailed
=============================================================================
