---------------------------- MODULE OutboxProofs ----------------------------
(***************************************************************************)
(* Proofs about Outbox, for any number of workers, rows and peers.         *)
(*                                                                         *)
(*   1. CoreInv, inductive without any assumption on faults or crashes,    *)
(*      gives TypeOK, RetryBound, DeliveredIsReached and WorkShrinks.      *)
(*   2. ReliableInv, inductive when no statement fails and the process     *)
(*      stays up, gives NoSilentLoss.                                      *)
(*   3. Under ReliableInv each step of Outbox is a step of DeliveryPromise *)
(*      or leaves its variables alone.                                     *)
(***************************************************************************)
EXTENDS Outbox, TLAPS

\* What the phase of a worker says of its other variables.
InPhase(w) ==
  /\ pc[w] \in Delivering <=> cur[w] # NoRow
  /\ pc[w] \in Addressing <=> to[w] # NoPeer
  /\ pc[w] \in {"reset", "bump"} => cnt[w] + 1 < MaxRetries
  /\ pc[w] = "sent" => Pair(w) \in reached
  /\ pc[w] = "idle" => batch[w] = {}

\* Every worker is consistent.
PhaseOK == \A w \in Workers : InPhase(w)

\* The first inductive invariant: types, and what a phase implies.
CoreInv == TypeOK /\ PhaseOK

USE DEF Scheduling, Addressing, Delivering, Phase, Status, NoRow, Pairs, Pair

\* The outbox starts with well-typed, idle workers.
LEMMA CoreInit == Init => CoreInv
BY OutboxAssumption DEF Init, CoreInv, TypeOK, PhaseOK, InPhase

\* OnFeatureChange and AddPeer keep the core invariant.
LEMMA CoreApi ==
  ASSUME CoreInv
  PROVE  /\ \A r \in Rows : AddToOutbox(r) => CoreInv'
         /\ \A p \in Peers : AddPeer(p) => CoreInv'
<1> USE OutboxAssumption DEF dbVars, peerVars, sysVars, workerVars, history
<1>1. ASSUME NEW r \in Rows, AddToOutbox(r) PROVE CoreInv'
  BY CoreInv, <1>1 DEF AddToOutbox, CoreInv, TypeOK, PhaseOK, InPhase
<1>2. ASSUME NEW p \in Peers, AddPeer(p) PROVE CoreInv'
  BY CoreInv, <1>2 DEF AddPeer, CoreInv, TypeOK, PhaseOK, InPhase
<1> QED BY <1>1, <1>2

\* A worker's step leaves the other workers, the peer map and the audience
\* of every row alone, and undoes no delivery.
LEMMA OthersKept ==
  ASSUME CoreInv, NEW w \in Workers, WorkerStep(w)
  PROVE  /\ audience' = audience /\ reached \subseteq reached'
         /\ UNCHANGED <<peers, up>>
         /\ \A u \in Workers \ {w} :
              /\ batch'[u] = batch[u] /\ cur'[u] = cur[u]
              /\ targets'[u] = targets[u] /\ to'[u] = to[u] /\ pc'[u] = pc[u]
              /\ cnt'[u] = cnt[u]
<1> USE DEF CoreInv, TypeOK, dbVars, peerVars, sysVars, workerVars, history, NextPeer
<1> DEFINE Kept ==
      /\ audience' = audience /\ reached \subseteq reached'
      /\ UNCHANGED <<peers, up>>
      /\ \A u \in Workers \ {w} :
           /\ batch'[u] = batch[u] /\ cur'[u] = cur[u]
           /\ targets'[u] = targets[u] /\ to'[u] = to[u] /\ pc'[u] = pc[u]
           /\ cnt'[u] = cnt[u]
<1>1. ASSUME NEW S \in SUBSET Rows, Poll(w, S) PROVE Kept
  BY CoreInv, <1>1 DEF Poll
<1>2. CASE CloseRows(w)
  BY CoreInv, <1>2 DEF CloseRows
<1>3. CASE MarkActivitiesAsProcessing(w)
  BY CoreInv, <1>3 DEF MarkActivitiesAsProcessing
<1>4. ASSUME NEW r \in Rows, StartActivity(w, r) PROVE Kept
  BY CoreInv, <1>4 DEF StartActivity
<1>5. CASE FinishBatch(w)
  BY CoreInv, <1>5 DEF FinishBatch
<1>6. CASE FinishActivity(w)
  BY CoreInv, <1>6 DEF FinishActivity
<1>7. ASSUME NEW p \in Peers, DeliverToPeer(w, p) PROVE Kept
  BY CoreInv, <1>7 DEF DeliverToPeer
<1>8. CASE MarkOutboxDelivered(w)
  BY CoreInv, <1>8 DEF MarkOutboxDelivered
<1>9. CASE GetOutboxRetryInfo(w)
  BY CoreInv, <1>9 DEF GetOutboxRetryInfo
<1>10. CASE MarkOutboxFailed(w)
  BY CoreInv, <1>10 DEF MarkOutboxFailed
<1>11. CASE ClearNextRetry(w)
  BY CoreInv, <1>11 DEF ClearNextRetry
<1>12. CASE ResetOutboxStatus(w)
  BY CoreInv, <1>12 DEF ResetOutboxStatus
<1>13. CASE UpdateOutboxRetry(w)
  BY CoreInv, <1>13 DEF UpdateOutboxRetry
<1> QED BY WorkerStep(w), <1>1, <1>2, <1>3, <1>4, <1>5, <1>6, <1>7, <1>8, <1>9,
           <1>10, <1>11, <1>12, <1>13 DEF WorkerStep

\* Every statement and loop step of a worker keeps the types.
LEMMA TypeWorker ==
  ASSUME CoreInv, NEW w \in Workers, WorkerStep(w)
  PROVE  TypeOK'
<1> USE CoreInv, OutboxAssumption
    DEF CoreInv, TypeOK, dbVars, peerVars, sysVars, workerVars, history, NextPeer
<1>0. InPhase(w)
  BY DEF PhaseOK
<1>1. ASSUME NEW S \in SUBSET Rows, Poll(w, S) PROVE TypeOK'
  BY <1>1 DEF Poll
<1>2. CASE CloseRows(w)
  BY <1>2 DEF CloseRows
<1>3. CASE MarkActivitiesAsProcessing(w)
  BY <1>3 DEF MarkActivitiesAsProcessing
<1>4. ASSUME NEW r \in Rows, StartActivity(w, r) PROVE TypeOK'
  BY <1>4 DEF StartActivity
<1>5. CASE FinishBatch(w)
  BY <1>5 DEF FinishBatch
<1>6. CASE FinishActivity(w)
  BY <1>6 DEF FinishActivity
<1>7. ASSUME NEW p \in Peers, DeliverToPeer(w, p) PROVE TypeOK'
  <2>1. cur[w] \in Rows
    BY <1>0, <1>7 DEF DeliverToPeer, InPhase
  <2>2. reached' \in SUBSET Pairs
    BY <1>7, <2>1 DEF DeliverToPeer
  <2>3. pc' \in [Workers -> Phase]
    BY <1>7 DEF DeliverToPeer
  <2> QED BY <1>7, <2>2, <2>3 DEF DeliverToPeer, Remaining
<1>a. ASSUME pc[w] \in Addressing PROVE cur[w] \in Rows /\ to[w] \in Peers
  BY <1>0, <1>a DEF InPhase
<1>8. CASE MarkOutboxDelivered(w)
  BY <1>8, <1>a DEF MarkOutboxDelivered
<1>9. CASE GetOutboxRetryInfo(w)
  <2>1. retry[cur[w]] \in [Peers -> Nat] /\ to[w] \in Peers
    BY <1>9, <1>a DEF GetOutboxRetryInfo
  <2>2. cnt' \in [Workers -> Nat]
    BY <1>9, <2>1 DEF GetOutboxRetryInfo
  <2> QED BY <1>9, <2>2 DEF GetOutboxRetryInfo
<1>10. CASE MarkOutboxFailed(w)
  BY <1>10, <1>a DEF MarkOutboxFailed
<1>11. CASE ClearNextRetry(w)
  BY <1>11 DEF ClearNextRetry
<1>12. CASE ResetOutboxStatus(w)
  BY <1>12, <1>a DEF ResetOutboxStatus, ResetStatus
<1>13. CASE UpdateOutboxRetry(w)
  <2>1. cur[w] \in Rows /\ to[w] \in Peers
    BY <1>13, <1>a DEF UpdateOutboxRetry
  <2>2. retry' \in [Rows -> [Peers -> Nat]]
    BY <1>13, <2>1 DEF UpdateOutboxRetry
  <2>3. waiting' \in SUBSET Pairs /\ delivered' \in SUBSET Pairs
    BY <1>13, <2>1 DEF UpdateOutboxRetry
  <2>4. UNCHANGED <<status, peerVars, sysVars, batch, cur, targets, history>> /\ NextPeer(w)
    BY <1>13 DEF UpdateOutboxRetry
  <2> QED BY <2>2, <2>3, <2>4
<1> QED BY WorkerStep(w), <1>1, <1>2, <1>3, <1>4, <1>5, <1>6, <1>7, <1>8, <1>9,
           <1>10, <1>11, <1>12, <1>13 DEF WorkerStep

\* What a worker's phase says of its other variables holds after each of its
\* steps.
LEMMA PhaseWorker ==
  ASSUME CoreInv, NEW w \in Workers, WorkerStep(w)
  PROVE  InPhase(w)'
<1> USE CoreInv, OutboxAssumption DEF CoreInv, TypeOK, InPhase, NextPeer
<1>0. InPhase(w)
  BY DEF PhaseOK
<1>1. ASSUME NEW S \in SUBSET Rows, Poll(w, S) PROVE InPhase(w)'
  BY <1>0, <1>1 DEF Poll
<1>2. CASE CloseRows(w)
  BY <1>0, <1>2 DEF CloseRows
<1>3. CASE MarkActivitiesAsProcessing(w)
  BY <1>0, <1>3 DEF MarkActivitiesAsProcessing
<1>4. ASSUME NEW r \in Rows, StartActivity(w, r) PROVE InPhase(w)'
  BY <1>0, <1>4 DEF StartActivity
<1>5. CASE FinishBatch(w)
  BY <1>0, <1>5 DEF FinishBatch
<1>6. CASE FinishActivity(w)
  BY <1>0, <1>6 DEF FinishActivity
<1>7. ASSUME NEW p \in Peers, DeliverToPeer(w, p) PROVE InPhase(w)'
  <2>1. cur[w] # NoRow /\ cur' = cur /\ to'[w] = p /\ p # NoPeer
    BY <1>0, <1>7 DEF DeliverToPeer
  <2>2. pc'[w] = "failed" \/ (pc'[w] = "sent" /\ <<cur[w], p>> \in reached')
    BY <1>7 DEF DeliverToPeer, Accepted
  <2> QED BY <2>1, <2>2
<1>8. CASE MarkOutboxDelivered(w)
  BY <1>0, <1>8 DEF MarkOutboxDelivered
<1>9. CASE GetOutboxRetryInfo(w)
  <2> DEFINE n == retry[cur[w]][to[w]]
  <2>1. cur[w] \in Rows /\ to[w] \in Peers
    BY <1>0, <1>9 DEF GetOutboxRetryInfo
  <2>2. n \in Nat
    <3>1. retry[cur[w]] \in [Peers -> Nat]
      BY <2>1
    <3> QED BY <2>1, <3>1
  <2>3. /\ cnt'[w] = n /\ cur' = cur /\ to' = to
        /\ pc'[w] = IF n + 1 >= MaxRetries THEN "giveup" ELSE "reset"
        /\ cur[w] # NoRow /\ to[w] # NoPeer
    BY <1>0, <1>9 DEF GetOutboxRetryInfo, Exhausted
  <2> HIDE DEF n
  <2> QED BY <2>2, <2>3
<1>10. CASE MarkOutboxFailed(w)
  <2>1. CASE pc' = [pc EXCEPT ![w] = "clear"] /\ UNCHANGED <<to, cnt>>
    BY <1>0, <1>10, <2>1 DEF MarkOutboxFailed
  <2>2. CASE NextPeer(w)
    BY <1>0, <1>10, <2>2 DEF MarkOutboxFailed
  <2> QED BY <1>10, <2>1, <2>2 DEF MarkOutboxFailed
<1>11. CASE ClearNextRetry(w)
  BY <1>0, <1>11 DEF ClearNextRetry
<1>12. CASE ResetOutboxStatus(w)
  BY <1>0, <1>12 DEF ResetOutboxStatus
<1>13. CASE UpdateOutboxRetry(w)
  BY <1>0, <1>13 DEF UpdateOutboxRetry
<1> QED BY WorkerStep(w), <1>1, <1>2, <1>3, <1>4, <1>5, <1>6, <1>7, <1>8, <1>9,
           <1>10, <1>11, <1>12, <1>13 DEF WorkerStep

\* Every statement and loop step of a worker keeps the core invariant.
LEMMA CoreWorker ==
  ASSUME CoreInv, NEW w \in Workers, WorkerStep(w)
  PROVE  CoreInv'
<1>1. ASSUME NEW u \in Workers \ {w} PROVE InPhase(u)'
  <2>1. InPhase(u)
    BY DEF CoreInv, PhaseOK, InPhase
  <2>2. /\ batch'[u] = batch[u] /\ cur'[u] = cur[u] /\ to'[u] = to[u]
        /\ pc'[u] = pc[u] /\ cnt'[u] = cnt[u] /\ reached \subseteq reached'
    BY OthersKept
  <2> QED BY <2>1, <2>2 DEF InPhase
<1>2. PhaseOK'
  BY <1>1, PhaseWorker DEF PhaseOK
<1> QED BY <1>2, TypeWorker DEF CoreInv

\* The end of the process, its restart and the passing of time keep the core
\* invariant.
LEMMA CoreProcess ==
  ASSUME CoreInv
  PROVE  /\ ProcessExit => CoreInv'
         /\ Restart => CoreInv'
         /\ \A pair \in Pairs : Elapse(pair) => CoreInv'
<1> USE CoreInv, OutboxAssumption DEF CoreInv, TypeOK, PhaseOK, InPhase, dbVars, peerVars,
        sysVars, workerVars, history
<1>1. ASSUME ProcessExit PROVE CoreInv'
  <2>1. crashes' \in 0 .. MaxCrashes
    BY <1>1 DEF ProcessExit
  <2>2. TypeOK'
    BY <1>1, <2>1 DEF ProcessExit
  <2>3. PhaseOK'
    BY <1>1 DEF ProcessExit
  <2> QED BY <2>2, <2>3
<1>2. ASSUME Restart PROVE CoreInv'
  BY <1>2 DEF Restart
<1>3. ASSUME NEW pair \in Pairs, Elapse(pair) PROVE CoreInv'
  <2>1. waiting' \subseteq waiting
    BY <1>3 DEF Elapse
  <2>2. UNCHANGED <<status, retry, delivered, peerVars, sysVars, workerVars, history>>
    BY <1>3 DEF Elapse
  <2>3. TypeOK'
    BY <2>1, <2>2
  <2>4. PhaseOK'
    BY <2>2
  <2> QED BY <2>3, <2>4
<1> QED BY <1>1, <1>2, <1>3

\* The core invariant is inductive.
LEMMA CoreStep == CoreInv /\ [Next]_vars => CoreInv'
<1> SUFFICES ASSUME CoreInv, [Next]_vars PROVE CoreInv'
  OBVIOUS
<1>1. CASE \E w \in Workers : WorkerStep(w)
  BY <1>1, CoreWorker
<1>2. CASE \E w \in Workers : RetryInfoPanic(w)
  BY <1>2, CoreProcess DEF RetryInfoPanic
<1>3. CASE \E r \in Rows : AddToOutbox(r)
  BY <1>3, CoreApi
<1>4. CASE \E p \in Peers : AddPeer(p)
  BY <1>4, CoreApi
<1>5. CASE \E pair \in Pairs : Elapse(pair)
  BY <1>5, CoreProcess
<1>6. CASE Crash
  BY <1>6, CoreProcess DEF Crash
<1>7. CASE Restart
  BY <1>7, CoreProcess
<1>8. CASE UNCHANGED vars
  <2>1. TypeOK'
    BY <1>8 DEF vars, dbVars, peerVars, sysVars, workerVars, history, CoreInv, TypeOK
  <2>2. PhaseOK'
    BY <1>8 DEF vars, dbVars, peerVars, sysVars, workerVars, history, CoreInv, PhaseOK, InPhase
  <2> QED BY <2>1, <2>2 DEF CoreInv
<1> QED BY <1>1, <1>2, <1>3, <1>4, <1>5, <1>6, <1>7, <1>8 DEF Next

\* Typing, and what each phase of a worker guarantees: a row and a peer in
\* hand, a count that another retry does not exhaust, a reply received.
THEOREM CoreInvariant == Spec => []CoreInv
BY CoreInit, CoreStep, PTL DEF Spec

\* Every variable keeps its type.
THEOREM TypeCorrect == Spec => []TypeOK
BY CoreInvariant, PTL DEF CoreInv

-----------------------------------------------------------------------------
\* No delivery has been retried at the start (MaxRetries is positive).
LEMMA RetryInit == Init => RetryBound
BY OutboxAssumption DEF Init, RetryBound

\* No step takes a retry count to MaxRetries: UpdateOutboxRetry writes the
\* count the worker read plus one, which GetOutboxRetryInfo has checked, and
\* what other workers wrote in between does not matter.
LEMMA RetryStep == CoreInv /\ RetryBound /\ [Next]_vars => RetryBound'
<1> SUFFICES ASSUME CoreInv, RetryBound, [Next]_vars PROVE RetryBound'
  OBVIOUS
<1> USE OutboxAssumption DEF RetryBound, CoreInv, TypeOK
<1>1. ASSUME NEW w \in Workers, MarkOutboxDelivered(w) PROVE RetryBound'
  BY <1>1 DEF MarkOutboxDelivered
<1>2. ASSUME NEW w \in Workers, UpdateOutboxRetry(w) PROVE RetryBound'
  <2>1. cnt[w] + 1 < MaxRetries
    BY <1>2 DEF UpdateOutboxRetry, PhaseOK, InPhase
  <2> QED BY <1>2, <2>1 DEF UpdateOutboxRetry
<1>3. CASE UNCHANGED retry
  BY <1>3
<1> QED
  BY <1>1, <1>2, <1>3
  DEF Next, WorkerStep, vars, dbVars, peerVars, sysVars, workerVars, history,
      Poll, CloseRows, MarkActivitiesAsProcessing, StartActivity, FinishBatch,
      FinishActivity, DeliverToPeer, GetOutboxRetryInfo, MarkOutboxFailed,
      ClearNextRetry, ResetOutboxStatus, RetryInfoPanic, ProcessExit,
      AddToOutbox, AddPeer, Elapse, Crash, Restart

\* Stored retry counts stay below MaxRetries (scheduleRetry), under faults,
\* crashes and any number of workers on the same row.
THEOREM RetryBounded == Spec => []RetryBound
BY CoreInvariant, RetryInit, RetryStep, PTL DEF Spec

\* Only MarkOutboxDelivered sets delivered_at, and only after an answer.
LEMMA DeliveredStep ==
  CoreInv /\ DeliveredIsReached /\ [Next]_vars => DeliveredIsReached'
<1> SUFFICES ASSUME CoreInv, DeliveredIsReached, [Next]_vars
             PROVE  DeliveredIsReached'
  OBVIOUS
<1> USE DEF DeliveredIsReached
<1>1. ASSUME NEW w \in Workers, MarkOutboxDelivered(w) PROVE DeliveredIsReached'
  <2>1. Pair(w) \in reached
    BY <1>1 DEF MarkOutboxDelivered, CoreInv, PhaseOK, InPhase
  <2> QED BY <1>1, <2>1 DEF MarkOutboxDelivered, history
<1>2. ASSUME NEW w \in Workers, UpdateOutboxRetry(w) PROVE DeliveredIsReached'
  BY <1>2 DEF UpdateOutboxRetry, history
<1>3. CASE delivered' = delivered /\ reached \subseteq reached'
  BY <1>3
<1> QED
  BY <1>1, <1>2, <1>3
  DEF Next, WorkerStep, vars, dbVars, peerVars, sysVars, workerVars, history,
      Poll, CloseRows, MarkActivitiesAsProcessing, StartActivity, FinishBatch,
      FinishActivity, DeliverToPeer, GetOutboxRetryInfo, MarkOutboxFailed,
      ClearNextRetry, ResetOutboxStatus, RetryInfoPanic, ProcessExit,
      AddToOutbox, AddPeer, Elapse, Crash, Restart

\* delivered_at is only set for peers whose inbox took the message
\* (deliverToAllPeers).
THEOREM DeliveredReached == Spec => []DeliveredIsReached
<1>1. Init => DeliveredIsReached
  BY DEF Init, DeliveredIsReached
<1> QED BY <1>1, CoreInvariant, DeliveredStep, PTL DEF Spec

-----------------------------------------------------------------------------
\* The peers a row still owes its message.
Owed(r) == {p \in audience[r] : <<r, p>> \notin reached}

\* Worker w is going to serve whatever the row owes, or to take the row out
\* of PROCESSING: it has not started the row, or each peer owed is yet to be
\* addressed, or has been in vain and the row's status not written since.
Carries(w, r) ==
  \/ r \in batch[w]
  \/ /\ cur[w] = r
     /\ \A p \in Owed(r) :
          \/ p \in targets[w]
          \/ p = to[w] /\ pc[w] \in {"failed", "reset", "giveup"}

\* Why no delivery is lost: a row in PROCESSING owes nothing or has a worker
\* that carries it.
NoneForgotten ==
  /\ \A r \in Rows : audience[r] \subseteq peers
  /\ \A r \in Rows :
       status[r] = "PROCESSING" =>
         Owed(r) = {} \/ \E w \in Workers : Carries(w, r)
  /\ \A w \in Workers, r \in Rows :
       r \in batch[w] \/ cur[w] = r => status[r] # "absent"

\* No statement fails and the process does not die.
Reliable == ~DbFaults /\ MaxCrashes = 0

ReliableInv == CoreInv /\ up /\ NoneForgotten

\* A worker goes on carrying a row while others move.
LEMMA CarriesKept ==
  ASSUME NEW r \in Rows, NEW u \in Workers, Owed(r)' \subseteq Owed(r),
         batch'[u] = batch[u], cur'[u] = cur[u], targets'[u] = targets[u],
         to'[u] = to[u], pc'[u] = pc[u],
         Carries(u, r)
  PROVE  Carries(u, r)'
BY DEF Carries

\* Deliveries are never undone: what a row owes only shrinks.
LEMMA OwedShrinks ==
  ASSUME NEW r \in Rows, audience' = audience, reached \subseteq reached'
  PROVE  Owed(r)' \subseteq Owed(r)
BY DEF Owed

\* After a step of worker w, a row in PROCESSING is carried by w, or was in
\* PROCESSING before and, if w carried it, owes nothing any more.
LEMMA WorkerCarries ==
  ASSUME Reliable, ReliableInv, NEW w \in Workers, WorkerStep(w),
         NEW r \in Rows, status'[r] = "PROCESSING"
  PROVE  \/ Carries(w, r)'
         \/ status[r] = "PROCESSING" /\ (Carries(w, r) => Owed(r)' = {})
<1> DEFINE Goal == \/ Carries(w, r)'
                   \/ status[r] = "PROCESSING" /\ (Carries(w, r) => Owed(r)' = {})
<1>0. Owed(r)' \subseteq Owed(r)
  BY OwedShrinks, OthersKept DEF ReliableInv
<1> USE OutboxAssumption DEF Carries, NextPeer
<1>a. CoreInv
  BY DEF ReliableInv
<1> USE <1>a DEF CoreInv, TypeOK, PhaseOK, InPhase
<1>1. ASSUME NEW S \in SUBSET Rows, Poll(w, S) PROVE Goal
  BY <1>1 DEF Poll, dbVars
<1>2. CASE CloseRows(w)
  BY <1>2, <1>0 DEF CloseRows, Reliable, dbVars
<1>3. CASE MarkActivitiesAsProcessing(w)
  BY <1>3, <1>0 DEF MarkActivitiesAsProcessing
<1>4. ASSUME NEW q \in Rows, StartActivity(w, q) PROVE Goal
  <2>1. Owed(r) \subseteq peers
    BY DEF ReliableInv, NoneForgotten, Owed
  <2>2. cur[w] # r
    BY <1>4 DEF StartActivity
  <2> QED BY <1>4, <1>0, <2>1, <2>2 DEF StartActivity, dbVars
<1>5. CASE FinishBatch(w)
  BY <1>5 DEF FinishBatch, dbVars
<1>6. CASE FinishActivity(w)
  BY <1>6, <1>0 DEF FinishActivity, dbVars
<1>7. ASSUME NEW p \in Peers, DeliverToPeer(w, p) PROVE Goal
  <2>1. CASE r \in batch[w]
    BY <1>7, <2>1 DEF DeliverToPeer
  <2>2. CASE cur[w] = r /\ r \notin batch[w]
    <3>1. pc'[w] = "failed" \/ p \notin Owed(r)'
      BY <1>7, <2>2 DEF DeliverToPeer, Accepted, Owed
    <3>2. ASSUME Carries(w, r), NEW q \in Owed(r)'
          PROVE  q \in targets'[w] \/ (q = p /\ pc'[w] = "failed")
      BY <1>7, <1>0, <2>2, <3>1, <3>2 DEF DeliverToPeer, Remaining
    <3>3. cur'[w] = r /\ to'[w] = p /\ status' = status
      BY <1>7, <2>2 DEF DeliverToPeer, dbVars
    <3> QED BY <3>2, <3>3
  <2> QED BY <1>7, <2>1, <2>2 DEF DeliverToPeer, dbVars
<1>8. CASE MarkOutboxDelivered(w)
  BY <1>8, <1>0 DEF MarkOutboxDelivered
<1>9. CASE GetOutboxRetryInfo(w)
  BY <1>9, <1>0 DEF GetOutboxRetryInfo, dbVars
<1>10. CASE MarkOutboxFailed(w)
  BY <1>10, <1>0 DEF MarkOutboxFailed, Reliable
<1>11. CASE ClearNextRetry(w)
  BY <1>11, <1>0 DEF ClearNextRetry
<1>12. CASE ResetOutboxStatus(w)
  BY <1>12, <1>0 DEF ResetOutboxStatus, ResetStatus, Reliable
<1>13. CASE UpdateOutboxRetry(w)
  BY <1>13, <1>0 DEF UpdateOutboxRetry
<1> QED BY WorkerStep(w), <1>1, <1>2, <1>3, <1>4, <1>5, <1>6, <1>7, <1>8, <1>9,
           <1>10, <1>11, <1>12, <1>13 DEF WorkerStep

\* Rows in hand have been inserted (the last part of NoneForgotten).
HeldExist ==
  \A w \in Workers, r \in Rows :
    r \in batch[w] \/ cur[w] = r => status[r] # "absent"

\* A worker never holds a row that has not been inserted.
LEMMA HeldKept ==
  ASSUME CoreInv, HeldExist, NEW w \in Workers, WorkerStep(w)
  PROVE  HeldExist'
<1> USE CoreInv, HeldExist, OutboxAssumption
    DEF CoreInv, TypeOK, HeldExist, NextPeer, dbVars
<1>1. ASSUME NEW S \in SUBSET Rows, Poll(w, S) PROVE HeldExist'
  BY <1>1 DEF Poll, IsBatch, Selectable
<1>2. CASE CloseRows(w)
  BY <1>2 DEF CloseRows
<1>3. CASE MarkActivitiesAsProcessing(w)
  BY <1>3 DEF MarkActivitiesAsProcessing
<1>4. ASSUME NEW r \in Rows, StartActivity(w, r) PROVE HeldExist'
  BY <1>4 DEF StartActivity
<1>5. CASE FinishBatch(w)
  BY <1>5 DEF FinishBatch
<1>6. CASE FinishActivity(w)
  BY <1>6 DEF FinishActivity
<1>7. ASSUME NEW p \in Peers, DeliverToPeer(w, p) PROVE HeldExist'
  BY <1>7 DEF DeliverToPeer
<1>8. CASE MarkOutboxDelivered(w)
  BY <1>8 DEF MarkOutboxDelivered
<1>9. CASE GetOutboxRetryInfo(w)
  BY <1>9 DEF GetOutboxRetryInfo
<1>10. CASE MarkOutboxFailed(w)
  BY <1>10 DEF MarkOutboxFailed
<1>11. CASE ClearNextRetry(w)
  BY <1>11 DEF ClearNextRetry
<1>12. CASE ResetOutboxStatus(w)
  BY <1>12 DEF ResetOutboxStatus, ResetStatus
<1>13. CASE UpdateOutboxRetry(w)
  BY <1>13 DEF UpdateOutboxRetry
<1> QED BY WorkerStep(w), <1>1, <1>2, <1>3, <1>4, <1>5, <1>6, <1>7, <1>8, <1>9,
           <1>10, <1>11, <1>12, <1>13 DEF WorkerStep

\* A worker's step keeps ReliableInv.
LEMMA ReliableWorker ==
  ASSUME Reliable, ReliableInv, NEW w \in Workers, WorkerStep(w)
  PROVE  ReliableInv'
<1>1. CoreInv'
  BY CoreWorker DEF ReliableInv
<1>2. /\ audience' = audience /\ reached \subseteq reached'
      /\ UNCHANGED <<peers, up>>
  BY OthersKept DEF ReliableInv
<1>3. HeldExist'
  BY HeldKept DEF ReliableInv, NoneForgotten, HeldExist
<1>4. ASSUME NEW r \in Rows, status'[r] = "PROCESSING"
      PROVE  (Owed(r) = {} \/ \E v \in Workers : Carries(v, r))'
  <2>1. Owed(r)' \subseteq Owed(r)
    BY <1>2, OwedShrinks
  <2>2. CASE Carries(w, r)'
    BY <2>2
  <2>3. CASE ~Carries(w, r)'
    <3>1. status[r] = "PROCESSING" /\ (Carries(w, r) => Owed(r)' = {})
      BY <1>4, <2>3, WorkerCarries
    <3>2. CASE Owed(r) = {} \/ Carries(w, r)
      BY <2>1, <3>1, <3>2
    <3>3. CASE \E v \in Workers \ {w} : Carries(v, r)
      <4>1. PICK v \in Workers \ {w} : Carries(v, r)
        BY <3>3
      <4>2. /\ batch'[v] = batch[v] /\ cur'[v] = cur[v]
            /\ targets'[v] = targets[v] /\ to'[v] = to[v] /\ pc'[v] = pc[v]
        BY OthersKept DEF ReliableInv
      <4>3. Carries(v, r)'
        BY <2>1, <4>1, <4>2, CarriesKept
      <4> QED BY <4>3
    <3> QED BY <3>1, <3>2, <3>3 DEF ReliableInv, NoneForgotten
  <2> QED BY <2>2, <2>3
<1>5. NoneForgotten'
  BY <1>2, <1>3, <1>4 DEF ReliableInv, NoneForgotten, HeldExist
<1> QED BY <1>1, <1>2, <1>5 DEF ReliableInv

\* ReliableInv is inductive when nothing fails.
LEMMA ReliableStep ==
  ASSUME Reliable, ReliableInv, [Next]_vars
  PROVE  ReliableInv'
<1>0. CoreInv'
  BY CoreStep DEF ReliableInv
<1>1. CASE \E w \in Workers : WorkerStep(w)
  BY <1>1, ReliableWorker
<1>2. ~ProcessExit /\ ~Restart /\ ~\E w \in Workers : RetryInfoPanic(w)
  BY DEF Reliable, ReliableInv, CoreInv, TypeOK, ProcessExit, Restart, RetryInfoPanic
<1>3. ASSUME NEW r \in Rows, AddToOutbox(r) PROVE ReliableInv'
  <2>1. /\ UNCHANGED <<reached, peers, up, batch, cur, targets, to, pc>>
        /\ status' = [status EXCEPT ![r] = "PENDING"]
        /\ audience' = [audience EXCEPT ![r] = peers]
    BY <1>3 DEF AddToOutbox, peerVars, sysVars, workerVars
  <2>2. ASSUME NEW q \in Rows, status'[q] = "PROCESSING"
        PROVE  (Owed(q) = {} \/ \E v \in Workers : Carries(v, q))'
    <3>1. q # r /\ status[q] = "PROCESSING" /\ Owed(q)' = Owed(q)
      BY <2>1, <2>2 DEF ReliableInv, CoreInv, TypeOK, Owed
    <3>2. ASSUME NEW v \in Workers, Carries(v, q) PROVE Carries(v, q)'
      BY <2>1, <3>1, <3>2 DEF Carries
    <3> QED BY <3>1, <3>2 DEF ReliableInv, NoneForgotten
  <2>3. \A q \in Rows : (audience[q] \subseteq peers)'
    BY <2>1 DEF ReliableInv, NoneForgotten, CoreInv, TypeOK
  <2>4. \A v \in Workers, q \in Rows :
          (q \in batch[v] \/ cur[v] = q => status[q] # "absent")'
    BY <2>1 DEF ReliableInv, NoneForgotten, CoreInv, TypeOK
  <2> QED BY <1>0, <2>1, <2>2, <2>3, <2>4 DEF ReliableInv, NoneForgotten
<1>4. ASSUME UNCHANGED <<status, audience, reached, up, workerVars>>, peers \subseteq peers'
      PROVE  ReliableInv'
  <2>1. \A r \in Rows : Owed(r)' = Owed(r)
    BY <1>4 DEF Owed
  <2>2. \A r \in Rows, v \in Workers : Carries(v, r) => Carries(v, r)'
    BY <1>4, <2>1 DEF Carries, workerVars
  <2> QED BY <1>0, <1>4, <2>1, <2>2 DEF ReliableInv, NoneForgotten, workerVars
<1>5. ASSUME NEW p \in Peers, AddPeer(p) PROVE ReliableInv'
  BY <1>4, <1>5 DEF AddPeer, dbVars, sysVars, history
<1>6. ASSUME NEW pair \in Pairs, Elapse(pair) PROVE ReliableInv'
  BY <1>4, <1>6 DEF Elapse, peerVars, sysVars, history
<1>7. CASE UNCHANGED vars
  BY <1>4, <1>7 DEF vars, dbVars, peerVars, sysVars, history
<1> QED BY <1>1, <1>2, <1>3, <1>5, <1>6, <1>7 DEF Next, Crash

\* ReliableInv holds at the start: no row is in PROCESSING.
LEMMA ReliableInit == Init => ReliableInv
<1> SUFFICES ASSUME Init PROVE ReliableInv
  OBVIOUS
<1>1. CoreInv
  BY CoreInit
<1>2. NoneForgotten
  BY OutboxAssumption DEF Init, NoneForgotten
<1> QED BY <1>1, <1>2 DEF Init, ReliableInv

\* As long as no statement fails and the process stays up, every row in
\* PROCESSING owes nothing or has a worker that carries it.
THEOREM NothingForgotten == ASSUME Reliable PROVE Spec => []ReliableInv
<1>1. ReliableInv /\ [Next]_vars => ReliableInv'
  BY ReliableStep
<1> QED BY <1>1, ReliableInit, PTL DEF Spec

\* As long as no statement fails and the process stays up, a row left in
\* PROCESSING that no worker has in hand has reached its whole audience
\* (GetPendingOutboxActivities, scheduleRetry).
THEOREM NothingLost == ASSUME Reliable PROVE Spec => []NoSilentLoss
<1>1. ReliableInv => NoSilentLoss
  BY DEF ReliableInv, NoneForgotten, NoSilentLoss, Handled, Carries, Owed
<1> QED BY <1>1, NothingForgotten, PTL

-----------------------------------------------------------------------------
\* Where a row stands depends on its status and its holders only.
LEMMA SameStanding ==
  ASSUME NEW r \in Rows, status'[r] = status[r], Handled(r)' <=> Handled(r)
  PROVE  Standing(r)' = Standing(r)
BY DEF Standing

\* The initial states of Outbox are initial states of DeliveryPromise.
LEMMA PromiseInit == Init => Promise!Init
BY OutboxAssumption DEF Init, Promise!Init, Standing

\* Every worker step is a step of DeliveryPromise or a stutter.
LEMMA PromiseWorker ==
  ASSUME ReliableInv, ReliableInv', Reliable, NEW w \in Workers, WorkerStep(w)
  PROVE  [Promise!Next]_(Promise!vars)
<1> DEFINE Stands == [r \in Rows |-> Standing(r)]
           Goal == [Promise!Next]_(Promise!vars)
<1>a. /\ audience' = audience
      /\ \A u \in Workers \ {w} : batch'[u] = batch[u] /\ cur'[u] = cur[u]
  BY OthersKept DEF ReliableInv
<1>b. CoreInv /\ CoreInv' /\ HeldExist
  BY DEF ReliableInv, NoneForgotten, HeldExist
<1>c. ASSUME \A r \in Rows : Standing(r)' = Standing(r), reached' = reached
      PROVE  Goal
  BY <1>a, <1>c DEF Promise!vars
<1>d. ASSUME NEW S \in SUBSET Rows,
             \A r \in S : Standing(r) = "gaveUp" /\ Standing(r)' = "open",
             \A r \in Rows \ S : Standing(r)' = Standing(r),
             reached' = reached
      PROVE  Goal
  <2>1. Promise!Reopen(S)
    BY <1>a, <1>d DEF Promise!Reopen
  <2> QED BY <2>1 DEF Promise!Next
<1>e. ASSUME \A r \in Rows : (r \in batch'[w] \/ cur'[w] = r) <=> (r \in batch[w] \/ cur[w] = r)
      PROVE  \A r \in Rows : Handled(r)' <=> Handled(r)
  BY <1>a, <1>e DEF Handled
<1> USE OutboxAssumption
<1>1. ASSUME NEW S \in SUBSET Rows, Poll(w, S) PROVE Goal
  <2>1. /\ batch[w] = {} /\ cur[w] = NoRow /\ cur' = cur
        /\ batch'[w] = S /\ status' = status /\ reached' = reached
    BY <1>1, <1>b DEF Poll, CoreInv, TypeOK, PhaseOK, InPhase, dbVars, history
  <2>2. \A r \in S : status[r] = "PENDING"
    BY <1>1 DEF Poll, IsBatch, Selectable
  <2>3. \A r \in Rows \ S : Handled(r)' <=> Handled(r)
    BY <1>a, <2>1 DEF Handled
  <2>4. \A r \in Rows : Standing(r)' = Standing(r)
    BY <2>1, <2>2, <2>3, SameStanding DEF Standing
  <2> QED BY <1>c, <2>1, <2>4
<1>2. CASE CloseRows(w)
  <2>1. /\ batch'[w] = batch[w] /\ cur' = cur /\ UNCHANGED <<status, reached>>
    BY <1>2, <1>b DEF CloseRows, Reliable, CoreInv, TypeOK, dbVars, history
  <2> QED BY <1>c, <1>e, <2>1, SameStanding
<1>3. CASE MarkActivitiesAsProcessing(w)
  <2>1. /\ UNCHANGED <<batch, cur, reached>>
        /\ \A r \in Rows : status'[r] = IF r \in batch[w] THEN "PROCESSING" ELSE status[r]
    BY <1>3 DEF MarkActivitiesAsProcessing, DbResult, Reliable, history
  <2>2. \A r \in Rows : Handled(r)' <=> Handled(r)
    BY <1>e, <2>1
  <2> DEFINE S == {r \in batch[w] : status[r] = "FAILED"}
  <2>3. \A r \in batch[w] : r \in Rows /\ Handled(r) /\ status[r] \in Status \ {"absent"}
    BY <1>b DEF CoreInv, TypeOK, Handled, HeldExist
  <2>4. \A r \in S : Standing(r) = "gaveUp" /\ Standing(r)' = "open"
    BY <2>1, <2>2, <2>3 DEF Standing
  <2>5. \A r \in Rows \ S : Standing(r)' = Standing(r)
    BY <2>1, <2>2, <2>3, SameStanding DEF Standing
  <2>6. S \in SUBSET Rows
    BY <2>3
  <2> HIDE DEF S
  <2> QED BY <1>d, <2>1, <2>4, <2>5, <2>6
<1>4. ASSUME NEW q \in Rows, StartActivity(w, q) PROVE Goal
  <2>1. /\ batch'[w] = batch[w] \ {q} /\ q \in batch[w]
        /\ cur[w] = NoRow /\ cur'[w] = q
        /\ UNCHANGED <<status, reached>>
    BY <1>4, <1>b DEF StartActivity, CoreInv, TypeOK, PhaseOK, InPhase, dbVars, history
  <2>2. \A r \in Rows : Handled(r)' <=> Handled(r)
    BY <1>e, <2>1
  <2> QED BY <1>c, <2>1, <2>2, SameStanding
<1>5. CASE FinishBatch(w)
  <2>1. UNCHANGED <<batch, cur, status, reached>>
    BY <1>5 DEF FinishBatch, dbVars, history
  <2> QED BY <1>c, <1>e, <2>1, SameStanding
<1>6. CASE FinishActivity(w)
  <2>1. PICK q \in Rows : cur[w] = q
    BY <1>6, <1>b DEF FinishActivity, CoreInv, TypeOK, PhaseOK, InPhase, Delivering
  <2>2. UNCHANGED <<batch, status, reached>> /\ cur'[w] = NoRow
    BY <1>6, <1>b DEF FinishActivity, CoreInv, TypeOK, dbVars, history
  <2>3. \A r \in Rows \ {q} : Handled(r)' <=> Handled(r)
    BY <1>a, <2>1, <2>2 DEF Handled
  <2>4. \A r \in Rows \ {q} : Standing(r)' = Standing(r)
    BY <2>2, <2>3, SameStanding
  <2>5. Handled(q) /\ status[q] # "absent"
    BY <1>b, <2>1 DEF Handled, HeldExist
  <2>6. CASE status[q] = "PROCESSING" /\ ~Handled(q)'
    <3>1. Standing(q) = "open" /\ Standing(q)' = "closed"
      BY <2>2, <2>5, <2>6 DEF Standing
    <3>2. Owed(q)' = {}
      BY <2>2, <2>6 DEF ReliableInv, NoneForgotten, Carries, Handled
    <3>3. \A p \in audience[q] : <<q, p>> \in reached
      BY <1>a, <2>2, <3>2 DEF Owed
    <3>4. Promise!Close(q)
      BY <1>a, <2>2, <2>4, <3>1, <3>3 DEF Promise!Close
    <3> QED BY <3>4 DEF Promise!Next
  <2>7. CASE ~(status[q] = "PROCESSING" /\ ~Handled(q)')
    <3>1. Standing(q)' = Standing(q)
      BY <2>2, <2>5, <2>7 DEF Standing
    <3> QED BY <1>c, <2>2, <2>4, <3>1
  <2> QED BY <2>6, <2>7
<1>7. ASSUME NEW p \in Peers, DeliverToPeer(w, p) PROVE Goal
  <2>1. PICK q \in Rows : cur[w] = q
    BY <1>7, <1>b DEF DeliverToPeer, CoreInv, TypeOK, PhaseOK, InPhase, Delivering
  <2>2. /\ UNCHANGED <<batch, cur, status>>
        /\ reached' = reached \/ reached' = reached \cup {<<q, p>>}
    BY <1>7, <2>1 DEF DeliverToPeer, dbVars
  <2>3. \A r \in Rows : Standing(r)' = Standing(r)
    BY <1>e, <2>2, SameStanding
  <2>4. Standing(q) \in {"open", "gaveUp"}
    BY <1>b, <2>1 DEF Standing, Handled, HeldExist
  <2>5. CASE reached' = reached \cup {<<q, p>>}
    <3>1. Promise!Reach(q, p)
      BY <1>a, <2>3, <2>4, <2>5 DEF Promise!Reach
    <3> QED BY <3>1 DEF Promise!Next
  <2> QED BY <1>c, <2>2, <2>3, <2>5
<1>8. CASE MarkOutboxDelivered(w)
  <2>1. UNCHANGED <<batch, cur, status, reached>>
    BY <1>8 DEF MarkOutboxDelivered, history
  <2> QED BY <1>c, <1>e, <2>1, SameStanding
<1>9. CASE GetOutboxRetryInfo(w)
  <2>1. UNCHANGED <<batch, cur, status, reached>>
    BY <1>9 DEF GetOutboxRetryInfo, dbVars, history
  <2> QED BY <1>c, <1>e, <2>1, SameStanding
<1>10. CASE MarkOutboxFailed(w)
  <2>1. PICK q \in Rows : cur[w] = q
    BY <1>10, <1>b DEF MarkOutboxFailed, CoreInv, TypeOK, PhaseOK, InPhase, Delivering,
       Addressing, Scheduling
  <2>2. /\ UNCHANGED <<batch, cur, reached>>
        /\ status' = [status EXCEPT ![q] = "FAILED"]
    BY <1>10, <2>1 DEF MarkOutboxFailed, Reliable, history
  <2>3. \A r \in Rows : Handled(r)' <=> Handled(r)
    BY <1>e, <2>2
  <2>4. \A r \in Rows \ {q} : Standing(r)' = Standing(r)
    BY <1>b, <2>2, <2>3, SameStanding DEF CoreInv, TypeOK
  <2>5. Standing(q)' = "gaveUp" /\ Standing(q) \in {"open", "gaveUp"}
    BY <1>b, <2>1, <2>2 DEF Standing, Handled, HeldExist, CoreInv, TypeOK
  <2>6. CASE Standing(q) = "open"
    <3>1. Promise!GiveUp(q)
      BY <1>a, <2>2, <2>4, <2>5, <2>6 DEF Promise!GiveUp
    <3> QED BY <3>1 DEF Promise!Next
  <2> QED BY <1>c, <2>2, <2>4, <2>5, <2>6
<1>11. CASE ClearNextRetry(w)
  <2>1. UNCHANGED <<batch, cur, status, reached>>
    BY <1>11 DEF ClearNextRetry, history
  <2> QED BY <1>c, <1>e, <2>1, SameStanding
<1>12. CASE ResetOutboxStatus(w)
  <2>1. PICK q \in Rows : cur[w] = q
    BY <1>12, <1>b DEF ResetOutboxStatus, CoreInv, TypeOK, PhaseOK, InPhase, Delivering,
       Addressing, Scheduling
  <2>2. /\ UNCHANGED <<batch, cur, reached>>
        /\ status' = [status EXCEPT ![q] = "PENDING"]
    BY <1>12, <2>1 DEF ResetOutboxStatus, ResetStatus, Reliable, history
  <2>3. \A r \in Rows : Handled(r)' <=> Handled(r)
    BY <1>e, <2>2
  <2>4. \A r \in Rows \ {q} : Standing(r)' = Standing(r)
    BY <1>b, <2>2, <2>3, SameStanding DEF CoreInv, TypeOK
  <2>5. Standing(q)' = "open" /\ Standing(q) \in {"open", "gaveUp"}
    BY <1>b, <2>1, <2>2 DEF Standing, Handled, HeldExist, CoreInv, TypeOK
  <2> QED BY <1>c, <1>d, <2>2, <2>4, <2>5
<1>13. CASE UpdateOutboxRetry(w)
  <2>1. UNCHANGED <<batch, cur, status, reached>>
    BY <1>13 DEF UpdateOutboxRetry, history
  <2> QED BY <1>c, <1>e, <2>1, SameStanding
<1> QED BY WorkerStep(w), <1>1, <1>2, <1>3, <1>4, <1>5, <1>6, <1>7, <1>8, <1>9,
           <1>10, <1>11, <1>12, <1>13 DEF WorkerStep

\* Every step is a step of DeliveryPromise or a stutter.
LEMMA PromiseStep ==
  ASSUME Reliable, ReliableInv, ReliableInv', [Next]_vars
  PROVE  [Promise!Next]_(Promise!vars)
<1> DEFINE Goal == [Promise!Next]_(Promise!vars)
<1>1. CASE \E w \in Workers : WorkerStep(w)
  BY <1>1, PromiseWorker
<1>2. ~ProcessExit /\ ~Restart /\ ~\E w \in Workers : RetryInfoPanic(w)
  BY DEF Reliable, ReliableInv, CoreInv, TypeOK, ProcessExit, Restart, RetryInfoPanic
<1>3. ASSUME UNCHANGED <<status, batch, cur, audience, reached>> PROVE Goal
  <2>1. \A r \in Rows : Handled(r)' <=> Handled(r)
    BY <1>3 DEF Handled
  <2>2. \A r \in Rows : Standing(r)' = Standing(r)
    BY <1>3, <2>1, SameStanding
  <2> QED BY <1>3, <2>2 DEF Promise!vars
<1>4. ASSUME NEW r \in Rows, AddToOutbox(r) PROVE Goal
  <2>1. /\ UNCHANGED <<batch, cur, reached>> /\ status[r] = "absent"
        /\ status' = [status EXCEPT ![r] = "PENDING"]
        /\ audience' = [audience EXCEPT ![r] = peers]
        /\ peers \in SUBSET Peers
    BY <1>4 DEF AddToOutbox, workerVars, ReliableInv, CoreInv, TypeOK
  <2>2. \A q \in Rows \ {r} : status'[q] = status[q]
    BY <2>1 DEF ReliableInv, CoreInv, TypeOK
  <2>3. \A q \in Rows \ {r} : Standing(q)' = Standing(q)
    BY <2>1, <2>2, SameStanding DEF Handled
  <2>4. Standing(r) = "none" /\ Standing(r)' = "open"
    BY <2>1 DEF Standing, ReliableInv, CoreInv, TypeOK
  <2>5. Promise!Submit(r, peers)
    BY <2>1, <2>3, <2>4 DEF Promise!Submit
  <2> QED BY <2>1, <2>5 DEF Promise!Next
<1>5. ASSUME NEW p \in Peers, AddPeer(p) PROVE Goal
  BY <1>3, <1>5 DEF AddPeer, dbVars, workerVars, history
<1>6. ASSUME NEW pair \in Pairs, Elapse(pair) PROVE Goal
  BY <1>3, <1>6 DEF Elapse, workerVars, history
<1>7. CASE UNCHANGED vars
  BY <1>3, <1>7 DEF vars, dbVars, workerVars, history
<1> QED BY <1>1, <1>2, <1>4, <1>5, <1>6, <1>7 DEF Next, Crash

\* As long as no statement fails and the process stays up, the outbox
\* implements DeliveryPromise, for any number of workers sharing the rows.
THEOREM PromiseKept == ASSUME Reliable PROVE Spec => KeepsPromise
<1>1. ReliableInv /\ ReliableInv' /\ [Next]_vars => [Promise!Next]_(Promise!vars)
  BY PromiseStep
<1> QED BY <1>1, PromiseInit, NothingForgotten, PTL DEF Spec, KeepsPromise, Promise!Spec

-----------------------------------------------------------------------------
\* Every step of a worker that has taken rows leaves it less work.
LEMMA LessWorker ==
  ASSUME CoreInv, NEW w \in Workers, WorkerStep(w), pc[w] # "idle"
  PROVE  LessWork(w)
<1> USE CoreInv DEF CoreInv, TypeOK
<1>a. ASSUME batch'[w] = batch[w], targets'[w] = targets[w],
             Distance[pc'[w]] < Distance[pc[w]]
      PROVE  LessWork(w)
  BY <1>a DEF LessWork
<1>1. ASSUME NEW S \in SUBSET Rows, Poll(w, S) PROVE LessWork(w)
  BY <1>1 DEF Poll
<1>2. CASE CloseRows(w)
  <2>1. /\ batch'[w] \subseteq batch[w] /\ targets'[w] = targets[w]
        /\ pc[w] = "select" /\ pc'[w] \in {"idle", "fetched"}
    BY <1>2 DEF CloseRows
  <2> QED BY <2>1, <1>a DEF LessWork, Distance
<1>3. CASE MarkActivitiesAsProcessing(w)
  BY <1>3, <1>a DEF MarkActivitiesAsProcessing, Distance
<1>4. ASSUME NEW r \in Rows, StartActivity(w, r) PROVE LessWork(w)
  BY <1>4 DEF StartActivity, LessWork
<1>5. CASE FinishBatch(w)
  BY <1>5, <1>a DEF FinishBatch, Distance
<1>6. CASE FinishActivity(w)
  BY <1>6, <1>a DEF FinishActivity, Distance
<1>7. ASSUME NEW p \in Peers, DeliverToPeer(w, p) PROVE LessWork(w)
  BY <1>7 DEF DeliverToPeer, Remaining, LessWork
<1>8. CASE MarkOutboxDelivered(w)
  BY <1>8, <1>a DEF MarkOutboxDelivered, NextPeer, Distance
<1>9. CASE GetOutboxRetryInfo(w)
  <2>1. /\ batch'[w] = batch[w] /\ targets'[w] = targets[w]
        /\ pc[w] = "failed" /\ pc'[w] \in {"giveup", "reset"}
    BY <1>9 DEF GetOutboxRetryInfo
  <2> QED BY <2>1, <1>a DEF Distance
<1>10. CASE MarkOutboxFailed(w)
  <2>1. /\ batch'[w] = batch[w] /\ targets'[w] = targets[w]
        /\ pc[w] = "giveup" /\ pc'[w] \in {"clear", "peers"}
    BY <1>10 DEF MarkOutboxFailed, NextPeer
  <2> QED BY <2>1, <1>a DEF Distance
<1>11. CASE ClearNextRetry(w)
  BY <1>11, <1>a DEF ClearNextRetry, NextPeer, Distance
<1>12. CASE ResetOutboxStatus(w)
  BY <1>12, <1>a DEF ResetOutboxStatus, Distance
<1>13. CASE UpdateOutboxRetry(w)
  BY <1>13, <1>a DEF UpdateOutboxRetry, NextPeer, Distance
<1> QED BY WorkerStep(w), <1>1, <1>2, <1>3, <1>4, <1>5, <1>6, <1>7, <1>8, <1>9,
           <1>10, <1>11, <1>12, <1>13 DEF WorkerStep

\* While the process is up, a worker's batch only shrinks, whatever else
\* happens (processPendingActivities, deliverToAllPeers, scheduleRetry).
THEOREM WorkOnlyShrinks == Spec => WorkShrinks
<1> DEFINE Shrinks ==
      \A w \in Workers :
        pc[w] # "idle" /\ up'
          => LessWork(w) \/ UNCHANGED <<pc[w], batch[w], cur[w], targets[w]>>
<1>1. ASSUME CoreInv, [Next]_vars PROVE Shrinks
  <2> SUFFICES ASSUME NEW w \in Workers, pc[w] # "idle", up'
               PROVE  LessWork(w) \/ UNCHANGED <<pc[w], batch[w], cur[w], targets[w]>>
    OBVIOUS
  <2>1. CASE WorkerStep(w)
    BY <1>1, <2>1, LessWorker
  <2>2. CASE \E v \in Workers : v # w /\ WorkerStep(v)
    BY <1>1, <2>2, OthersKept
  <2>3. ~Crash /\ ~\E v \in Workers : RetryInfoPanic(v)
    BY DEF Crash, RetryInfoPanic, ProcessExit
  <2>4. CASE \/ \E r \in Rows : AddToOutbox(r)
             \/ \E p \in Peers : AddPeer(p)
             \/ \E pair \in Pairs : Elapse(pair)
             \/ Restart
             \/ UNCHANGED vars
    BY <2>4 DEF AddToOutbox, AddPeer, Elapse, Restart, vars, workerVars
  <2> QED BY <1>1, <2>1, <2>2, <2>3, <2>4 DEF Next
<1>2. CoreInv /\ [Next]_vars => [Shrinks]_vars
  BY <1>1
<1> QED BY <1>2, CoreInvariant, PTL DEF Spec, WorkShrinks
=============================================================================
