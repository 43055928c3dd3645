------------------------------- MODULE Outbox -------------------------------
(***************************************************************************)
(* The outbox of one fedratlas server: the tables federation_outbox and    *)
(* outbox_delivery, the worker goroutines that poll them, and the HTTP     *)
(* deliveries to the peers' inboxes (internal/sync/outbox.go over          *)
(* internal/storage/postgres/outbox_repo.go).                              *)
(*                                                                         *)
(* Every SQL statement runs on a pool connection of its own and commits by *)
(* itself, so each is one step; between two statements of a worker any     *)
(* other worker, an API call or a crash may run.  Only the polling SELECT  *)
(* takes two steps (Poll and CloseRows): it holds row locks until it ends. *)
(*                                                                         *)
(* Activities are rows 1, 2, ... in the order of their created_at.  Of the *)
(* activity itself nothing is kept: no step of the outbox depends on it.   *)
(***************************************************************************)
EXTENDS Naturals, FiniteSets

CONSTANTS
  Workers,     \* the worker goroutines (config.ConcurrentWorkers of them)
  Rows,        \* ids of federation_outbox; bounds the activities submitted
  Peers,       \* the server ids that may be registered
  NoPeer,      \* the value of a worker's peer when it addresses none
  BatchSize,   \* the LIMIT of the polling query (10 in the code)
  MaxRetries,  \* config.MaxRetries
  DbFaults,    \* may a SQL statement fail?
  MaxCrashes   \* bounds the crashes of the process

ASSUME OutboxAssumption ==
  /\ Rows \subseteq Nat \ {0}
  /\ NoPeer \notin Peers
  /\ BatchSize \in Nat \ {0}
  /\ MaxRetries \in Nat \ {0}
  /\ DbFaults \in BOOLEAN
  /\ MaxCrashes \in Nat

VARIABLES
  status,      \* federation_outbox.status, "absent" before the INSERT
  retry,       \* outbox_delivery.retry_count, 0 where there is no record
  waiting,     \* pairs whose outbox_delivery.next_retry lies in the future
  delivered,   \* pairs whose outbox_delivery.delivered_at is not NULL
  registered,  \* server ids in peer_registry
  peers,       \* server ids in the engine's map e.peers
  up,          \* is the process running?
  crashes,     \* crashes so far
  pc,          \* where each worker is in its code
  batch,       \* the polled rows a worker has not started yet
  cur,         \* the row a worker is delivering
  targets,     \* the peers of its GetPeers() snapshot still to be served
  to,          \* the peer it addresses
  cnt,         \* the retry_count it has read
  reached,     \* history: pairs whose message the peer's inbox took
  audience     \* history: the peers in the map when the row was inserted

dbVars     == <<status, retry, waiting, delivered>>
peerVars   == <<registered, peers>>
sysVars    == <<up, crashes>>
workerVars == <<pc, batch, cur, targets, to, cnt>>
history    == <<reached, audience>>
vars       == <<dbVars, peerVars, sysVars, workerVars, history>>

NoRow == 0

Status == {"absent", "PENDING", "PROCESSING", "FAILED"}

\* A worker is idle until its ticker fires, holds row locks in "select", has
\* rows it has not marked in "fetched", is in the loop of
\* processPendingActivities in "loop" and in that of deliverToAllPeers in
\* "peers".  It has an answer to record in "sent"; the others are the
\* statements of scheduleRetry.
Scheduling == {"failed", "reset", "bump", "giveup", "clear"}
Addressing == {"sent"} \cup Scheduling
Delivering == {"peers"} \cup Addressing
Phase      == {"idle", "select", "fetched", "loop"} \cup Delivering

Pairs == Rows \X Peers

\* The pair a worker is working on.
Pair(w) == <<cur[w], to[w]>>

\* Whether a statement succeeds: it always does unless faults are allowed.
DbResult == IF DbFaults THEN BOOLEAN ELSE {TRUE}

TypeOK ==
  /\ status \in [Rows -> Status]
  /\ retry \in [Rows -> [Peers -> Nat]]
  /\ waiting \in SUBSET Pairs
  /\ delivered \in SUBSET Pairs
  /\ registered \in SUBSET Peers
  /\ peers \in SUBSET registered
  /\ up \in BOOLEAN
  /\ crashes \in 0 .. MaxCrashes
  /\ pc \in [Workers -> Phase]
  /\ batch \in [Workers -> SUBSET Rows]
  /\ cur \in [Workers -> Rows \cup {NoRow}]
  /\ targets \in [Workers -> SUBSET Peers]
  /\ to \in [Workers -> Peers \cup {NoPeer}]
  /\ cnt \in [Workers -> Nat]
  /\ reached \in SUBSET Pairs
  /\ audience \in [Rows -> SUBSET Peers]

-----------------------------------------------------------------------------
\* The outbox starts empty; the registry holds what earlier runs left, and
\* loadPeers has put the FOLLOWING ones of it in the map.
Init ==
  /\ status = [r \in Rows |-> "absent"]
  /\ retry = [r \in Rows |-> [p \in Peers |-> 0]]
  /\ waiting = {} /\ delivered = {}
  /\ registered \in SUBSET Peers
  /\ peers \in SUBSET registered
  /\ up = TRUE /\ crashes = 0
  /\ pc = [w \in Workers |-> "idle"]
  /\ batch = [w \in Workers |-> {}]
  /\ cur = [w \in Workers |-> NoRow]
  /\ targets = [w \in Workers |-> {}]
  /\ to = [w \in Workers |-> NoPeer]
  /\ cnt = [w \in Workers |-> 0]
  /\ reached = {}
  /\ audience = [r \in Rows |-> {}]

-----------------------------------------------------------------------------
(* The API's calls into the engine. *)

\* OnFeatureChange: one INSERT.  Ids and created_at grow together.
AddToOutbox(r) ==
  /\ up
  /\ status[r] = "absent"
  /\ \A s \in Rows : s < r => status[s] # "absent"
  /\ status' = [status EXCEPT ![r] = "PENDING"]
  /\ audience' = [audience EXCEPT ![r] = peers]
  /\ UNCHANGED <<retry, waiting, delivered, peerVars, sysVars, workerVars, reached>>

\* AddPeer: the registry's upsert and the map's entry, under peersMu; a failed
\* upsert leaves the map alone.
AddPeerToMapOnly(p) ==
  /\ up
  /\ p \notin peers
  /\ peers' = peers \cup {p}
  /\ UNCHANGED <<registered, dbVars, sysVars, workerVars, history>>

AddPeer(p) ==
  /\ up
  /\ p \notin peers
  /\ registered' = registered \cup {p}
  /\ peers' = peers \cup {p}
  /\ UNCHANGED <<dbVars, sysVars, workerVars, history>>

-----------------------------------------------------------------------------
(* GetPendingOutboxActivities. *)

\* The rows on which worker w would block or which its SELECT would skip:
\* those locked by the running SELECT of another worker.
LockedUntilMarked(w) ==
  UNION {batch[v] : v \in {u \in Workers : pc[u] \in {"select", "fetched"}}}
Locked(w) == UNION {batch[v] : v \in {u \in Workers \ {w} : pc[u] = "select"}}

\* What SELECT ... WHERE status = 'PENDING' ... FOR UPDATE SKIP LOCKED sees.
Selectable(w) == {r \in Rows : status[r] = "PENDING"} \ Locked(w)

\* ORDER BY created_at LIMIT BatchSize.
IsBatch(S, from) ==
  /\ S # {} /\ S \subseteq from
  /\ Cardinality(S) <= BatchSize
  /\ S = from \/ Cardinality(S) = BatchSize
  /\ \A s \in S, r \in from \ S : s < r

\* The ticker fires and the SELECT finds rows; one that fails or finds none
\* leaves everything as it was.
Poll(w, S) ==
  /\ up
  /\ pc[w] = "idle"
  /\ IsBatch(S, Selectable(w))
  /\ pc' = [pc EXCEPT ![w] = "select"]
  /\ batch' = [batch EXCEPT ![w] = S]
  /\ UNCHANGED <<dbVars, peerVars, sysVars, cur, targets, to, cnt, history>>

\* The statement ends, and with it its implicit transaction and its locks.  An
\* error while the rows are read cuts the batch short: rows.Next() is false
\* and rows.Err() is never asked, or Scan fails and nothing is returned.
CloseRows(w) ==
  /\ pc[w] = "select"
  /\ \E S \in SUBSET batch[w] :
       /\ S = batch[w] \/ (DbFaults /\ \A s \in S, r \in batch[w] \ S : s < r)
       /\ batch' = [batch EXCEPT ![w] = S]
       /\ pc' = [pc EXCEPT ![w] = IF S = {} THEN "idle" ELSE "fetched"]
  /\ UNCHANGED <<dbVars, peerVars, sysVars, cur, targets, to, cnt, history>>

\* The UPDATE by id, whatever the status has become since; its error is
\* dropped and the rows are worked on all the same.
MarkActivitiesAsProcessing(w) ==
  /\ pc[w] = "fetched"
  /\ batch[w] \cap Locked(w) = {}
  /\ \E ok \in DbResult :
       status' = [r \in Rows |->
                    IF ok /\ r \in batch[w] THEN "PROCESSING" ELSE status[r]]
  /\ pc' = [pc EXCEPT ![w] = "loop"]
  /\ UNCHANGED <<retry, waiting, delivered, peerVars, sysVars,
                 batch, cur, targets, to, cnt, history>>

-----------------------------------------------------------------------------
(* processPendingActivities and deliverToAllPeers. *)

\* The next row of the batch, with a snapshot of the peer map.
StartActivity(w, r) ==
  /\ pc[w] = "loop"
  /\ r \in batch[w]
  /\ \A s \in batch[w] : r <= s
  /\ pc' = [pc EXCEPT ![w] = "peers"]
  /\ batch' = [batch EXCEPT ![w] = @ \ {r}]
  /\ cur' = [cur EXCEPT ![w] = r]
  /\ targets' = [targets EXCEPT ![w] = peers]
  /\ UNCHANGED <<dbVars, peerVars, sysVars, to, cnt, history>>

FinishBatch(w) ==
  /\ pc[w] = "loop"
  /\ batch[w] = {}
  /\ pc' = [pc EXCEPT ![w] = "idle"]
  /\ UNCHANGED <<dbVars, peerVars, sysVars, batch, cur, targets, to, cnt, history>>

FinishActivity(w) ==
  /\ pc[w] = "peers"
  /\ targets[w] = {}
  /\ pc' = [pc EXCEPT ![w] = "loop"]
  /\ cur' = [cur EXCEPT ![w] = NoRow]
  /\ UNCHANGED <<dbVars, peerVars, sysVars, batch, targets, to, cnt, history>>

\* deliverToPeer reports success only for a 200 or 202 that came back.
IgnoresReply(taken, answered) == answered
Accepted(taken, answered) == taken /\ answered

\* The peers a worker still has to serve once it has addressed p.
KeepsTarget(left, p) == left
OnlyFirst(left, p) == {}
Remaining(left, p) == left \ {p}

\* deliverToPeer: the POST to the inbox of one peer, in any order of the map.
\* The peer takes the message or not, and a reply arrives or the call fails
\* or times out: the peer may take a message the worker counts as failed.
DeliverToPeer(w, p) ==
  /\ pc[w] = "peers"
  /\ p \in targets[w]
  /\ to' = [to EXCEPT ![w] = p]
  /\ targets' = [targets EXCEPT ![w] = Remaining(@, p)]
  /\ \E taken, answered \in BOOLEAN :
       /\ reached' = IF taken THEN reached \cup {<<cur[w], p>>} ELSE reached
       /\ pc' = [pc EXCEPT ![w] = IF Accepted(taken, answered)
                                  THEN "sent" ELSE "failed"]
  /\ UNCHANGED <<dbVars, peerVars, sysVars, batch, cur, cnt, audience>>

\* The worker is done with the peer it addressed.
NextPeer(w) ==
  /\ pc' = [pc EXCEPT ![w] = "peers"]
  /\ to' = [to EXCEPT ![w] = NoPeer]
  /\ cnt' = [cnt EXCEPT ![w] = 0]

\* outbox_delivery holds a record of the pair: each upsert leaves a count above
\* 0 or a delivered_at, and nothing deletes records.
HasRecord(pair) == pair \in delivered \/ retry[pair[1]][pair[2]] > 0

\* An upsert that inserts a new record refers to the row of the outbox: the
\* foreign key's FOR KEY SHARE waits for another worker's polling SELECT.
\* One that updates a record does not ask the row.
MayUpsert(w) == HasRecord(Pair(w)) \/ cur[w] \notin Locked(w)

\* MarkOutboxDelivered: delivered_at is set, retry_count starts again from 0
\* and next_retry is left alone; an error is dropped.
MarkOutboxDelivered(w) ==
  /\ pc[w] = "sent"
  /\ MayUpsert(w)
  /\ \/ /\ delivered' = delivered \cup {Pair(w)}
        /\ retry' = [retry EXCEPT ![cur[w]][to[w]] = 0]
     \/ /\ DbFaults
        /\ UNCHANGED <<delivered, retry>>
  /\ NextPeer(w)
  /\ UNCHANGED <<status, waiting, peerVars, sysVars, batch, cur, targets, history>>

-----------------------------------------------------------------------------
(* scheduleRetry. *)

\* The retry that would be this many-th is not made any more.
ExhaustedLate(n) == n > MaxRetries
Exhausted(n) == n >= MaxRetries

GetOutboxRetryInfo(w) ==
  /\ pc[w] = "failed"
  /\ LET n == retry[cur[w]][to[w]] IN
       /\ cnt' = [cnt EXCEPT ![w] = n]
       /\ pc' = [pc EXCEPT ![w] = IF Exhausted(n + 1) THEN "giveup" ELSE "reset"]
  /\ UNCHANGED <<dbVars, peerVars, sysVars, batch, cur, targets, to, history>>

\* MarkOutboxFailed, first statement; if it fails the second is not run.
MarkOutboxFailed(w) ==
  /\ pc[w] = "giveup"
  /\ \/ /\ status' = [status EXCEPT ![cur[w]] = "FAILED"]
        /\ pc' = [pc EXCEPT ![w] = "clear"]
        /\ UNCHANGED <<to, cnt>>
     \/ /\ DbFaults
        /\ NextPeer(w)
        /\ UNCHANGED status
  /\ cur[w] \notin Locked(w)
  /\ UNCHANGED <<retry, waiting, delivered, peerVars, sysVars, batch, cur,
                 targets, history>>

\* MarkOutboxFailed, second statement: next_retry becomes NULL.
ClearNextRetry(w) ==
  /\ pc[w] = "clear"
  /\ \/ waiting' = waiting \ {Pair(w)}
     \/ DbFaults /\ UNCHANGED waiting
  /\ NextPeer(w)
  /\ UNCHANGED <<status, retry, delivered, peerVars, sysVars, batch, cur,
                 targets, history>>

\* The status ResetOutboxStatus leaves in the row.
KeepsStatus(s) == s
ResetStatus(s) == "PENDING"

ResetOutboxStatus(w) ==
  /\ pc[w] = "reset"
  /\ cur[w] \notin Locked(w)
  /\ \/ status' = [status EXCEPT ![cur[w]] = ResetStatus(@)]
     \/ DbFaults /\ UNCHANGED status
  /\ pc' = [pc EXCEPT ![w] = "bump"]
  /\ UNCHANGED <<retry, waiting, delivered, peerVars, sysVars, batch, cur,
                 targets, to, cnt, history>>

\* UpdateOutboxRetry: the count read before plus one, a next_retry at least
\* BaseRetryDelay away, and no delivered_at.
UpdateOutboxRetry(w) ==
  /\ pc[w] = "bump"
  /\ MayUpsert(w)
  /\ \/ /\ retry' = [retry EXCEPT ![cur[w]][to[w]] = cnt[w] + 1]
        /\ waiting' = waiting \cup {Pair(w)}
        /\ delivered' = delivered \ {Pair(w)}
     \/ /\ DbFaults
        /\ UNCHANGED <<retry, waiting, delivered>>
  /\ NextPeer(w)
  /\ UNCHANGED <<status, peerVars, sysVars, batch, cur, targets, history>>

\* The backoff of a pair runs out.
Elapse(pair) ==
  /\ pair \in waiting
  /\ waiting' = waiting \ {pair}
  /\ UNCHANGED <<status, retry, delivered, peerVars, sysVars, workerVars, history>>

-----------------------------------------------------------------------------
(* The process. *)

\* The process is gone, with every worker's local state, its open statement
\* and the locks of that.
ProcessExit ==
  /\ crashes < MaxCrashes
  /\ crashes' = crashes + 1
  /\ up' = FALSE
  /\ pc' = [w \in Workers |-> "idle"]
  /\ batch' = [w \in Workers |-> {}]
  /\ cur' = [w \in Workers |-> NoRow]
  /\ targets' = [w \in Workers |-> {}]
  /\ to' = [w \in Workers |-> NoPeer]
  /\ cnt' = [w \in Workers |-> 0]
  /\ UNCHANGED <<dbVars, peerVars, history>>

\* A kill, or a shutdown: Stop() closes stopCh and main returns without
\* waiting for the workers.
Crash == up /\ ProcessExit

\* GetOutboxRetryInfo fails, its error is dropped and the nil record is
\* dereferenced: the panic ends the process.
RetryInfoPanic(w) ==
  /\ DbFaults
  /\ pc[w] = "failed"
  /\ ProcessExit

\* NewSyncEngine and Start: loadPeers reads back the registry's FOLLOWING
\* peers; the outbox tables are left as they are.
Restart ==
  /\ ~up
  /\ up' = TRUE
  /\ peers' \in SUBSET registered
  /\ UNCHANGED <<dbVars, registered, crashes, workerVars, history>>

-----------------------------------------------------------------------------
WorkerStep(w) ==
  \/ \E S \in SUBSET Rows : Poll(w, S)
  \/ CloseRows(w)
  \/ MarkActivitiesAsProcessing(w)
  \/ \E r \in Rows : StartActivity(w, r)
  \/ FinishBatch(w)
  \/ FinishActivity(w)
  \/ \E p \in Peers : DeliverToPeer(w, p)
  \/ MarkOutboxDelivered(w)
  \/ GetOutboxRetryInfo(w)
  \/ MarkOutboxFailed(w)
  \/ ClearNextRetry(w)
  \/ ResetOutboxStatus(w)
  \/ UpdateOutboxRetry(w)

Next ==
  \/ \E w \in Workers : WorkerStep(w)
  \/ \E w \in Workers : RetryInfoPanic(w)
  \/ \E r \in Rows : AddToOutbox(r)
  \/ \E p \in Peers : AddPeer(p)
  \/ \E pair \in Pairs : Elapse(pair)
  \/ Crash
  \/ Restart

Spec == Init /\ [][Next]_vars

\* The statements that may wait for the lock of a row.  A worker is at one of
\* them at a time.
StatementOnRow(w) ==
  \/ MarkActivitiesAsProcessing(w)
  \/ MarkOutboxDelivered(w)
  \/ MarkOutboxFailed(w)
  \/ ResetOutboxStatus(w)
  \/ UpdateOutboxRetry(w)

\* Goroutines keep running, tickers keep firing and the HTTP client gives up
\* after 30 seconds; a process that died is started again.  A statement that
\* waits for a row lock is next in PostgreSQL's queue for it, however often
\* others poll the row: strong fairness.  Nothing is assumed of the network,
\* the peers or the API's callers.
Fairness ==
  /\ \A w \in Workers :
       /\ WF_vars(WorkerStep(w))
       /\ SF_vars(StatementOnRow(w))
  /\ WF_vars(Restart)

FairSpec == Spec /\ Fairness

-----------------------------------------------------------------------------
(* Properties. *)

\* A delivery's stored retry count stays below MaxRetries, however many
\* workers read it, add one and write it back at the same time
\* (scheduleRetry).
RetryBound == \A r \in Rows, p \in Peers : retry[r][p] < MaxRetries

\* delivered_at is only ever set for a peer whose inbox took the message
\* (deliverToAllPeers records after deliverToPeer returned nil).
DeliveredIsReached == delivered \subseteq reached

\* Some worker has the row in its batch or in its hands.
Handled(r) == \E w \in Workers : r \in batch[w] \/ cur[w] = r

\* Where an activity stands: a row in PROCESSING that nobody has in hand is
\* never looked at again.
Standing(r) ==
  CASE status[r] = "absent" -> "none"
    [] status[r] = "FAILED" -> "gaveUp"
    [] status[r] = "PROCESSING" /\ ~Handled(r) -> "closed"
    [] OTHER -> "open"

Promise == INSTANCE DeliveryPromise WITH phase <- [r \in Rows |-> Standing(r)]

\* As long as no statement fails and the process stays up, the workers keep
\* the promise of DeliveryPromise: a row leaves the hands of the last worker
\* in a state nobody polls only when its deliveries are done, and stays so,
\* though workers share rows, and reset and fail each other's
\* (deliverToAllPeers, scheduleRetry).
KeepsPromise == Promise!Spec

\* A row left in PROCESSING, that no worker has in hand, has reached every
\* peer known when it was inserted: as long as no statement fails and the
\* process stays up, taking a row out of PENDING loses no delivery, even
\* when several workers took it (GetPendingOutboxActivities, scheduleRetry).
NoSilentLoss ==
  \A r \in Rows :
    status[r] = "PROCESSING" /\ ~Handled(r)
      => \A p \in audience[r] : <<r, p>> \in reached

\* Every activity reaches each peer known when it was inserted, or is marked
\* FAILED at some point; a peer that a restart did not load is not owed.
EventuallyReachedOrFailed ==
  \A r \in Rows, p \in Peers :
    p \in audience[r] ~> \/ <<r, p>> \in reached
                         \/ status[r] = "FAILED"
                         \/ p \notin peers

\* How far a worker in a phase is from its ticker, while its batch and its
\* targets stay as they are.
Distance ==
  [idle |-> 0, loop |-> 1, peers |-> 2, sent |-> 3, clear |-> 3, bump |-> 3,
   giveup |-> 4, reset |-> 4, failed |-> 5, fetched |-> 6, select |-> 7]

\* There is less left of w's batch, or as much and less of the peers to serve,
\* or it is nearer to its ticker.
LessWork(w) ==
  \/ batch'[w] \subseteq batch[w] /\ batch'[w] # batch[w]
  \/ /\ batch'[w] = batch[w]
     /\ \/ targets'[w] \subseteq targets[w] /\ targets'[w] # targets[w]
        \/ targets'[w] = targets[w] /\ Distance[pc'[w]] < Distance[pc[w]]

\* While the process is up, each step of a worker that has taken rows leaves
\* it less work, whatever fails, and nobody else gives it more: rows reset by
\* others, peers that join and retries come with a later poll
\* (processPendingActivities, deliverToAllPeers, scheduleRetry).
WorkShrinks ==
  [][\A w \in Workers :
       pc[w] # "idle" /\ up'
         => LessWork(w) \/ UNCHANGED <<pc[w], batch[w], cur[w], targets[w]>>]_vars

\* A worker that has taken rows comes back to its ticker: the UPDATEs and new
\* delivery records that wait behind another's row locks go through, nobody
\* waits in a circle, and the loops over rows and peers end.
BatchesEnd == \A w \in Workers : pc[w] = "select" ~> pc[w] = "idle"
=============================================================================
