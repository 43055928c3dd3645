# fedratlas-sync-go: verification project

TLA+ models of the synchronization server, TLC runs that check them on small
instances, and TLAPS proofs of what matters for every value of the constants.
Every definition names its source lines in `PROJECT.json` ("map"); paths below
are relative to the repository.

## 1. The system

A fedratlas server keeps geographic features in PostgreSQL and tells its peers,
other servers, of every change. One process runs HTTP and gRPC handlers, four
outbox workers, a health loop, and short goroutines that forward messages. It
shares two kinds of state: tables, through a connection pool where every
statement is its own transaction, and the map of peers in memory.

| Component | State | Operations | Talks to |
|---|---|---|---|
| Features API (`internal/api/features.go`, `feature_repo.go`) | `geo_features` | POST, PUT, DELETE, reads | calls `OnFeatureChange` after each write |
| Change capture (`engine.go: OnFeatureChange`) | `federation_outbox` | one INSERT per change | called by HTTP and gRPC handlers |
| Outbox (`internal/sync/outbox.go`, `outbox_repo.go`) | `federation_outbox`, `outbox_delivery`, locals of each worker | poll, mark, deliver, retry, fail | POSTs to the peers' inboxes; reads the peer map |
| Peers and health (`internal/sync/peers.go`, `peer_repo.go`, `federation_repo.go`) | map `SyncEngine.peers`, table `peer_registry` | AddPeer, loadPeers, health checks, trust scores | map read by outbox and forwarding, table by the inbox |
| Inbox (`internal/api/inbox.go`, `internal/sync/inbox.go`) | none of its own | verify, store a copy, adjust trust, forward | `peer_registry`, `geo_features`, the peers |
| Signatures (`internal/crypto/signer.go`) | a key pair per process | sign, verify | outbox, inbox |
| Lifecycle (`engine.go`, `cmd/server/main.go`) | context, `stopCh` | Start, Stop, shutdown | starts workers and loops |
| gRPC API (`internal/grpc/server.go`) | none | OnFeatureChange, AddPeer, reads | the engine |
| Endpoints for health and manifest; generated `proto/`; empty `internal/federation/` | none | reads | - |

What is hard here:

* **interleaving**: workers share rows, because the row locks of the polling
  SELECT go with that statement, before the UPDATE that takes the rows
  (`outbox_repo.go:73-99`); retry counts and trust scores are read, changed and
  written back in separate statements; health checks use pointers copied when
  the round began;
* **failure**: most errors of statements are dropped (`outbox.go:118-124`,
  `186-205`, `features.go:102`); a peer may take a message whose reply is lost;
* **restarts**: rows in PROCESSING, the blocks of the health loop and the
  server's key pair are not what a restart needs them to be;
* **liveness**: each activity should reach each peer or be marked FAILED,
  though workers undo each other's statuses.

What makes the components correct: the outbox loses no delivery, records only
deliveries that took place, bounds its retries and never hangs; updates of
features are not lost, and of the changes made over HTTP the outbox tells
exactly the committed ones; map and table of peers agree, blocks last, dead
peers are blocked; a shutdown lets calls finish. `PROJECT.json` lists the
hazards line by line with the properties that cover them.

## 2. Modules

| Module | Content |
|---|---|
| `DeliveryPromise` | abstract specification of the outbox: activities are submitted, reach peers, are given up, closed, reopened; no workers, tables or retries |
| `Outbox` | the outbox of one server, refining `DeliveryPromise` |
| `FeatureStore` | abstract specification of the features: every change is one atomic step, recorded once; no requests under way |
| `Features` | the handlers of features over `geo_features`, and the activity each change logs, refining `FeatureStore` |
| `Peers` | registry, peer map, health loop, and the inbox's use of the registry |
| `Federation` | several servers: what outbox, inbox and forwarding do together, over `DeliveryPromise` |
| `Lifecycle` | one process from start to end, its requests and loops |
| `MCOutbox`, `MCFeatures`, `MCPeers`, `MCFederation`, `MCLifecycle` | instances for TLC, and statements of the sources that the code does not keep |
| `OutboxProofs`, `FeaturesProofs`, `PeersProofs`, `FederationProofs`, `LifecycleProofs` | the theorems |

`Outbox`, `Features`, `Peers` and `Lifecycle` model one server and share no
variables: the outbox sees of the registry only who is registered and in the
map, features only what is put in the outbox, and the inbox's effect on
features and on the registry is in the module of that state. `Federation`
composes servers. Each of its outboxes takes the steps of `DeliveryPromise`,
which `Outbox` is shown to implement, so workers and retries need not be told
again there.

### Outbox

`status` is the column of `federation_outbox`, `retry`, `waiting` and
`delivered` the columns retry_count, next_retry (is it in the future?) and
delivered_at of `outbox_delivery`. `peers` are the keys of the engine's map,
`registered` those of the registry. Each worker has its place in the code
(`pc`), the rows it polled (`batch`), the row, peers and peer in hand (`cur`,
`targets`, `to`), and the retry count it has read (`cnt`). `reached` and
`audience` are history: which inboxes took which message, and who was followed
when a row was inserted.

One SQL statement is one action, and between two statements anything may run.
The poll alone takes two (`Poll`, `CloseRows`), because its locks make other
polls skip its rows and other statements on them wait: the UPDATEs of a row
(guard `Locked`), and the INSERT of a delivery record that is new, whose foreign
key takes a share lock on the row (`MayUpsert`, `HasRecord`; `schema.go:62`). A
statement that waits is one step, since the lock it takes is held for that
statement only. An error that is dropped is
a disjunct of its statement under `DbFaults`; rows that stop coming cut a batch
short; a failed `GetOutboxRetryInfo` dereferences nil and ends the process
(`RetryInfoPanic`). `DeliverToPeer` lets the peer take the message or not and
the reply arrive or not. `Crash` is a kill or a shutdown: `Stop` waits for no
worker. What the activity says is left out, and so are the delays: a backoff
elapses at any time (`Elapse`).

### Features

A request is a handler with the feature it works on, the version it will store
and, for a PUT, the version property of the document sent. Two numbers matter:
the column `version` and the property "version" of the stored JSON (`prop`),
from which `UpdateFeature` computes the next version. A document has no numeric
version (`NoVersion`) or a small number. `changes` is history: what was
committed; `logged` is what reached the outbox. `ApplyFeatureChange` is the
copy the inbox stores, whose version comes from a message the sender leaves at
0. It is no change of this server and tells the outbox nothing. Activities that
gRPC clients hand to `OnFeatureChange` (`grpc/server.go:50`) touch no feature
and are no part of `logged`. Geometry, collections and other properties are
abstracted.

`FeatureStore` has the same tables and no handlers: there a replacement takes
its version from the very document it overwrites, a new feature has an id that
was never used, and a change is recorded under a name no other change has. So
it says of the two halves of a PUT, between which anything may run, that they
are as good as one step, and of the sets `changes` and `logged` that they leave
out no repetition.

### Peers

`row` is `peer_registry`, `mem` the map. A health check holds `todo` and
`checking`; when `AddPeer` replaces the entry of a peer still to be checked, the
check keeps the old object (`stale`, `old`). `HandleUnhealthyPeer` writes to
the object held, `IncreasePeerTrust` to the entry looked up anew, as the code
does. It skips a peer for whose endpoint no request can be made
(`SkipUnparsable`, `peers.go:92-96`), at no cost to the peer: `url` says whether
the endpoint parses. Scores are thousandths in the map (the float, truncated)
and rounded to hundredths in the table. `AddPeer` validates none: `Scores` is
any set of finite numbers that the table takes, those that round to the
-9.99..9.99 of `NUMERIC(3,2)` (`Column`), negative ones among them. An UPDATE
whose result does not fit fails (`WriteScore`). An INSERT that is refused for
its score changes nothing, the map being written after it; NaN, which gRPC can
carry, is left out. A message is read and verified (`Receive`), then
costs or gains its sender trust in a later step (`Penalise`, `Reward`), from the
score read before. `AddPeerReplyLost` is an INSERT that was carried out and
reported as failed; `unsure` is history, the peers it happened to last;
it counts as a registration. `last_seen` is left out: no decision reads it.

### Federation

`row[s][p]` and `mem[s][p]` are what server s says of p in its table and in its
map: a status, and in the table a key. `key[s]` is the key of s's process, a
number that grows with each `Restart` (`crypto.NewSigner`). A change is made by
its `Origin`, whose outbox tries the peers of its map (`DeliverToPeer`,
`DeliveryFails`), signing anew each time; `Close` and `GiveUp` are a round
without failures and the last FAILED. A message is the server it comes through,
its receiver, the change and the key it is signed with: a forwarded one keeps
its first sender and signature, and the receiver checks it against its row of
that sender (`Accepts`). A deletion has no geometry and is refused (`Applies`).
`HandleInbox` stores the copy and starts the goroutine that forwards (`tasks`),
to everybody in the map but the first sender and blocked peers (`Targets`),
once and without looking at the answer.

Copies, goroutines and messages are sets: what is told apart is whether a
message is there, not how often. `HandleInbox` is one step; what may come
between its reading the row and its score update is in `Peers`, and nothing
else it does depends on the row. `AddPeer` takes any key the peer ever showed,
for manifests may be cached (`CachedManifest`). `told`, `born` and `since` are
history. A server may register itself, as nothing prevents it.

### Lifecycle

`pc` is where main is: of `cmd/server`, or of `cmd/grpc`, which serves in main
and handles no signal (`program`). The goroutines of the two servers are in
`http` and `grpc`, each request has its place in a handler (`step`), each loop
of the engine its own (`loop`). Any round of an outbox worker (`Workers`, the
loops that are not the health loop) may panic on the nil of a failed
`GetOutboxRetryInfo` (`RoundPanics`, `outbox.go:184-186`), which ends the
process where main is, without main's deferred calls. The end is told call by
call, since the process may end between any two: `BeginShutdown` and
`HttpStopped` are `Shutdown` with its 30 seconds, `GrpcStopped` is
`GracefulStop`, `ServeReturns` the `log.Fatalf` of the goroutine whose `Serve`
returns, `StopEngine` and `DeferredStop` the two calls of `Stop`, of which the
second panics, `StorageClosed` the deferred `Close`. What these do is modelled
from the documented behaviour of `net/http`, `grpc-go` and `pgxpool`.

## 3. Runs

| Run | Instance | Shows |
|---|---|---|
| `outbox` | 2 workers, 2 rows, 1 peer, LIMIT 2, no faults, symmetry (142 k states) | `TypeOK`; `RetryBound`: stored counts stay below MaxRetries; `NoSilentLoss`: a row left in PROCESSING has reached its audience; `KeepsPromise`: refinement of `DeliveryPromise` |
| `outbox_faults` | 2 workers, 1 row, 1 peer, any statement may fail, 1 crash, fairness (11 k) | `RetryBound`, `DeliveredIsReached`: delivered_at implies the inbox took it; `BatchesEnd`: a worker that polled rows comes back to its ticker, though polls lock the rows it updates and adds delivery records to; `WorkShrinks`: each step of its own brings it nearer |
| `outbox_live` | 2 workers, 1 row, 2 peers, fairness (295 k) | `EventuallyReachedOrFailed`, and the refinement with two peers |
| `features` | 2 requests, 2 features, versions to 2, 1 fault, symmetry (1.6 M) | `NoLostUpdate`: a PUT overwrites only the row it read; `LogMatchesChanges`: of the changes made over HTTP the outbox reports committed ones only, and all of them unless something failed; `ReportedOnce`: and none twice; `KeepsStore`: refinement of `FeatureStore` |
| `peers` | 1 peer, 2 keys, 2 registrations whose replies may be lost, scores 0.32 and -9.99, endpoints that parse or do not, 1 message, 1 healthy check, 1 fault or crash, fairness (409 k) | `RegistryAgrees`: map and table agree across restarts, but for a peer whose INSERT lost its reply, until it is added again; `BlockingLasts`: no check under way revives a blocked entry; `DownIsBlocked`: a peer that stops answering ends up blocked, unless its endpoint does not parse; `DownWearsOut`: each failed check brings it nearer |
| `federation` | 3 servers, 1 change of the first, 8 initial registries, 1 registration, 2 keys each, 1 loss, block or restart, fairness (176 k) | `Vouched`: where copies and messages come from; `ClosedIsStored`: what an outbox has closed is stored wherever it was to go; `SpreadWhenQuiet`: when an undisturbed change is done with, exactly the servers that chains of peers lead to hold it; `TrafficEnds`: forwarding ends unless a circle of servers stays; `EventuallySpread`: a change gets to every server a chain of peers leads to |
| `lifecycle` | both programs, 3 requests, a worker and the health loop, fairness (25 k) | `OnlyCrashesCut`: calls are cut off by a kill, a refused port or a worker's panic only, HTTP requests also by the 30 seconds; `ServedWhole`: calls find pool and engine up; `Ends`: a process told to stop does |

Five runs show statements of the sources that the code does not keep:

| Run | Statement | What happens |
|---|---|---|
| `outbox_double` | `outbox_repo.go:64`, SKIP LOCKED keeps workers apart | both poll a row before either marks it |
| `outbox_backoff` | `outbox.go:117`, exponential backoff | the row is PENDING at once and next_retry is never read |
| `outbox_crash` | README.md:43, reliable synchronization | a stop between marking and delivering strands the row in PROCESSING |
| `features_put` | `feature_repo.go:109`, "not found or version conflict" | the first PUT of a feature POSTed without a version computes version 1 for a row of version 1, and is refused though nobody else wrote |
| `peers_blocked` | `peers.go:142`, "Blocking peer" | the block is in the map only, and the inbox asks the table |

**Bounds.** Two workers on one row already show every race on a row, since a
worker's steps depend on others through the row only; the second row adds
batches (LIMIT, order, locks on part of a batch), the second peer the order of
deliveries. `MaxRetries` is 2: one retry that is made and one that is not. Two
requests on one feature are what a lost update needs; the second feature keeps
them apart. One peer is enough for `Peers`, whose actions treat peers
separately but for the health loop, which takes them one at a time; a score of
0.32 takes two failed checks to be blocked, one of -9.99 is lifted to a tenth
and blocked by the first, and taken out of the column's range by a gain; two
registrations are what a stale pointer needs. Where symmetry is used no
liveness is checked. Deadlock checking is off because every bound ends in a
quiet state.

Three servers are what a chain and a circle need, the fewest for a message that
comes back on another way. The initial registries are those in which the first
two servers know each other, the third knows either, both or none, and the
second may know the third; the first may register it later. One fault at a time
shows each kind; together with the registration it covers a restart that is
followed by a registration with the new key or a cached old one. In `lifecycle`
three requests allow both kinds at once, in all places of a handler.

LIMIT is at least the number of rows in every run. With fewer,
`EventuallyReachedOrFailed` is false (`MCOutboxLive.cfg` with two rows, one peer
and LIMIT 1): the oldest rows are polled first, a failure goes back to PENDING
at once, and a delivery by another worker sets the count back to 0
(`outbox_repo.go: MarkOutboxDelivered`), so a row that is delivered and fails by
turns is polled for ever and keeps newer rows waiting.

**Fairness.** `Outbox`: each worker's next step is weakly fair, because its
goroutine runs on, its ticker fires every five seconds and its HTTP client
gives up after 30; the statements that may wait for a row lock
(`StatementOnRow`: three UPDATEs, and the two upserts of delivery records) are
strongly fair, because a statement that waits stays in PostgreSQL's queue while
polls skip locked rows; a process that died is started again. `Peers`: the
health loop is weakly fair (ticker of 30 seconds, requests that end after 5).
`Federation`: the outbox tries each peer of a change once and ends with every
change, which is what `BatchesEnd` and `EventuallyReachedOrFailed` say of it;
forwarding goroutines run on, and a message that is not lost arrives or is
refused. `Lifecycle`: main runs on, the 30 seconds run out, and gRPC calls come
to an end; HTTP handlers need not. Nothing is assumed of peers, network,
statements that may fail, or callers of the API.

## 4. Proofs

All theorems hold for every value of the constants that the named assumption
of the module admits: any numbers of workers, rows, peers, requests, any bounds.

* `OutboxProofs`. `CoreInv` adds to the types what a worker's phase says of its
  other variables: a count it has read and not given up on is below the limit,
  a reply it records has arrived. It is inductive under faults and crashes and
  gives `TypeCorrect`, `RetryBounded` and `DeliveredReached`; `RetryBound` alone
  is not inductive, because a worker writes back a count another has changed
  since. `ReliableInv` says that a row in PROCESSING owes nothing or is carried
  by a worker, one that has yet to serve, or to reset, what is owed. That is
  the reason why racing workers lose nothing: whoever marks a row serves it
  from the start. It is inductive when no statement fails and the process stays
  up, which is a hypothesis (`Reliable`) of `NothingForgotten`, `NothingLost`
  and `PromiseKept`; without it the property is false (`outbox_crash`).
  `PromiseKept` is the refinement: initial states map to initial states, and
  each step to a step of `DeliveryPromise` or a stutter. `WorkOnlyShrinks` is
  the ranking behind `BatchesEnd`, and needs `CoreInv` only: rows left in the
  batch, then peers left for the row, then statements left for the peer never
  grow together, so a worker cannot be sent back, whatever fails.
* `FeaturesProofs`. `Reads` says of each PUT between its read and its UPDATE
  that either the row is as it was read and the version in hand is the next
  one, or the row is newer and the version in hand does not exceed it. Hence
  whoever writes first makes everybody else's version too small:
  `UpdatesNotLost`. `Matches` states `LogMatchesChanges` one activity at a
  time: `ChangesLogged`. For the refinement a third part is needed, `StoreInv`:
  an id not given out has version 0 (`Unused`), and what is recorded lasts
  (`Recorded`: the column stays at or above every version an update has had, a
  deleted row stays away). It makes each change a new one, and with it
  `ReportedOnce` becomes inductive: `NothingReportedTwice`. `StoreKept` takes
  every step to one of `FeatureStore`: a POST, DELETE or copy to its
  counterpart, the UPDATE of a PUT to the whole replacement, the INSERT into
  the outbox to a report, everything else to a stutter. `FeaturesTyped` is type
  correctness.
* `PeersProofs`. `Registered` (entries, senders and the peer being checked are
  in the table) makes types and `RegistryAgrees` inductive: `PeersTyped`,
  `RegistryConsistent`; `BlockingKept` follows for each step. `DownLosesTrust`
  is the ranking behind `DownIsBlocked`: a failed check of a peer that is not
  blocked lowers its score, unless it blocks it. The exception is real, since
  a loss is floored at a tenth, which raises a score below that, and such a
  peer is blocked by the same check. `LowScoresStay` is about the column, for
  all it can hold: written through `NUMERIC(3,2)`, a gain of two percent raises a
  score from 0.25 up to below 1 and no other; it lowers one above 1, which is
  capped, and one of -0.25 or less, until the result no longer fits.
* `FederationProofs`. `Told` says that the key of a row is one its server was
  told, that only keys the peer has had are told, and that a change was made
  with a key its origin has had. With it `Vouched` is inductive: a copy comes
  either from the origin's process of now, or from a message that another
  holder passed on, whose key is that of the row it was checked against:
  `FederationTyped`, `AllVouched`. `Delivered` (what counts as reached is
  stored, what is closed is reached) gives `ClosedStored`, under all faults: it
  joins the promise of the outbox with what the inbox does before it answers.
  `SpreadInv` is the invariant of `SpreadWhenDone`. Of an undisturbed change it
  says that the peers tried have it unless they refuse it, that every copy has
  been, is being or will be offered to all servers it is passed on to
  (`OnItsWay`), and that copies and messages never leave the servers the change
  gets to. When nothing is under way, the holders are closed under passing on,
  and the least such set is `GetsTo`; no induction over chains is needed.
* `LifecycleProofs`. `Phases` ties pool, engine and servers to the place main is
  at, `Waited` says that requests are at servers that serve and that main is
  past a server only when nobody is left there or the 30 seconds are over,
  `Ended` where a process ends. Together they are inductive (`LifeInv`):
  `LifecycleTyped`, `CutByCrashesOnly`, `RequestsServedWhole`. The panic of a
  worker is an exit of its own and excepted in the second: no shutdown can wait
  for it.

Only model-checked, since the prover handles neither fairness nor ENABLED, are
the liveness properties: `BatchesEnd` and `DownIsBlocked`, whose rankings are
proved (`WorkOnlyShrinks`, `DownLosesTrust`); `EventuallySpread` and
`EventuallyReachedOrFailed`, of which it is proved what holds at the end if
there is one (`SpreadWhenDone`, `PromiseKept`); `TrafficEnds` and `Ends`. That a
ranking leads to the end would take induction over its values in a temporal
proof, which is out of reach for the same reason.

Every property has a mutant of the code that breaks it, listed in
`PROJECT.json`; mutants are the definitions just above the ones they replace.

## 5. Not modelled

Because it only reads or is never called: the lists of peers, collections and
features, `HealthCheck`, `DetailedHealth`, `Ping`, `WithTransaction`,
`AddToOutboxBatch`, `GetFailedOutboxActivities`, `AddPeerTx`, `GetActivePeers`,
`LogFederationEvent`, `NewSignerFromPrivateKey`, the unused tables. Generated
code. Data races on fields of peers that handlers print (`GetPeers`) have no
effect on what is modelled.

Left out on purpose:

* the number of copies: a repeated or returning message is stored as one more
  feature, since messages carry nothing to recognise them by. `Federation` says
  where copies are, not how many;
* the order in which two updates of one feature reach the outbox
  (`features.go:187`): receivers ignore versions and keep a copy of each;
* what trust scores should be: concurrent updates lose each other, and the
  two decimals of the column swallow small gains; both are in `Peers`, but the
  sources state nothing of the outcome;
* an audience that grows after the insertion: a row polled while nobody is
  followed is closed without a delivery (`outbox.go:111`);
* what a cut does to a round: a worker in the middle of one is cut off by every
  shutdown, and by another worker's panic; `Lifecycle` says when, and `Outbox`
  has both as a crash;
* a peer whose endpoint no longer parses (`peers.go:92`): it stays in the map
  unchecked. `Peers` has it, and no property claims that it is ever blocked.

What remains to be done: `EventuallyReachedOrFailed` for a LIMIT below the
number of rows, should the code ever keep retry counts over a success; a
composition of `Features` with `Federation`, for which messages would need an
identity.
