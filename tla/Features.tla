------------------------------ MODULE Features ------------------------------
(***************************************************************************)
(* The features of one server: the table geo_features, the handlers that   *)
(* create, update and delete (internal/api/features.go over                *)
(* internal/storage/postgres/feature_repo.go), the copies the inbox stores *)
(* (ApplyFeatureChange), and the activity each change puts in the outbox.  *)
(*                                                                         *)
(* A request runs as a goroutine of its own: one SQL statement per step,   *)
(* the INSERT into the outbox a step later than the change it reports.     *)
(* Of a feature two numbers matter: the column version, and the property   *)
(* "version" of its JSON document, which clients write as they like and    *)
(* from which UpdateFeature computes the next version.                     *)
(***************************************************************************)
EXTENDS Integers, FiniteSets

CONSTANTS
  Handlers,    \* goroutines that serve requests
  MaxId,       \* bounds the features ever created
  NoVersion,   \* the property of a document that has none
  MaxVersion,  \* bounds the versions clients write
  MaxFaults    \* bounds failed statements and crashes

ASSUME FeaturesAssumption ==
  /\ MaxId \in Nat
  /\ MaxVersion \in Nat
  /\ NoVersion \notin Int
  /\ MaxFaults \in Nat

VARIABLES
  stored,   \* ids of the rows of geo_features
  version,  \* column version of each id
  prop,     \* property "version" of the document of each id
  lastId,   \* the last id the sequence gave out
  pc,       \* where each handler is
  id,       \* the feature it works on
  new,      \* the version it is going to store
  body,     \* the property "version" its client sent
  seen,     \* history: the column version when it read the feature
  logged,   \* activities in federation_outbox (gRPC callers' left out)
  changes,  \* history: changes committed, as the activities that report them
  faults    \* failed statements and crashes so far

table    == <<stored, version, prop, lastId>>
handlers == <<pc, id, new, body, seen>>
vars     == <<table, handlers, logged, changes, faults>>

Ids      == 1 .. MaxId
Props    == {NoVersion} \cup (0 .. MaxVersion)
Phase    == {"idle", "created", "read", "updated", "deleted"}
Kinds    == {"Create", "Update", "Delete"}
Activity == [kind : Kinds, id : Ids, version : Nat]

TypeOK ==
  /\ stored \in SUBSET Ids
  /\ version \in [Ids -> Nat]
  /\ prop \in [Ids -> Props]
  /\ lastId \in 0 .. MaxId
  /\ pc \in [Handlers -> Phase]
  /\ id \in [Handlers -> Ids \cup {0}]
  /\ new \in [Handlers -> Nat]
  /\ body \in [Handlers -> Props]
  /\ seen \in [Handlers -> Nat]
  /\ logged \in SUBSET Activity
  /\ changes \in SUBSET Activity
  /\ faults \in 0 .. MaxFaults

Init ==
  /\ stored = {} /\ lastId = 0
  /\ version = [i \in Ids |-> 0]
  /\ prop = [i \in Ids |-> NoVersion]
  /\ pc = [h \in Handlers |-> "idle"]
  /\ id = [h \in Handlers |-> 0]
  /\ new = [h \in Handlers |-> 0]
  /\ body = [h \in Handlers |-> NoVersion]
  /\ seen = [h \in Handlers |-> 0]
  /\ logged = {} /\ changes = {}
  /\ faults = 0

\* The handler answers its client and is done.
Done(h) ==
  /\ pc' = [pc EXCEPT ![h] = "idle"]
  /\ id' = [id EXCEPT ![h] = 0]
  /\ new' = [new EXCEPT ![h] = 0]
  /\ body' = [body EXCEPT ![h] = NoVersion]
  /\ seen' = [seen EXCEPT ![h] = 0]

\* A statement that may fail has failed.
Fault == faults < MaxFaults /\ faults' = faults + 1

-----------------------------------------------------------------------------
(* The statements of feature_repo.go. *)

\* CreateFeature: version 1, whatever the document says.
InsertRow(p) ==
  /\ lastId < MaxId
  /\ lastId' = lastId + 1
  /\ stored' = stored \cup {lastId + 1}
  /\ version' = [version EXCEPT ![lastId + 1] = 1]
  /\ prop' = [prop EXCEPT ![lastId + 1] = p]

\* UPDATE ... WHERE feature_id = $4 AND version < $3 finds a row.
AcceptsSame(i, n) == i \in stored /\ version[i] <= n
Updatable(i, n) == i \in stored /\ version[i] < n

-----------------------------------------------------------------------------
(* The handlers. *)

\* POST: the row is inserted; a failed INSERT ends the request.
CreateFeature(h, p) ==
  /\ pc[h] = "idle"
  /\ InsertRow(p)
  /\ pc' = [pc EXCEPT ![h] = "created"]
  /\ id' = [id EXCEPT ![h] = lastId + 1]
  /\ new' = [new EXCEPT ![h] = 1]
  /\ changes' = changes \cup {[kind |-> "Create", id |-> lastId + 1, version |-> 1]}
  /\ UNCHANGED <<body, seen, logged, faults>>

TakesVersion(p) == p

\* The version after that of a document: one more than a numeric property
\* "version", else 1.
NextVersion(p) == IF p = NoVersion THEN 1 ELSE p + 1

\* PUT, first half: GetFeature reads the current row.
ReadCurrent(h, i, p) ==
  /\ pc[h] = "idle"
  /\ i \in stored
  /\ pc' = [pc EXCEPT ![h] = "read"]
  /\ id' = [id EXCEPT ![h] = i]
  /\ new' = [new EXCEPT ![h] = NextVersion(prop[i])]
  /\ body' = [body EXCEPT ![h] = p]
  /\ seen' = [seen EXCEPT ![h] = version[i]]
  /\ UNCHANGED <<table, logged, changes, faults>>

\* PUT, second half: the UPDATE stores the document and its version.
UpdateRow(h) ==
  /\ pc[h] = "read"
  /\ Updatable(id[h], new[h])
  /\ version' = [version EXCEPT ![id[h]] = new[h]]
  /\ prop' = [prop EXCEPT ![id[h]] = body[h]]
  /\ pc' = [pc EXCEPT ![h] = "updated"]
  /\ changes' = changes \cup {[kind |-> "Update", id |-> id[h], version |-> new[h]]}
  /\ UNCHANGED <<stored, lastId, id, new, body, seen, logged, faults>>

RefuseLogged(h) ==
  /\ pc[h] = "read"
  /\ ~Updatable(id[h], new[h])
  /\ pc' = [pc EXCEPT ![h] = "updated"]
  /\ UNCHANGED <<table, id, new, body, seen, logged, changes, faults>>

\* The UPDATE changes no row: the client gets an error, nothing is logged.
RefuseUpdate(h) ==
  /\ pc[h] = "read"
  /\ ~Updatable(id[h], new[h])
  /\ Done(h)
  /\ UNCHANGED <<table, logged, changes, faults>>

\* DELETE; a missing row ends the request.
DeleteFeature(h, i) ==
  /\ pc[h] = "idle"
  /\ i \in stored
  /\ stored' = stored \ {i}
  /\ pc' = [pc EXCEPT ![h] = "deleted"]
  /\ id' = [id EXCEPT ![h] = i]
  /\ changes' = changes \cup {[kind |-> "Delete", id |-> i, version |-> 0]}
  /\ UNCHANGED <<version, prop, lastId, new, body, seen, logged, faults>>

\* The activity a handler has still to report.
Report(h) ==
  [kind    |-> CASE pc[h] = "created" -> "Create"
                 [] pc[h] = "updated" -> "Update"
                 [] OTHER -> "Delete",
   id      |-> id[h],
   version |-> new[h]]

Reporting(h) == pc[h] \in {"created", "updated", "deleted"}

\* OnFeatureChange: the INSERT into the outbox.  Its error is dropped, and
\* the client is told the change is made either way.
OnFeatureChange(h) ==
  /\ Reporting(h)
  /\ \/ logged' = logged \cup {Report(h)} /\ UNCHANGED faults
     \/ Fault /\ UNCHANGED logged
  /\ Done(h)
  /\ UNCHANGED <<table, changes>>

\* A statement of a PUT fails after its read: the client gets an error.
UpdateFails(h) ==
  /\ pc[h] = "read"
  /\ Fault
  /\ Done(h)
  /\ UNCHANGED <<table, logged, changes>>

\* The inbox stores another server's feature as a new one, its document's
\* version set to the message's, which the sender never fills in.
ApplyFeatureChange ==
  /\ InsertRow(0)
  /\ UNCHANGED <<handlers, logged, changes, faults>>

\* The process ends and starts again: requests are gone, tables stay.
CrashRestart ==
  /\ Fault
  /\ pc' = [h \in Handlers |-> "idle"]
  /\ id' = [h \in Handlers |-> 0]
  /\ new' = [h \in Handlers |-> 0]
  /\ body' = [h \in Handlers |-> NoVersion]
  /\ seen' = [h \in Handlers |-> 0]
  /\ UNCHANGED <<table, logged, changes>>

HandlerStep(h) ==
  \/ \E p \in Props : CreateFeature(h, p)
  \/ \E i \in Ids, p \in Props : ReadCurrent(h, i, p)
  \/ UpdateRow(h)
  \/ RefuseUpdate(h)
  \/ UpdateFails(h)
  \/ \E i \in Ids : DeleteFeature(h, i)
  \/ OnFeatureChange(h)

Next ==
  \/ \E h \in Handlers : HandlerStep(h)
  \/ ApplyFeatureChange
  \/ CrashRestart

Spec == Init /\ [][Next]_vars

-----------------------------------------------------------------------------
(* Properties. *)

\* No lost update: a PUT only overwrites the very row it has read, however
\* many run at once and whatever versions clients write in their documents
\* (UpdateFeature compares with the column what it computed from a property).
NoLostUpdate ==
  [][\A h \in Handlers :
       UpdateRow(h) => version[id[h]] = seen[h]]_vars

\* Of the changes made over HTTP, the outbox holds activities only of those
\* that were committed, and as long as no statement fails and the process
\* stays up, of all of them but those whose handlers are still at work
\* (CreateFeature, UpdateFeature, DeleteFeature).
LogMatchesChanges ==
  LET inHand == {Report(h) : h \in {k \in Handlers : Reporting(k)}} IN
    /\ logged \cup inHand \subseteq changes
    /\ faults = 0 => changes \subseteq logged \cup inHand

\* No change is reported twice: what a handler is about to put in the outbox
\* is not there yet, and no other handler has the same in hand, for the id of
\* a deleted feature is never given out again and no two updates of a feature
\* store the same version (OnFeatureChange and its callers).
ReportedOnce ==
  \A h \in Handlers :
    Reporting(h) =>
      /\ Report(h) \notin logged
      /\ \A k \in Handlers \ {h} : Reporting(k) => Report(k) # Report(h)

Store == INSTANCE FeatureStore

\* The features of a server are those of FeatureStore: a PUT, which reads in
\* one statement and writes in another while other requests and the inbox
\* change the table, is as good as a single step from the row it overwrites
\* to the next version (CreateFeature, UpdateFeature, DeleteFeature,
\* ApplyFeatureChange).
KeepsStore == Store!Spec
=============================================================================
