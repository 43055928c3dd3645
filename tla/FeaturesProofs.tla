--------------------------- MODULE FeaturesProofs ---------------------------
(***************************************************************************)
(* Proofs about Features, for any handlers, ids and versions and any       *)
(* number of failures: the types, that a PUT overwrites only what it has   *)
(* read, that the outbox matches the changes and reports none twice, and   *)
(* that all this implements FeatureStore.                                  *)
(***************************************************************************)
EXTENDS Features, TLAPS

-----------------------------------------------------------------------------
(* The inductive invariant.  NoLostUpdate is about one step, the UPDATE of  *)
(* a PUT; what makes it hold is that a reader's version is only ahead of    *)
(* the column while nobody has written in between.                          *)

\* Ids the sequence has not given out yet are not stored.
Fresh == \A i \in stored : i <= lastId

\* A handler at work works on a feature whose id has been given out, and one
\* that is idle or reports a deletion has no version in hand.
Busy ==
  \A h \in Handlers :
    /\ pc[h] # "idle" => id[h] \in Ids /\ id[h] <= lastId
    /\ pc[h] \in {"idle", "deleted"} => new[h] = 0

\* A PUT between its read and its UPDATE: its version is the next one as long
\* as the row is as it was read, and never exceeds that of a newer row.
Reads ==
  \A h \in Handlers :
    pc[h] = "read" /\ id[h] \in stored =>
      \/ /\ seen[h] = version[id[h]]
         /\ new[h] = NextVersion(prop[id[h]])
      \/ /\ seen[h] < version[id[h]]
         /\ new[h] <= version[id[h]]

FeaturesInv == TypeOK /\ Fresh /\ Busy /\ Reads

\* Versions are numbers, whatever a document says.
LEMMA NextVersionNat ==
  ASSUME NEW p \in Props
  PROVE  NextVersion(p) \in Nat
BY FeaturesAssumption DEF NextVersion, Props

\* A fresh server satisfies the invariant.
LEMMA FeaturesInit == Init => FeaturesInv
BY FeaturesAssumption
   DEF Init, FeaturesInv, TypeOK, Fresh, Busy, Reads, Ids, Props, Phase

-----------------------------------------------------------------------------
(* One lemma per group of actions.                                          *)

\* An INSERT takes a fresh id: readers of stored features see no difference.
LEMMA InsertKeeps ==
  ASSUME FeaturesInv, NEW p \in Props, InsertRow(p),
         UNCHANGED <<handlers, logged, changes, faults>>
  PROVE  FeaturesInv'
<1> USE FeaturesAssumption DEF FeaturesInv
<1>1. TypeOK'
  BY DEF InsertRow, TypeOK, Ids, handlers
<1>2. Fresh'
  BY DEF InsertRow, TypeOK, Fresh, Ids
<1>3. Busy'
  BY DEF InsertRow, TypeOK, Busy, Ids, handlers
<1>4. Reads'
  <2>1. ASSUME NEW h \in Handlers, pc[h] = "read"
        PROVE  /\ id[h] \in Ids /\ id[h] # lastId + 1
               /\ version'[id[h]] = version[id[h]] /\ prop'[id[h]] = prop[id[h]]
               /\ id[h] \in stored' => id[h] \in stored
    BY <2>1 DEF InsertRow, TypeOK, Busy, Ids
  <2> QED BY <2>1 DEF Reads, handlers, NextVersion
<1> QED BY <1>1, <1>2, <1>3, <1>4

\* A POST reports what it inserted.
LEMMA CreateKeeps ==
  ASSUME FeaturesInv, NEW h \in Handlers, NEW p \in Props, CreateFeature(h, p)
  PROVE  FeaturesInv'
<1> USE FeaturesAssumption DEF FeaturesInv
<1>1. TypeOK'
  BY DEF CreateFeature, InsertRow, TypeOK, Ids, Activity, Kinds, Phase
<1>2. Fresh'
  BY DEF CreateFeature, InsertRow, TypeOK, Fresh, Ids
<1>3. Busy'
  BY DEF CreateFeature, InsertRow, TypeOK, Busy, Ids
<1>4. Reads'
  BY DEF CreateFeature, InsertRow, TypeOK, Busy, Reads, Ids, NextVersion
<1> QED BY <1>1, <1>2, <1>3, <1>4

\* A PUT computes its version from the row it reads.
LEMMA ReadKeeps ==
  ASSUME FeaturesInv, NEW h \in Handlers, NEW i \in Ids, NEW p \in Props,
         ReadCurrent(h, i, p)
  PROVE  FeaturesInv'
<1> USE DEF FeaturesInv
<1>1. NextVersion(prop[i]) \in Nat
  BY NextVersionNat DEF TypeOK
<1>2. TypeOK'
  BY <1>1 DEF ReadCurrent, table, TypeOK, Phase
<1>3. Fresh'
  BY DEF ReadCurrent, table, Fresh
<1>4. Busy'
  BY DEF ReadCurrent, table, TypeOK, Fresh, Busy
<1>5. Reads'
  BY DEF ReadCurrent, table, TypeOK, Reads
<1> QED BY <1>2, <1>3, <1>4, <1>5

\* An UPDATE is behind no reader: whoever read the same row computed the same
\* version, and everybody else's was stale already.
LEMMA UpdateKeeps ==
  ASSUME FeaturesInv, NEW h \in Handlers, UpdateRow(h)
  PROVE  FeaturesInv'
<1> USE DEF FeaturesInv
<1>1. /\ id[h] \in Ids /\ id[h] \in stored /\ new[h] \in Nat
      /\ version[id[h]] < new[h]
      /\ new[h] = NextVersion(prop[id[h]])
  BY DEF UpdateRow, Updatable, TypeOK, Reads
<1>2. TypeOK'
  BY <1>1 DEF UpdateRow, TypeOK, Activity, Kinds, Phase
<1>3. Fresh'
  BY DEF UpdateRow, Fresh
<1>4. Busy'
  BY DEF UpdateRow, TypeOK, Busy
<1>5. Reads'
  <2> SUFFICES ASSUME NEW k \in Handlers, pc'[k] = "read", id'[k] \in stored'
               PROVE  \/ /\ seen'[k] = version'[id'[k]]
                         /\ new'[k] = NextVersion(prop'[id'[k]])
                      \/ /\ seen'[k] < version'[id'[k]]
                         /\ new'[k] <= version'[id'[k]]
    BY DEF Reads, NextVersion
  <2>1. /\ k # h /\ pc[k] = "read" /\ id[k] \in stored /\ id[k] \in Ids
        /\ id'[k] = id[k] /\ seen'[k] = seen[k] /\ new'[k] = new[k]
        /\ seen[k] \in Nat /\ new[k] \in Nat /\ version[id[k]] \in Nat
    BY DEF UpdateRow, TypeOK
  <2>2. CASE id[k] = id[h]
    <3>1. version'[id[k]] = new[h]
      BY <1>1, <2>2 DEF UpdateRow, TypeOK
    <3>2. seen[k] <= version[id[k]] /\ new[k] <= new[h]
      BY <1>1, <2>1, <2>2 DEF Reads
    <3> QED BY <1>1, <2>1, <2>2, <3>1, <3>2
  <2>3. CASE id[k] # id[h]
    <3>1. version'[id[k]] = version[id[k]] /\ prop'[id[k]] = prop[id[k]]
      BY <1>1, <2>1, <2>3 DEF UpdateRow, TypeOK
    <3> QED BY <2>1, <3>1 DEF Reads, NextVersion
  <2> QED BY <2>2, <2>3
<1> QED BY <1>2, <1>3, <1>4, <1>5

\* A DELETE takes a row away from under its readers.
LEMMA DeleteKeeps ==
  ASSUME FeaturesInv, NEW h \in Handlers, NEW i \in Ids, DeleteFeature(h, i)
  PROVE  FeaturesInv'
<1> USE FeaturesAssumption DEF FeaturesInv
<1>1. TypeOK'
  BY DEF DeleteFeature, TypeOK, Activity, Kinds, Phase
<1>2. Fresh'
  BY DEF DeleteFeature, Fresh
<1>3. Busy'
  BY DEF DeleteFeature, TypeOK, Fresh, Busy
<1>4. Reads'
  BY DEF DeleteFeature, TypeOK, Reads
<1> QED BY <1>1, <1>2, <1>3, <1>4

\* What Report returns is an activity.
LEMMA ReportType ==
  ASSUME FeaturesInv, NEW h \in Handlers, Reporting(h)
  PROVE  Report(h) \in Activity
BY DEF FeaturesInv, TypeOK, Busy, Reporting, Report, Activity, Kinds

\* A handler that answers leaves the table and the other handlers alone.
LEMMA AnswerKeeps ==
  ASSUME FeaturesInv, NEW h \in Handlers,
         \/ RefuseUpdate(h) \/ UpdateFails(h) \/ OnFeatureChange(h)
  PROVE  FeaturesInv'
<1> USE FeaturesAssumption DEF FeaturesInv
<1>1. Done(h) /\ UNCHANGED <<table, changes>>
  BY DEF RefuseUpdate, UpdateFails, OnFeatureChange
<1>2. faults' \in 0 .. MaxFaults
  BY DEF RefuseUpdate, UpdateFails, OnFeatureChange, Fault, TypeOK
<1>3. logged' \in SUBSET Activity
  BY ReportType DEF RefuseUpdate, UpdateFails, OnFeatureChange, TypeOK
<1>4. TypeOK'
  BY <1>1, <1>2, <1>3 DEF Done, table, TypeOK, Phase, Props
<1>5. Fresh'
  BY <1>1 DEF table, Fresh
<1>6. Busy'
  BY <1>1 DEF Done, table, TypeOK, Busy
<1>7. Reads'
  BY <1>1 DEF Done, table, TypeOK, Reads
<1> QED BY <1>4, <1>5, <1>6, <1>7

\* A restart leaves the table alone.
LEMMA CrashKeeps ==
  ASSUME FeaturesInv, CrashRestart
  PROVE  FeaturesInv'
BY FeaturesAssumption
   DEF FeaturesInv, CrashRestart, Fault, table, TypeOK, Fresh, Busy, Reads,
       Phase, Props

\* The invariant is inductive.
LEMMA FeaturesStep ==
  ASSUME FeaturesInv, [Next]_vars
  PROVE  FeaturesInv'
<1>1. CASE UNCHANGED vars
  BY <1>1 DEF vars, table, handlers, FeaturesInv, TypeOK, Fresh, Busy, Reads,
              NextVersion
<1>2. CASE \E h \in Handlers : HandlerStep(h)
  <2> PICK h \in Handlers : HandlerStep(h)
    BY <1>2
  <2> QED
    BY CreateKeeps, ReadKeeps, UpdateKeeps, DeleteKeeps, AnswerKeeps
       DEF HandlerStep
<1>3. CASE ApplyFeatureChange
  <2>1. 0 \in Props
    BY FeaturesAssumption DEF Props
  <2> QED BY <1>3, <2>1, InsertKeeps DEF ApplyFeatureChange
<1>4. CASE CrashRestart
  BY <1>4, CrashKeeps
<1> QED BY <1>1, <1>2, <1>3, <1>4 DEF Next

-----------------------------------------------------------------------------
(* The outbox and the changes.                                              *)

\* LogMatchesChanges, one activity at a time.
Matches ==
  /\ logged \subseteq changes
  /\ \A h \in Handlers : Reporting(h) => Report(h) \in changes
  /\ faults = 0 =>
       \A c \in changes :
         c \in logged \/ \E h \in Handlers : Reporting(h) /\ c = Report(h)

\* The two ways to say it agree.
LEMMA MatchesIsLogMatchesChanges == Matches <=> LogMatchesChanges
BY DEF Matches, LogMatchesChanges

\* A handler whose phase, feature and version stay has the same to report.
LEMMA SameReport ==
  ASSUME NEW h \in Handlers,
         pc'[h] = pc[h], id'[h] = id[h], new'[h] = new[h]
  PROVE  /\ Reporting(h)' <=> Reporting(h)
         /\ Report(h)' = Report(h)
BY DEF Reporting, Report

\* What a change leaves its handler to report is that change.
LEMMA ChangeMatches ==
  ASSUME FeaturesInv, Matches, NEW h \in Handlers, NEW c,
         ~Reporting(h), Reporting(h)', Report(h)' = c,
         changes' = changes \cup {c}, UNCHANGED <<logged, faults>>,
         \A k \in Handlers \ {h} :
           pc'[k] = pc[k] /\ id'[k] = id[k] /\ new'[k] = new[k]
  PROVE  Matches'
<1>1. \A k \in Handlers \ {h} : /\ Reporting(k)' <=> Reporting(k)
                                /\ Report(k)' = Report(k)
  BY SameReport
<1> QED BY <1>1 DEF Matches

\* What leaves the tables of changes and activities alone and takes nobody's
\* report away keeps Matches.
LEMMA QuietMatches ==
  ASSUME Matches, UNCHANGED <<logged, changes, faults>>,
         \A k \in Handlers :
           \/ pc'[k] = pc[k] /\ id'[k] = id[k] /\ new'[k] = new[k]
           \/ ~Reporting(k) /\ ~Reporting(k)'
  PROVE  Matches'
<1>1. \A k \in Handlers : /\ Reporting(k)' <=> Reporting(k)
                          /\ Reporting(k) => Report(k)' = Report(k)
  BY SameReport
<1> QED BY <1>1 DEF Matches

\* A handler that answers has logged its change, or a statement has failed.
LEMMA AnswerMatches ==
  ASSUME FeaturesInv, Matches, NEW h \in Handlers,
         \/ RefuseUpdate(h) \/ UpdateFails(h) \/ OnFeatureChange(h)
  PROVE  Matches'
<1> USE DEF FeaturesInv
<1>1. Done(h) /\ changes' = changes
  BY DEF RefuseUpdate, UpdateFails, OnFeatureChange
<1>2. ~Reporting(h)'
  BY <1>1 DEF Done, Reporting, TypeOK
<1>3. \A k \in Handlers \ {h} : /\ Reporting(k)' <=> Reporting(k)
                                /\ Report(k)' = Report(k)
  <2> SUFFICES ASSUME NEW k \in Handlers \ {h}
               PROVE  pc'[k] = pc[k] /\ id'[k] = id[k] /\ new'[k] = new[k]
    BY SameReport
  <2> QED BY <1>1 DEF Done, TypeOK
<1>4. CASE faults' # faults
  <2>1. logged' = logged /\ faults' # 0
    BY <1>4 DEF RefuseUpdate, UpdateFails, OnFeatureChange, Fault, TypeOK
  <2> QED BY <1>1, <1>2, <1>3, <2>1 DEF Matches
<1>5. CASE faults' = faults /\ RefuseUpdate(h)
  <2>1. logged' = logged /\ ~Reporting(h)
    BY <1>5 DEF RefuseUpdate, Reporting
  <2> QED BY <1>1, <1>2, <1>3, <1>5, <2>1 DEF Matches
<1>6. CASE faults' = faults /\ ~RefuseUpdate(h)
  <2>1. Reporting(h) /\ logged' = logged \cup {Report(h)}
    BY <1>6 DEF UpdateFails, OnFeatureChange, Fault, TypeOK
  <2> QED BY <1>1, <1>2, <1>3, <1>6, <2>1 DEF Matches
<1> QED BY <1>4, <1>5, <1>6

\* Every step keeps the outbox in line with the changes.
LEMMA MatchesStep ==
  ASSUME FeaturesInv, Matches, [Next]_vars
  PROVE  Matches'
<1> USE DEF FeaturesInv
<1>1. CASE UNCHANGED <<handlers, logged, changes, faults>>
  BY <1>1, QuietMatches DEF handlers
<1>2. ASSUME NEW h \in Handlers, HandlerStep(h) PROVE Matches'
  <2>1. ASSUME NEW p \in Props, CreateFeature(h, p) PROVE Matches'
    <3>1. pc'[h] = "created" /\ id'[h] = lastId + 1 /\ new'[h] = 1
      BY <2>1 DEF CreateFeature, TypeOK
    <3>2. /\ ~Reporting(h) /\ Reporting(h)'
          /\ Report(h)' = [kind |-> "Create", id |-> lastId + 1, version |-> 1]
      BY <2>1, <3>1 DEF CreateFeature, Reporting, Report
    <3> QED BY <2>1, <3>2, ChangeMatches DEF CreateFeature, TypeOK
  <2>2. ASSUME NEW i \in Ids, NEW p \in Props, ReadCurrent(h, i, p) PROVE Matches'
    BY <2>2, QuietMatches DEF ReadCurrent, Reporting, TypeOK
  <2>3. CASE UpdateRow(h)
    <3>1. pc'[h] = "updated" /\ id'[h] = id[h] /\ new'[h] = new[h]
      BY <2>3 DEF UpdateRow, TypeOK
    <3>2. /\ ~Reporting(h) /\ Reporting(h)'
          /\ Report(h)' = [kind |-> "Update", id |-> id[h], version |-> new[h]]
      BY <2>3, <3>1 DEF UpdateRow, Reporting, Report
    <3> QED BY <2>3, <3>2, ChangeMatches DEF UpdateRow, TypeOK
  <2>4. ASSUME NEW i \in Ids, DeleteFeature(h, i) PROVE Matches'
    <3>1. pc'[h] = "deleted" /\ id'[h] = i /\ new'[h] = 0
      BY <2>4 DEF DeleteFeature, TypeOK, Busy
    <3>2. /\ ~Reporting(h) /\ Reporting(h)'
          /\ Report(h)' = [kind |-> "Delete", id |-> i, version |-> 0]
      BY <2>4, <3>1 DEF DeleteFeature, Reporting, Report
    <3> QED BY <2>4, <3>2, ChangeMatches DEF DeleteFeature, TypeOK
  <2> QED BY <1>2, <2>1, <2>2, <2>3, <2>4, AnswerMatches DEF HandlerStep
<1>3. CASE CrashRestart
  <2>1. \A k \in Handlers : ~Reporting(k)'
    BY <1>3 DEF CrashRestart, Reporting
  <2>2. logged' = logged /\ changes' = changes /\ faults' # 0
    BY <1>3 DEF CrashRestart, Fault, TypeOK
  <2> QED BY <2>1, <2>2 DEF Matches
<1> QED
  BY <1>1, <1>2, <1>3 DEF Next, ApplyFeatureChange, vars, handlers

-----------------------------------------------------------------------------
(* No change is reported twice.  This is what keeps changes apart: ids that *)
(* are never given out again, and versions that grow.                       *)

\* Ids the sequence has not given out yet have no version.
Unused == \A i \in Ids : i > lastId => version[i] = 0

\* What a recorded change leaves of its feature for good.
Recorded ==
  \A c \in changes :
    /\ c.id <= lastId
    /\ c.kind = "Update" => c.version <= version[c.id]
    /\ c.kind = "Delete" => c.id \notin stored

StoreInv == FeaturesInv /\ Matches /\ Unused /\ Recorded /\ ReportedOnce

\* A change that was not recorded before is reported by its handler alone.
LEMMA NewChangeOnce ==
  ASSUME Matches, ReportedOnce, NEW h \in Handlers, NEW c, c \notin changes,
         Reporting(h)', Report(h)' = c, UNCHANGED logged,
         \A k \in Handlers \ {h} :
           pc'[k] = pc[k] /\ id'[k] = id[k] /\ new'[k] = new[k]
  PROVE  ReportedOnce'
<1>1. \A k \in Handlers \ {h} : /\ Reporting(k)' <=> Reporting(k)
                                /\ Report(k)' = Report(k)
  BY SameReport
<1>2. c \notin logged /\ \A k \in Handlers : Reporting(k) => Report(k) # c
  BY DEF Matches
<1> QED BY <1>1, <1>2 DEF ReportedOnce

\* Handlers that keep their reports, or have none, report nothing twice.
LEMMA QuietOnce ==
  ASSUME ReportedOnce, UNCHANGED logged,
         \A k \in Handlers :
           \/ pc'[k] = pc[k] /\ id'[k] = id[k] /\ new'[k] = new[k]
           \/ ~Reporting(k)'
  PROVE  ReportedOnce'
<1>1. \A k \in Handlers : Reporting(k)' => Reporting(k) /\ Report(k)' = Report(k)
  BY SameReport
<1> QED BY <1>1 DEF ReportedOnce

\* A handler that has answered reports nothing, and what it has reported was
\* its own.
LEMMA AnswerOnce ==
  ASSUME FeaturesInv, ReportedOnce, NEW h \in Handlers,
         \/ RefuseUpdate(h) \/ UpdateFails(h) \/ OnFeatureChange(h)
  PROVE  ReportedOnce'
<1>1. \A k \in Handlers \ {h} : pc'[k] = pc[k] /\ id'[k] = id[k] /\ new'[k] = new[k]
  BY DEF RefuseUpdate, UpdateFails, OnFeatureChange, Done, FeaturesInv, TypeOK
<1>2. ~Reporting(h)'
  BY DEF RefuseUpdate, UpdateFails, OnFeatureChange, Done, Reporting, FeaturesInv, TypeOK
<1>3. CASE logged' = logged
  BY <1>1, <1>2, <1>3, QuietOnce
<1>4. CASE logged' # logged
  <2>1. Reporting(h) /\ logged' = logged \cup {Report(h)}
    BY <1>4 DEF RefuseUpdate, UpdateFails, OnFeatureChange
  <2>2. \A k \in Handlers \ {h} : /\ Reporting(k)' <=> Reporting(k)
                                  /\ Report(k)' = Report(k)
    BY <1>1, SameReport
  <2> QED BY <1>2, <2>1, <2>2 DEF ReportedOnce
<1> QED BY <1>3, <1>4

\* A POST is the first change of its feature.
LEMMA CreateRecords ==
  ASSUME StoreInv, NEW h \in Handlers, NEW p \in Props, CreateFeature(h, p)
  PROVE  /\ [kind |-> "Create", id |-> lastId + 1, version |-> 1] \notin changes
         /\ Unused' /\ Recorded' /\ ReportedOnce'
<1> DEFINE c == [kind |-> "Create", id |-> lastId + 1, version |-> 1]
<1> USE DEF StoreInv, FeaturesInv
<1>1. lastId \in Nat /\ lastId + 1 \in Ids
  BY FeaturesAssumption DEF CreateFeature, InsertRow, TypeOK, Ids
<1>2. c \notin changes
  BY <1>1 DEF Recorded
<1>3. Unused'
  BY <1>1 DEF CreateFeature, InsertRow, TypeOK, Unused, Ids
<1>4. Recorded'
  <2>1. \A d \in changes : d.id \in Ids /\ d.id # lastId + 1
    BY <1>1 DEF Recorded, TypeOK, Activity, Ids
  <2>2. \A d \in changes : version'[d.id] = version[d.id]
    BY <1>1, <2>1 DEF CreateFeature, InsertRow, TypeOK
  <2>3. \A d \in changes : /\ d.id <= lastId'
                           /\ d.kind = "Delete" => d.id \notin stored'
    BY <1>1, <2>1 DEF CreateFeature, InsertRow, Recorded, Ids
  <2>4. changes' = changes \cup {c} /\ lastId' = lastId + 1
    BY DEF CreateFeature, InsertRow
  <2> QED BY <1>1, <2>2, <2>3, <2>4 DEF Recorded
<1>5. pc'[h] = "created" /\ id'[h] = lastId + 1 /\ new'[h] = 1
  BY DEF CreateFeature, TypeOK
<1>6. ReportedOnce'
  <2>1. Reporting(h)' /\ Report(h)' = c
    BY <1>5 DEF Reporting, Report
  <2> QED BY <1>2, <2>1, NewChangeOnce DEF CreateFeature, TypeOK
<1> QED BY <1>2, <1>3, <1>4, <1>6

\* A PUT stores a version none of its feature's updates had.
LEMMA UpdateRecords ==
  ASSUME StoreInv, NEW h \in Handlers, UpdateRow(h)
  PROVE  /\ [kind |-> "Update", id |-> id[h], version |-> new[h]] \notin changes
         /\ Unused' /\ Recorded' /\ ReportedOnce'
<1> DEFINE c == [kind |-> "Update", id |-> id[h], version |-> new[h]]
<1> USE DEF StoreInv, FeaturesInv
<1>1. /\ id[h] \in Ids /\ id[h] \in stored /\ id[h] <= lastId /\ lastId \in Nat
      /\ new[h] \in Nat /\ version[id[h]] \in Nat /\ version[id[h]] < new[h]
  BY FeaturesAssumption DEF UpdateRow, Updatable, TypeOK, Fresh, Ids
<1>2. c \notin changes
  BY <1>1 DEF Recorded
<1>3. /\ changes' = changes \cup {c} /\ stored' = stored /\ lastId' = lastId
      /\ version' = [version EXCEPT ![id[h]] = new[h]]
  BY DEF UpdateRow
<1>4. Unused'
  BY <1>1, <1>3 DEF Unused, TypeOK, Ids
<1>5. Recorded'
  <2>1. \A d \in changes : d.id \in Ids /\ d.version \in Nat
    BY DEF TypeOK, Activity
  <2>2. \A i \in Ids : version[i] \in Nat /\ version'[i] >= version[i]
    BY <1>1, <1>3 DEF TypeOK
  <2>3. version'[id[h]] = new[h]
    BY <1>1, <1>3 DEF TypeOK
  <2>4. \A d \in changes : version'[d.id] \in Nat
    BY <1>1, <1>3, <2>1 DEF TypeOK
  <2> QED BY <1>1, <1>3, <2>1, <2>2, <2>3, <2>4 DEF Recorded
<1>6. pc'[h] = "updated" /\ id'[h] = id[h] /\ new'[h] = new[h]
  BY DEF UpdateRow, TypeOK
<1>7. ReportedOnce'
  <2>1. Reporting(h)' /\ Report(h)' = c
    BY <1>6 DEF Reporting, Report
  <2> QED BY <1>2, <2>1, NewChangeOnce DEF UpdateRow, TypeOK
<1> QED BY <1>2, <1>4, <1>5, <1>7

\* A DELETE is the only one of its feature.
LEMMA DeleteRecords ==
  ASSUME StoreInv, NEW h \in Handlers, NEW i \in Ids, DeleteFeature(h, i)
  PROVE  /\ [kind |-> "Delete", id |-> i, version |-> 0] \notin changes
         /\ Unused' /\ Recorded' /\ ReportedOnce'
<1> DEFINE c == [kind |-> "Delete", id |-> i, version |-> 0]
<1> USE DEF StoreInv, FeaturesInv
<1>1. c \notin changes
  BY DEF DeleteFeature, Recorded
<1>2. Unused'
  BY DEF DeleteFeature, Unused
<1>3. Recorded'
  BY DEF DeleteFeature, Recorded, Fresh
<1>4. pc'[h] = "deleted" /\ id'[h] = i /\ new'[h] = 0
  BY DEF DeleteFeature, TypeOK, Busy
<1>5. ReportedOnce'
  <2>1. Reporting(h)' /\ Report(h)' = c
    BY <1>4 DEF Reporting, Report
  <2> QED BY <1>1, <2>1, NewChangeOnce DEF DeleteFeature, TypeOK
<1> QED BY <1>1, <1>2, <1>3, <1>5

\* The inbox stores a new feature, of which no change is recorded.
LEMMA InsertRecords ==
  ASSUME StoreInv, NEW p \in Props, InsertRow(p),
         UNCHANGED <<handlers, logged, changes, faults>>
  PROVE  Unused' /\ Recorded' /\ ReportedOnce'
<1> USE DEF StoreInv, FeaturesInv
<1>1. lastId \in Nat /\ lastId + 1 \in Ids
  BY FeaturesAssumption DEF InsertRow, TypeOK, Ids
<1>2. Unused'
  BY <1>1 DEF InsertRow, TypeOK, Unused, Ids
<1>3. Recorded'
  <2>1. \A d \in changes : d.id \in Ids /\ d.id # lastId + 1
    BY <1>1 DEF Recorded, TypeOK, Activity, Ids
  <2> QED BY <1>1, <2>1 DEF InsertRow, Recorded, TypeOK, Ids
<1>4. ReportedOnce'
  BY QuietOnce DEF handlers
<1> QED BY <1>2, <1>3, <1>4

\* Every step keeps the whole of it.
LEMMA StoreStep ==
  ASSUME StoreInv, [Next]_vars
  PROVE  StoreInv'
<1> USE DEF StoreInv
<1>1. FeaturesInv' /\ Matches'
  BY FeaturesStep, MatchesStep
<1>2. CASE UNCHANGED <<table, changes>>
  <2>1. Unused' /\ Recorded'
    BY <1>2 DEF table, Unused, Recorded
  <2>2. ReportedOnce'
    <3>1. CASE UNCHANGED vars
      BY <3>1, QuietOnce DEF vars, handlers
    <3>2. CASE CrashRestart
      BY <3>2, QuietOnce DEF CrashRestart, Reporting
    <3>3. ASSUME NEW h \in Handlers, NEW i \in Ids, NEW p \in Props,
                 ReadCurrent(h, i, p)
          PROVE  ReportedOnce'
      BY <3>3, QuietOnce DEF ReadCurrent, Reporting, FeaturesInv, TypeOK
    <3>4. ASSUME NEW h \in Handlers,
                 RefuseUpdate(h) \/ UpdateFails(h) \/ OnFeatureChange(h)
          PROVE  ReportedOnce'
      BY <3>4, AnswerOnce
    <3>5. ASSUME NEW h \in Handlers, NEW p \in Props, CreateFeature(h, p)
          PROVE  ReportedOnce'
      BY <3>5, CreateRecords
    <3>6. ASSUME NEW h \in Handlers, UpdateRow(h) PROVE ReportedOnce'
      BY <3>6, UpdateRecords
    <3>7. ASSUME NEW h \in Handlers, NEW i \in Ids, DeleteFeature(h, i)
          PROVE  ReportedOnce'
      BY <3>7, DeleteRecords
    <3>8. CASE ApplyFeatureChange
      BY <3>8, QuietOnce DEF ApplyFeatureChange, handlers
    <3> QED
      BY <3>1, <3>2, <3>3, <3>4, <3>5, <3>6, <3>7, <3>8 DEF Next, HandlerStep
  <2> QED BY <1>1, <2>1, <2>2
<1>3. ASSUME NEW h \in Handlers, HandlerStep(h), ~UNCHANGED <<table, changes>>
      PROVE  StoreInv'
  BY <1>1, <1>3, CreateRecords, UpdateRecords, DeleteRecords
     DEF HandlerStep, ReadCurrent, RefuseUpdate, UpdateFails, OnFeatureChange
<1>4. CASE ApplyFeatureChange
  <2>1. 0 \in Props
    BY FeaturesAssumption DEF Props
  <2> QED BY <1>1, <1>4, <2>1, InsertRecords DEF ApplyFeatureChange
<1> QED
  BY <1>2, <1>3, <1>4 DEF Next, CrashRestart, vars

-----------------------------------------------------------------------------
(* The theorems.                                                            *)

\* The invariant holds in every reachable state.
LEMMA FeaturesCorrect == Spec => []FeaturesInv
<1> QED BY FeaturesInit, FeaturesStep, PTL DEF Spec

\* Every variable keeps its type, however requests of features.go interleave
\* and whatever fails.
THEOREM FeaturesTyped == Spec => []TypeOK
<1>1. FeaturesInv => TypeOK
  BY DEF FeaturesInv
<1> QED BY FeaturesCorrect, <1>1, PTL

\* A PUT never overwrites a row that has changed since it read it, although
\* UpdateFeature compares the column with a number taken from the document.
THEOREM UpdatesNotLost == Spec => NoLostUpdate
<1>1. FeaturesInv /\ [Next]_vars
        => [\A h \in Handlers :
              UpdateRow(h) => version[id[h]] = seen[h]]_vars
  <2> SUFFICES ASSUME FeaturesInv, NEW h \in Handlers, UpdateRow(h)
               PROVE  version[id[h]] = seen[h]
    OBVIOUS
  <2> QED BY DEF FeaturesInv, UpdateRow, Updatable, TypeOK, Reads
<1> QED BY FeaturesCorrect, <1>1, PTL DEF Spec, NoLostUpdate

\* Of the changes made over HTTP the outbox reports those committed only, and
\* every one of them while nothing fails (CreateFeature, UpdateFeature,
\* DeleteFeature, and the OnFeatureChange each of them calls).
THEOREM ChangesLogged == Spec => []LogMatchesChanges
<1>1. Init => Matches
  BY DEF Init, Matches, Reporting
<1>2. FeaturesInv /\ Matches /\ [Next]_vars => Matches'
  BY MatchesStep
<1> QED
  BY FeaturesCorrect, <1>1, <1>2, MatchesIsLogMatchesChanges, PTL DEF Spec

\* A fresh server satisfies all of it.
LEMMA StoreInit == Init => StoreInv
<1>1. Init => Matches /\ Unused /\ Recorded /\ ReportedOnce
  BY DEF Init, Matches, Unused, Recorded, ReportedOnce, Reporting
<1> QED BY <1>1, FeaturesInit DEF StoreInv

LEMMA StoreCorrect == Spec => []StoreInv
<1> QED BY StoreInit, StoreStep, PTL DEF Spec

\* No change is reported twice, whatever requests run at once, are cut off or
\* delete features of each other: ids and versions tell changes apart
\* (OnFeatureChange and its callers).
THEOREM NothingReportedTwice == Spec => []ReportedOnce
<1>1. StoreInv => ReportedOnce
  BY DEF StoreInv
<1> QED BY StoreCorrect, <1>1, PTL

-----------------------------------------------------------------------------
(* The refinement.                                                          *)

\* What an INSERT is to FeatureStore: the id it takes was never given out.
LEMMA InsertIsInsert ==
  ASSUME StoreInv, NEW p \in Props, InsertRow(p)
  PROVE  lastId + 1 \in Ids /\ Store!Insert(lastId + 1, p)
<1>1. lastId \in Nat /\ lastId + 1 \in Ids
  BY FeaturesAssumption DEF StoreInv, FeaturesInv, InsertRow, TypeOK, Ids
<1>2. version[lastId + 1] = 0
  BY <1>1 DEF StoreInv, Unused
<1> QED BY <1>1, <1>2 DEF InsertRow, Store!Insert

\* A POST creates a feature.
LEMMA CreateIsCreate ==
  ASSUME StoreInv, NEW h \in Handlers, NEW p \in Props, CreateFeature(h, p)
  PROVE  Store!Next
<1>1. lastId + 1 \in Ids /\ Store!Insert(lastId + 1, p)
  BY InsertIsInsert DEF CreateFeature
<1>2. Store!Record("Create", lastId + 1, 1)
  BY CreateRecords DEF CreateFeature, Store!Record
<1> QED BY <1>1, <1>2 DEF Store!Create, Store!Next

\* A PUT replaces what it has read: nobody has written in between.
LEMMA UpdateIsReplace ==
  ASSUME StoreInv, NEW h \in Handlers, UpdateRow(h)
  PROVE  Store!Next
<1>1. /\ id[h] \in Ids /\ id[h] \in stored /\ body[h] \in Props
      /\ new[h] \in Nat /\ version[id[h]] \in Nat /\ version[id[h]] < new[h]
  BY DEF StoreInv, FeaturesInv, UpdateRow, Updatable, TypeOK
<1>2. new[h] = NextVersion(prop[id[h]])
  BY <1>1 DEF StoreInv, FeaturesInv, UpdateRow, Reads
<1>3. Store!After(prop[id[h]]) = new[h]
  BY <1>2 DEF Store!After, NextVersion
<1>4. Store!Record("Update", id[h], new[h])
  BY UpdateRecords DEF UpdateRow, Store!Record
<1>5. Store!Replace(id[h], body[h])
  BY <1>1, <1>3, <1>4 DEF UpdateRow, Store!Replace
<1> QED BY <1>1, <1>5 DEF Store!Next

\* A DELETE deletes.
LEMMA DeleteIsDelete ==
  ASSUME StoreInv, NEW h \in Handlers, NEW i \in Ids, DeleteFeature(h, i)
  PROVE  Store!Next
<1>1. Store!Record("Delete", i, 0)
  BY DeleteRecords DEF DeleteFeature, Store!Record
<1> QED BY <1>1 DEF DeleteFeature, Store!Delete, Store!Next

\* A handler that answers reports its change, or nothing.
LEMMA AnswerIsReport ==
  ASSUME StoreInv, NEW h \in Handlers,
         \/ RefuseUpdate(h) \/ UpdateFails(h) \/ OnFeatureChange(h)
  PROVE  [Store!Next]_(Store!vars)
<1>1. UNCHANGED <<table, changes>>
  BY DEF RefuseUpdate, UpdateFails, OnFeatureChange
<1>2. CASE logged' = logged
  BY <1>1, <1>2 DEF table, Store!vars
<1>3. CASE logged' # logged
  <2>1. Reporting(h) /\ logged' = logged \cup {Report(h)}
    BY <1>3 DEF RefuseUpdate, UpdateFails, OnFeatureChange
  <2>2. Report(h) \in changes
    BY <2>1 DEF StoreInv, Matches
  <2>3. Store!Report(Report(h))
    BY <1>1, <2>1, <2>2 DEF table, Store!Report
  <2> QED BY <2>2, <2>3 DEF Store!Next
<1> QED BY <1>2, <1>3

\* Every step of a server is a step of FeatureStore or a stutter.
LEMMA StoreSimulates ==
  ASSUME StoreInv, [Next]_vars
  PROVE  [Store!Next]_(Store!vars)
<1>1. CASE UNCHANGED vars \/ CrashRestart
  BY <1>1 DEF CrashRestart, vars, table, Store!vars
<1>2. ASSUME NEW h \in Handlers, HandlerStep(h) PROVE [Store!Next]_(Store!vars)
  <2>1. ASSUME NEW i \in Ids, NEW p \in Props, ReadCurrent(h, i, p)
        PROVE  UNCHANGED Store!vars
    BY <2>1 DEF ReadCurrent, table, Store!vars
  <2> QED
    BY <1>2, <2>1, CreateIsCreate, UpdateIsReplace, DeleteIsDelete, AnswerIsReport
       DEF HandlerStep
<1>3. CASE ApplyFeatureChange
  <2>1. 0 \in Props
    BY FeaturesAssumption DEF Props
  <2>2. lastId + 1 \in Ids /\ Store!Copy(lastId + 1, 0)
    BY <1>3, <2>1, InsertIsInsert DEF ApplyFeatureChange, Store!Copy
  <2> QED BY <2>1, <2>2 DEF Store!Next
<1> QED BY <1>1, <1>2, <1>3 DEF Next

\* The features API implements FeatureStore: each PUT, POST and DELETE is as
\* good as one atomic step, for any number of requests at once, any versions
\* in documents, failed statements and restarts (features.go,
\* feature_repo.go, and ApplyFeatureChange of the inbox).
THEOREM StoreKept == Spec => KeepsStore
<1>1. Init => Store!Init
  BY DEF Init, Store!Init
<1> QED
  BY <1>1, StoreCorrect, StoreSimulates, PTL DEF Spec, KeepsStore, Store!Spec
=============================================================================
