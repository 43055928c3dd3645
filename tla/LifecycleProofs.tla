--------------------------- MODULE LifecycleProofs ---------------------------
(***************************************************************************)
(* Proofs about Lifecycle, for any numbers of requests and loops: the      *)
(* types, that requests are cut off by crashes only, and that they are     *)
(* served whole.                                                           *)
(***************************************************************************)
EXTENDS Lifecycle, TLAPS

Early     == {"start", "storage", "engine"}
Serving   == {"launched", "waiting"}
Stopping  == {"grpcStop", "engineStop", "complete", "panicking"}

\* What main has done so far, by the place it is at.
Phases ==
  /\ pool = "open" <=> pc \notin {"start", "panicking"}
  /\ running <=> pc \in {"engine", "grpcStop", "engineStop", "httpShutdown"} \cup Serving
  /\ stopped <=> pc \in {"complete", "panicking"}
  /\ running => \A l \in Loops : loop[l] \in {"idle", "busy"}
  /\ http # "off" \/ grpc # "off" => pc \notin Early
  /\ pc \in {"httpShutdown"} \cup Stopping => http = "closed"
  /\ http = "closed" => pc \notin Serving
  /\ pc \in Stopping <=> grpc \in {"stopping", "stopped"}
  /\ pc \in Stopping \ {"grpcStop"} => grpc = "stopped"

\* Who is served, and whom main waited for.
Waited ==
  /\ \A r \in Active("http") : http \in {"up", "closed"}
  /\ \A r \in Active("rpc") : grpc \in {"up", "stopping"}
  /\ pc \in Stopping => Active("http") = {} \/ expired

\* Where a process ends that was not killed.
Ended ==
  /\ exit = "fatal" => pc \in Early \/ grpc = "stopped" \/ refused
  /\ exit = "panic" => pc = "panicking"

\* The inductive invariant.
LifeInv == TypeOK /\ Phases /\ Waited /\ Ended

USE DEF engine, servers, requests, outside, Runs, At

-----------------------------------------------------------------------------
(* The steps, one group at a time. *)

\* A process starts with nothing done.
LEMMA LifeInit == Init => LifeInv
BY DEF Init, LifeInv, TypeOK, Phases, Waited, Ended, Active, Early, Serving, Stopping

\* The start keeps the invariant, and so does listening.
LEMMA LifeStart ==
  ASSUME LifeInv, Start \/ Listen
  PROVE  LifeInv'
<1> USE DEF LifeInv, TypeOK, Phases, Waited, Ended, Active, Early, Serving, Stopping
<1>1. CASE OpenStorage   BY <1>1 DEF OpenStorage
<1>2. CASE StartEngine   BY <1>2 DEF StartEngine
<1>3. CASE StartFails    BY <1>3 DEF StartFails
<1>4. CASE Launch        BY <1>4 DEF Launch
<1>5. CASE ServeInMain   BY <1>5 DEF ServeInMain
<1>6. CASE Notify        BY <1>6 DEF Notify
<1>7. CASE ListenHttp    BY <1>7 DEF ListenHttp
<1>8. CASE ListenGrpc    BY <1>8 DEF ListenGrpc
<1>9. CASE ListenFails   BY <1>9 DEF ListenFails
<1> QED BY <1>1, <1>2, <1>3, <1>4, <1>5, <1>6, <1>7, <1>8, <1>9 DEF Start, Listen

\* So do requests: they begin at a server that is up.
LEMMA LifeRequest ==
  ASSUME LifeInv, NEW r \in Requests, Serve(r, "http") \/ Serve(r, "rpc") \/ Handle(r)
  PROVE  LifeInv'
<1> USE DEF LifeInv, TypeOK, Phases, Waited, Ended, Active, Early, Serving, Stopping
<1>1. CASE Serve(r, "http")   BY <1>1 DEF Serve
<1>2. CASE Serve(r, "rpc")    BY <1>2 DEF Serve
<1>3. CASE Query(r)           BY <1>3 DEF Query
<1>4. CASE QueryEnds(r)       BY <1>4 DEF QueryEnds
<1>5. CASE Answer(r)          BY <1>5 DEF Answer
<1> QED BY <1>1, <1>2, <1>3, <1>4, <1>5 DEF Handle

\* So do the loops, which end only once the engine has been stopped or in a
\* worker's panic.
LEMMA LifeLoop ==
  ASSUME LifeInv, NEW l \in Loops,
         Tick(l) \/ RoundEnds(l) \/ RoundPanics(l) \/ LoopEnds(l)
  PROVE  LifeInv'
<1> USE DEF LifeInv, TypeOK, Phases, Waited, Ended, Active, Early, Serving, Stopping
<1>1. CASE Tick(l)        BY <1>1 DEF Tick
<1>2. CASE RoundEnds(l)   BY <1>2 DEF RoundEnds
<1>3. CASE RoundPanics(l) BY <1>3 DEF RoundPanics
<1>4. CASE LoopEnds(l)    BY <1>4 DEF LoopEnds
<1> QED BY <1>1, <1>2, <1>3, <1>4

\* So does the end, in the order of main.
LEMMA LifeEnd ==
  ASSUME LifeInv, Shutdown \/ Signal \/ TimeoutOfShutdown \/ ServeReturns
  PROVE  LifeInv'
<1> USE DEF LifeInv, TypeOK, Phases, Waited, Ended, Active, Early, Serving, Stopping
<1>1. CASE Signal
  <2>1. /\ exit' \in {exit, "killed"} /\ signalled' \in BOOLEAN /\ quit' \in BOOLEAN
        /\ UNCHANGED <<program, pc, pool, engine, servers, requests, expired, refused>>
    BY <1>1 DEF Signal
  <2>2. TypeOK'
    BY <2>1
  <2>3. Phases' /\ Waited' /\ Ended'
    BY <2>1
  <2> QED BY <2>2, <2>3
<1>2. CASE BeginShutdown       BY <1>2 DEF BeginShutdown
<1>3. CASE TimeoutOfShutdown   BY <1>3 DEF TimeoutOfShutdown
<1>4. CASE HttpStopped         BY <1>4 DEF HttpStopped, CloseGrpc
<1>5. CASE GrpcStopped         BY <1>5 DEF GrpcStopped
<1>6. CASE ServeReturns        BY <1>6 DEF ServeReturns
<1>7. CASE StopEngine          BY <1>7 DEF StopEngine
<1>8. CASE DeferredStop        BY <1>8 DEF DeferredStop
<1>9. CASE StorageClosed       BY <1>9 DEF StorageClosed
<1> QED BY <1>1, <1>2, <1>3, <1>4, <1>5, <1>6, <1>7, <1>8, <1>9 DEF Shutdown

\* Every step keeps the invariant.
LEMMA LifeStep ==
  ASSUME LifeInv, [Next]_vars
  PROVE  LifeInv'
<1>1. CASE Next
  BY <1>1, LifecycleAssumption, LifeStart, LifeRequest, LifeLoop, LifeEnd DEF Next
<1>2. CASE UNCHANGED vars
  BY <1>2 DEF vars, LifeInv, TypeOK, Phases, Waited, Ended, Active
<1> QED BY <1>1, <1>2

-----------------------------------------------------------------------------
(* The theorems. *)

\* Every variable keeps its type (Lifecycle).
THEOREM LifecycleTyped == Spec => []TypeOK
<1>1. LifeInv => TypeOK
  BY DEF LifeInv
<1> QED BY <1>1, LifeInit, LifeStep, PTL DEF Spec

\* Only a kill, a port refused or a worker's panic cuts requests off.  When the
\* process ends otherwise, whichever of main and the goroutine of the gRPC
\* server gets there first, no call is under way, and an HTTP request only
\* after 30 seconds (cmd/server/main.go, scheduleRetry).
THEOREM CutByCrashesOnly == Spec => []OnlyCrashesCut
<1>1. LifeInv => OnlyCrashesCut
  <2> SUFFICES ASSUME LifeInv, exit \in {"fatal", "panic"}, exit = "panic" \/ ~refused
               PROVE  /\ Active("rpc") = {}
                      /\ ~expired => Active("http") = {}
    BY DEF LifeInv, TypeOK, OnlyCrashesCut, Crashed
  <2> USE DEF LifeInv, Phases, Waited, Ended, Early, Stopping
  <2>1. grpc \in {"off", "stopped"} /\ (http = "off" \/ pc \in Stopping)
    OBVIOUS
  <2> QED BY <2>1
<1> QED BY <1>1, LifeInit, LifeStep, PTL DEF Spec

\* Requests find the pool open and the engine running from their beginning to
\* their end, also during a shutdown (cmd/server/main.go, ReadinessCheck).
THEOREM RequestsServedWhole == Spec => []ServedWhole
<1>1. LifeInv => ServedWhole
  <2> SUFFICES ASSUME LifeInv, Active("rpc") # {} \/ (Active("http") # {} /\ ~expired)
               PROVE  /\ pool = "open" /\ running /\ ~stopped
                      /\ \A l \in Loops : loop[l] \in {"idle", "busy"}
    BY DEF ServedWhole
  <2> USE DEF LifeInv, TypeOK, Phases, Waited, Early, Serving, Stopping
  <2>1. pc \in {"httpShutdown", "grpcStop"} \cup Serving
    OBVIOUS
  <2> QED BY <2>1
<1> QED BY <1>1, LifeInit, LifeStep, PTL DEF Spec
=============================================================================
