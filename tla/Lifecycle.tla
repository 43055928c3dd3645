------------------------------ MODULE Lifecycle ------------------------------
(***************************************************************************)
(* One process from its start to its end: main of cmd/server, or that of   *)
(* cmd/grpc, which has no HTTP server and does not handle signals; the     *)
(* goroutines of the two servers; the loops the engine starts; and the     *)
(* requests under way (cmd/server/main.go, cmd/grpc/main.go,               *)
(* internal/sync/engine.go, internal/storage/postgres/db.go).              *)
(*                                                                         *)
(* External: http.Server.Shutdown waits for handlers until its context     *)
(* ends, GracefulStop for all calls; grpc.Server.Serve returns once        *)
(* GracefulStop is done; log.Fatalf ends the process where it is;          *)
(* pgxpool.Pool.Close waits for connections in use; close of a closed      *)
(* channel panics; a panic runs the deferred calls of its own goroutine    *)
(* and ends the process, wherever the others are.                          *)
(***************************************************************************)
EXTENDS Naturals, FiniteSets

CONSTANTS
  Requests,  \* HTTP requests and calls served at a time
  Loops,     \* goroutines the engine starts: workers, health loop
  Workers    \* those that are workers of the outbox

ASSUME LifecycleAssumption == Workers \subseteq Loops

VARIABLES
  program,   \* which main
  pc,        \* where main is
  pool,      \* the connection pool: "none", "open" or "closing"
  running,   \* SyncEngine.running
  stopped,   \* is stopCh closed, and the engine's context cancelled?
  http,      \* the HTTP server: "off", "starting", "up" or "closed"
  grpc,      \* the gRPC server: "off", "starting", "up", "stopping", "stopped"
  kind, step,\* what each request is, and where its handler is
  loop,      \* where each loop is
  signalled, \* has a SIGINT or SIGTERM been sent?
  quit,      \* is it in the channel main waits on?
  expired,   \* did the 30 seconds of Shutdown's context run out?
  refused,   \* did a port refuse to be listened on?
  exit       \* how the process ended, "none" while it runs

engine   == <<running, stopped, loop>>
servers  == <<http, grpc>>
requests == <<kind, step>>
outside  == <<signalled, quit, expired, refused>>
vars     == <<program, pc, pool, engine, servers, requests, outside, exit>>

TypeOK ==
  /\ program \in {"server", "grpc"}
  /\ pc \in {"start", "storage", "engine", "launched", "waiting", "httpShutdown",
             "grpcStop", "engineStop", "complete", "panicking"}
  /\ pool \in {"none", "open", "closing"}
  /\ running \in BOOLEAN /\ stopped \in BOOLEAN
  /\ http \in {"off", "starting", "up", "closed"}
  /\ grpc \in {"off", "starting", "up", "stopping", "stopped"}
  /\ kind \in [Requests -> {"none", "http", "rpc"}]
  /\ step \in [Requests -> {"idle", "running", "querying", "answering"}]
  /\ loop \in [Loops -> {"off", "idle", "busy", "ended"}]
  /\ signalled \in BOOLEAN /\ quit \in BOOLEAN
  /\ expired \in BOOLEAN /\ refused \in BOOLEAN
  /\ exit \in {"none", "fatal", "panic", "workerPanic", "killed"}

Init ==
  /\ program \in {"server", "grpc"}
  /\ pc = "start" /\ pool = "none"
  /\ running = FALSE /\ stopped = FALSE
  /\ http = "off" /\ grpc = "off"
  /\ kind = [r \in Requests |-> "none"]
  /\ step = [r \in Requests |-> "idle"]
  /\ loop = [l \in Loops |-> "off"]
  /\ signalled = FALSE /\ quit = FALSE
  /\ expired = FALSE /\ refused = FALSE
  /\ exit = "none"

-----------------------------------------------------------------------------
\* The process runs, and main is at p.
Runs  == exit = "none"
At(p) == Runs /\ pc = p

(* The start. *)

\* NewPostgresStorage connects and makes the tables.
OpenStorage ==
  /\ At("start")
  /\ pc' = "storage" /\ pool' = "open"
  /\ UNCHANGED <<program, engine, servers, requests, outside, exit>>

\* SyncEngine.Start loads the peers and starts the loops.
StartEngine ==
  /\ At("storage")
  /\ pc' = "engine"
  /\ running' = TRUE
  /\ loop' = [l \in Loops |-> "idle"]
  /\ UNCHANGED <<program, pool, stopped, servers, requests, outside, exit>>

\* The database or the key pair is not to be had, or the peers cannot be
\* loaded, and Start takes running back.
StartFails ==
  /\ At("start") \/ At("storage")
  /\ exit' = "fatal"
  /\ UNCHANGED <<program, pc, pool, engine, servers, requests, outside>>

LaunchEarly ==
  /\ At("storage") /\ program = "server"
  /\ pc' = "launched" /\ http' = "starting" /\ grpc' = "starting"
  /\ UNCHANGED <<program, pool, engine, requests, outside, exit>>

\* cmd/server: a goroutine for each server.
Launch ==
  /\ At("engine") /\ program = "server"
  /\ pc' = "launched" /\ http' = "starting" /\ grpc' = "starting"
  /\ UNCHANGED <<program, pool, engine, requests, outside, exit>>

\* cmd/grpc: main itself serves, for ever.
ServeInMain ==
  /\ At("engine") /\ program = "grpc"
  /\ pc' = "launched" /\ grpc' = "starting"
  /\ UNCHANGED <<program, pool, engine, http, requests, outside, exit>>

\* signal.Notify.
Notify ==
  /\ At("launched") /\ program = "server"
  /\ pc' = "waiting"
  /\ UNCHANGED <<program, pool, engine, servers, requests, outside, exit>>

\* A server listens, unless it was shut down before.
ListenHttp ==
  /\ Runs /\ http = "starting"
  /\ http' = "up"
  /\ UNCHANGED <<program, pc, pool, engine, grpc, requests, outside, exit>>
ListenGrpc ==
  /\ Runs /\ grpc = "starting"
  /\ grpc' = "up"
  /\ UNCHANGED <<program, pc, pool, engine, http, requests, outside, exit>>

\* A port is taken: log.Fatalf.
ListenFails ==
  /\ Runs
  /\ http = "starting" \/ grpc = "starting"
  /\ refused' = TRUE /\ exit' = "fatal"
  /\ UNCHANGED <<program, pc, pool, engine, servers, requests, signalled, quit, expired>>

-----------------------------------------------------------------------------
(* Requests and loops. *)

Holding == {r \in Requests : step[r] = "querying"}

Active(k) == {r \in Requests : kind[r] = k /\ step[r] # "idle"}

\* A server takes a request.
Serve(r, k) ==
  /\ Runs /\ step[r] = "idle"
  /\ IF k = "http" THEN http = "up" ELSE grpc = "up"
  /\ kind' = [kind EXCEPT ![r] = k]
  /\ step' = [step EXCEPT ![r] = "running"]
  /\ UNCHANGED <<program, pc, pool, engine, servers, outside, exit>>

QueryBreaks(r) ==
  /\ Runs /\ step[r] = "running"
  /\ step' = [step EXCEPT ![r] = IF pool = "open" THEN "querying" ELSE "failed"]
  /\ UNCHANGED <<program, pc, pool, engine, servers, kind, outside, exit>>

\* Its handler takes a connection, unless the pool is closed.
Query(r) ==
  /\ Runs /\ step[r] = "running"
  /\ step' = [step EXCEPT ![r] = IF pool = "open" THEN "querying" ELSE "answering"]
  /\ UNCHANGED <<program, pc, pool, engine, servers, kind, outside, exit>>

QueryEnds(r) ==
  /\ Runs /\ step[r] = "querying"
  /\ step' = [step EXCEPT ![r] = "answering"]
  /\ UNCHANGED <<program, pc, pool, engine, servers, kind, outside, exit>>

\* ReadinessCheck is such a request: it pings, reads running, and answers.
Answer(r) ==
  /\ Runs /\ step[r] = "answering"
  /\ kind' = [kind EXCEPT ![r] = "none"]
  /\ step' = [step EXCEPT ![r] = "idle"]
  /\ UNCHANGED <<program, pc, pool, engine, servers, outside, exit>>

\* A tick.  Where stopCh is closed too, select takes either.
Tick(l) ==
  /\ Runs /\ loop[l] = "idle"
  /\ loop' = [loop EXCEPT ![l] = "busy"]
  /\ UNCHANGED <<program, pc, pool, running, stopped, servers, requests, outside, exit>>

RoundEnds(l) ==
  /\ Runs /\ loop[l] = "busy"
  /\ loop' = [loop EXCEPT ![l] = "idle"]
  /\ UNCHANGED <<program, pc, pool, running, stopped, servers, requests, outside, exit>>

\* A delivery of the round has failed, and so does reading its retry count,
\* which it does at the latest when the pool has been closed: the worker
\* dereferences nil.  Nothing recovers, and main's deferred calls are not run.
RoundPanics(l) ==
  /\ Runs /\ loop[l] = "busy"
  /\ exit' = "workerPanic"
  /\ UNCHANGED <<program, pc, pool, engine, servers, requests, outside>>

LoopEnds(l) ==
  /\ Runs /\ loop[l] = "idle" /\ stopped
  /\ loop' = [loop EXCEPT ![l] = "ended"]
  /\ UNCHANGED <<program, pc, pool, running, stopped, servers, requests, outside, exit>>

-----------------------------------------------------------------------------
(* The end. *)

\* Until Notify, and in cmd/grpc, a signal kills the process.  Later ones
\* than the first are not looked at.
Signal ==
  /\ Runs /\ ~signalled /\ signalled' = TRUE
  /\ IF program = "server" /\ pc \notin {"start", "storage", "engine", "launched"}
     THEN quit' = TRUE /\ UNCHANGED exit
     ELSE exit' = "killed" /\ UNCHANGED quit
  /\ UNCHANGED <<program, pc, pool, engine, servers, requests, expired, refused>>

\* Shutdown takes no more HTTP requests; the goroutine of the server ends.
BeginShutdown ==
  /\ At("waiting") /\ quit
  /\ pc' = "httpShutdown" /\ http' = "closed"
  /\ UNCHANGED <<program, pool, engine, grpc, requests, outside, exit>>

TimeoutOfShutdown ==
  /\ At("httpShutdown") /\ Active("http") # {} /\ ~expired
  /\ expired' = TRUE
  /\ UNCHANGED <<program, pc, pool, engine, servers, requests, signalled, quit, refused, exit>>

\* GracefulStop takes no more calls; a server that has not listened yet never
\* will.
CloseGrpc == grpc' = IF grpc = "starting" THEN "stopped" ELSE "stopping"

SkipsWait ==
  /\ At("httpShutdown")
  /\ pc' = "grpcStop" /\ CloseGrpc
  /\ UNCHANGED <<program, pool, engine, http, requests, outside, exit>>

WaitsForAll ==
  /\ At("httpShutdown") /\ Active("http") = {}
  /\ pc' = "grpcStop" /\ CloseGrpc
  /\ UNCHANGED <<program, pool, engine, http, requests, outside, exit>>

\* Shutdown returns, and GracefulStop begins.
HttpStopped ==
  /\ At("httpShutdown") /\ (Active("http") = {} \/ expired)
  /\ pc' = "grpcStop" /\ CloseGrpc
  /\ UNCHANGED <<program, pool, engine, http, requests, outside, exit>>

\* GracefulStop has seen the last call end.
GrpcStopped ==
  /\ At("grpcStop") /\ Active("rpc") = {}
  /\ pc' = "engineStop" /\ grpc' = "stopped"
  /\ UNCHANGED <<program, pool, engine, http, requests, outside, exit>>

\* Serve returns nil, or an error where it is called too late: log.Fatalf
\* either way, while main goes on.
ServeReturns ==
  /\ Runs /\ grpc = "stopped"
  /\ exit' = "fatal"
  /\ UNCHANGED <<program, pc, pool, engine, servers, requests, outside>>

\* SyncEngine.Stop, called by main.
StopEngine ==
  /\ At("engineStop")
  /\ pc' = "complete"
  /\ running' = FALSE /\ stopped' = TRUE
  /\ UNCHANGED <<program, pool, loop, servers, requests, outside, exit>>

\* The deferred call of Stop closes stopCh again and panics; the deferred
\* call of Close runs all the same, and takes the pool's connections away.
DeferredStop ==
  /\ At("complete")
  /\ pc' = "panicking" /\ pool' = "closing"
  /\ UNCHANGED <<program, engine, servers, requests, outside, exit>>

\* The last connection in use is back: Close returns and the panic ends the
\* process.  A loop in a round may hold a connection or wait for a peer.
StorageClosed ==
  /\ At("panicking") /\ Holding = {}
  /\ exit' = "panic"
  /\ UNCHANGED <<program, pc, pool, engine, servers, requests, outside>>

-----------------------------------------------------------------------------
Start    == OpenStorage \/ StartEngine \/ StartFails \/ Launch \/ ServeInMain \/ Notify
Listen   == ListenHttp \/ ListenGrpc \/ ListenFails
Shutdown == BeginShutdown \/ HttpStopped \/ GrpcStopped \/ StopEngine
              \/ DeferredStop \/ StorageClosed
Handle(r) == Query(r) \/ QueryEnds(r) \/ Answer(r)

Next ==
  \/ Start \/ Listen \/ Shutdown
  \/ Signal \/ TimeoutOfShutdown \/ ServeReturns
  \/ \E r \in Requests : Serve(r, "http") \/ Serve(r, "rpc") \/ Handle(r)
  \/ \E l \in Loops : Tick(l) \/ RoundEnds(l) \/ LoopEnds(l)
  \/ \E l \in Workers : RoundPanics(l)

\* main runs on, the 30 seconds run out, and calls end; HTTP handlers need not.
Fairness ==
  /\ WF_vars(Shutdown \/ TimeoutOfShutdown \/ ServeReturns)
  /\ \A r \in Requests : WF_vars(kind[r] = "rpc" /\ Handle(r))

Spec     == Init /\ [][Next]_vars
FairSpec == Spec /\ Fairness

-----------------------------------------------------------------------------
(* Properties. *)

\* The ends of a process that take no account of its requests: it is killed, a
\* port cannot be listened on, or a worker panics, before or in a shutdown.
Crashed == exit \in {"killed", "workerPanic"} \/ (exit = "fatal" /\ refused)

\* Nothing else cuts requests off.  Whichever of the log.Fatalf when Serve
\* returns and the panic of the second Stop ends a shutdown, no call is under
\* way then, and an HTTP request only if it took longer than the 30 seconds
\* (cmd/server/main.go).
OnlyCrashesCut ==
  exit # "none" /\ ~Crashed =>
    /\ Active("rpc") = {}
    /\ ~expired => Active("http") = {}

\* Requests are served from beginning to end over an open pool by an engine
\* that has started and has not been stopped, again but for HTTP requests that
\* outlast the 30 seconds; so /ready says that the engine runs as long as it
\* is asked in time, also during a shutdown (ReadinessCheck).
ServedWhole ==
  Active("rpc") # {} \/ (Active("http") # {} /\ ~expired) =>
    /\ pool = "open" /\ running /\ ~stopped
    /\ \A l \in Loops : loop[l] \in {"idle", "busy"}

\* A process that is told to stop comes to an end, whatever HTTP handlers do,
\* provided calls return (GracefulStop has no timeout).
Ends == signalled ~> exit # "none"
=============================================================================
