------------------------------- MODULE FunrunPod -------------------------------
(***************************************************************************)
(* The life of one funrun pod: the instance is loaded until that succeeds, *)
(* only then gRPC listens, the probes report, and a signal drains the pod. *)
(*                                                                         *)
(* Abstracted: a call is a number, what it does is FunrunCall's; the       *)
(* kubelet sends the signal when the liveness probe fails.                 *)
(***************************************************************************)
EXTENDS Naturals

CONSTANTS MaxCalls \* bound on the calls in flight

ASSUME FunrunPodAssumption == MaxCalls \in Nat

VARIABLES
  warm,      \* warm(): "loading", "settled" (load_error written), "waiting", "done"
  loaded,    \* how the load that has settled went
  loadError, \* load_error is set
  state,     \* the OnceCell holds the instance
  tailer,    \* its follower tailer
  pool,      \* pool_healthy
  shutdown,  \* the watcher: "none", "draining" (shutting_down is set), "sent"
  grpc,      \* "warming", "listening", "closing", "ended"
  health,    \* the health server is up
  calls      \* calls in flight

podVars == <<warm, loaded, loadError, state, tailer, pool, shutdown, grpc, health, calls>>

PodTypeOK ==
  /\ warm \in {"loading", "settled", "waiting", "done"}
  /\ loaded \in BOOLEAN /\ loadError \in BOOLEAN /\ state \in BOOLEAN /\ pool \in BOOLEAN
  /\ health \in BOOLEAN
  /\ tailer \in {"none", "starting", "ready", "exited"} /\ (state <=> tailer # "none")
  /\ shutdown \in {"none", "draining", "sent"}
  /\ grpc \in {"warming", "listening", "closing", "ended"}
  /\ calls \in 0..MaxCalls /\ (calls > 0 => grpc \in {"listening", "closing"})

PodInit ==
  /\ warm = "loading" /\ loaded = FALSE /\ loadError = FALSE /\ state = FALSE
  /\ tailer = "none" /\ pool = TRUE
  /\ shutdown = "none" /\ grpc = "warming" /\ health = TRUE /\ calls = 0

Healthy == pool /\ (state => tailer # "exited")
InstanceReady == state /\ tailer = "ready"

\* What /readyz says while the health server is up.
Ready == health /\ shutdown = "none" /\ Healthy /\ InstanceReady

\* Mutant: an error is recorded and never taken back.
loadErrorAfter_Sticky(ok) == loadError \/ ~ok

loadErrorAfter(ok) == ~ok

\* get_or_create: the load ends and its error is noted, before the cell is set.
LoadEnds(ok) ==
  /\ grpc = "warming" /\ warm = "loading"
  /\ warm' = "settled" /\ loaded' = ok /\ loadError' = loadErrorAfter(ok)
  /\ UNCHANGED <<state, tailer, pool, shutdown, grpc, health, calls>>

\* The cell is set, or warm() waits.
LoadSettles ==
  /\ grpc = "warming" /\ warm = "settled"
  /\ warm' = IF loaded THEN "done" ELSE "waiting"
  /\ state' = loaded /\ tailer' = IF loaded THEN "starting" ELSE "none"
  /\ UNCHANGED <<loaded, loadError, pool, shutdown, grpc, health, calls>>

Backoff ==
  /\ grpc = "warming" /\ warm = "waiting" /\ warm' = "loading"
  /\ UNCHANGED <<loaded, loadError, state, tailer, pool, shutdown, grpc, health, calls>>

\* The first position of the tailer is known.
TailerStarts ==
  /\ tailer = "starting" /\ tailer' = "ready"
  /\ UNCHANGED <<warm, loaded, loadError, state, pool, shutdown, grpc, health, calls>>

\* The tailer exits or the isolate scheduler does.
WorkerExits ==
  /\ \/ tailer \in {"starting", "ready"} /\ tailer' = "exited" /\ UNCHANGED pool
     \/ pool /\ pool' = FALSE /\ UNCHANGED tailer
  /\ UNCHANGED <<warm, loaded, loadError, state, shutdown, grpc, health, calls>>

Listen ==
  /\ grpc = "warming" /\ warm = "done" /\ grpc' = "listening"
  /\ UNCHANGED <<warm, loaded, loadError, state, tailer, pool, shutdown, health, calls>>

CallArrives ==
  /\ grpc = "listening" /\ calls < MaxCalls /\ calls' = calls + 1
  /\ UNCHANGED <<warm, loaded, loadError, state, tailer, pool, shutdown, grpc, health>>

CallReturns ==
  /\ calls > 0 /\ calls' = calls - 1
  /\ UNCHANGED <<warm, loaded, loadError, state, tailer, pool, shutdown, grpc, health>>

\* SIGTERM, of a rollout or after failed liveness probes.
PodSignal ==
  /\ shutdown = "none" /\ shutdown' = "draining"
  /\ UNCHANGED <<warm, loaded, loadError, state, tailer, pool, grpc, health, calls>>

\* drain_delay has passed.
DelayPasses ==
  /\ shutdown = "draining" /\ shutdown' = "sent"
  /\ UNCHANGED <<warm, loaded, loadError, state, tailer, pool, grpc, health, calls>>

\* Mutant: the load is not given up.
GrpcStops_Listening ==
  /\ shutdown = "sent" /\ grpc = "listening"
  /\ grpc' = "closing"
  /\ UNCHANGED <<warm, loaded, loadError, state, tailer, pool, shutdown, health, calls>>

\* The select of warm() and the shutdown, and serve_with_shutdown.
GrpcStops ==
  /\ shutdown = "sent" /\ grpc \in {"warming", "listening"}
  /\ grpc' = IF grpc = "warming" THEN "ended" ELSE "closing"
  /\ UNCHANGED <<warm, loaded, loadError, state, tailer, pool, shutdown, health, calls>>

GrpcEnds ==
  /\ grpc = "closing" /\ calls = 0 /\ grpc' = "ended"
  /\ UNCHANGED <<warm, loaded, loadError, state, tailer, pool, shutdown, health, calls>>

HealthEnds ==
  /\ shutdown = "sent" /\ health /\ health' = FALSE
  /\ UNCHANGED <<warm, loaded, loadError, state, tailer, pool, shutdown, grpc, calls>>

PodNext ==
  \/ (\E ok \in BOOLEAN : LoadEnds(ok)) \/ LoadSettles \/ Backoff
  \/ TailerStarts \/ WorkerExits \/ Listen \/ CallArrives \/ CallReturns
  \/ PodSignal \/ DelayPasses \/ GrpcStops \/ GrpcEnds \/ HealthEnds

PodSpec == PodInit /\ [][PodNext]_podVars

\* Calls end, timers fire, and the kubelet acts on a failing liveness probe; no
\* load need ever succeed.
PodFairness ==
  /\ WF_podVars(CallReturns) /\ WF_podVars(PodSignal /\ ~Healthy) /\ WF_podVars(DelayPasses)
  /\ WF_podVars(GrpcStops) /\ WF_podVars(GrpcEnds) /\ WF_podVars(HealthEnds)

FairPodSpec == PodSpec /\ PodFairness

-----------------------------------------------------------------------------
(* Properties. *)

\* The health report follows the last load that settled: it shows no error of an
\* earlier attempt beside an instance that is there (get_or_create,
\* health_report).
ReportFollowsLoad == warm = "done" => state /\ ~loadError

\* No readiness probe has a pod take calls when its gRPC server no longer
\* accepts them (shutting_down is set before the delay, the listener closes after).
ReadyListens == Ready => grpc \in {"warming", "listening"}

\* How far the load, the server and the shutdown have come.
PodStages ==
  /\ warm # "done" => ~state /\ grpc \notin {"listening", "closing"}
  /\ warm = "settled" => loadError = ~loaded
  /\ grpc \in {"closing", "ended"} => shutdown = "sent"

\* What a pod tells its probes is true: of its load, and of the server behind them.
PodInv == PodTypeOK /\ PodStages /\ ReportFollowsLoad /\ ReadyListens

\* A pod that was told to stop, or whose tailer or scheduler has exited, ends:
\* also while its instance does not load, and after the calls it has accepted.
PodStops == (shutdown # "none" \/ ~Healthy) ~> (grpc = "ended" /\ ~health /\ calls = 0)
================================================================================
