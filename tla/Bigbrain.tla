------------------------------- MODULE Bigbrain -------------------------------
(***************************************************************************)
(* The bigbrain process: it starts from its environment or not at all,     *)
(* runs a reconcile loop for each deployment, the HTTP server and the      *)
(* metrics API server, and stops on a signal or when one of the servers    *)
(* fails: streams are closed, HTTP requests drained, then the actuations   *)
(* that the loops have started, each step within its own time.             *)
(*                                                                         *)
(* Abstracted: time passes in ticks; an actuation is the number of pods it *)
(* has still to call, one after another, and what a call does is           *)
(* Election's; a loop that finds its context cancelled ends in the same    *)
(* tick, since all it waits for is cancelled too; a deployment's promotion *)
(* and demotion, which may overlap, are one.                               *)
(***************************************************************************)
EXTENDS Naturals, Sequences, FiniteSets, SequencesExt

CONSTANTS
  Entries,          \* what BIGBRAIN_DEPLOYMENTS may hold: sequences of [name, namespace]
  TokenLists,       \* BIGBRAIN_CONTROL_PLANE_TOKEN_0, _1, ...
  ValidName, ValidNamespace,
  ShutdownTimeout,  \* for the HTTP requests, in ticks
  ActuationTimeout, \* for one call of an actuation
  Slack,            \* actuationDrainSlack
  MaxTargets,       \* bound on the pods one actuation calls
  MaxRequests       \* bound on the HTTP requests in flight

ASSUME BigbrainAssumption ==
  /\ ShutdownTimeout \in Nat /\ ActuationTimeout \in Nat \ {0} /\ Slack \in Nat \ {0}
  /\ MaxTargets \in Nat /\ MaxRequests \in Nat

VARIABLES
  deployments, \* the registered deployments, as parsed
  tokens,      \* controlPlaneTokens
  phase,       \* of run()
  code,        \* what it returns
  ctxDone,     \* the context of the signals is done
  serve,       \* the HTTP server
  requests,    \* requests in flight, streams excluded
  streams,     \* leader-streams are open
  api,         \* the metrics API server and its scraper
  apiFailed,   \* apiserverFailed is closed
  loops,       \* deployments whose reconcile loop runs
  calls,       \* pods that the actuation of a deployment has still to call
  spent,       \* ticks of its present call
  waited,      \* ticks of the present phase of the shutdown
  elapsed,     \* ticks since the context was done; read by no action
  cause        \* what was the first to end the context; read by no action

bootVars == <<deployments, tokens>>
ctrlVars == <<loops, calls, spent>>
bigbrainVars == <<bootVars, phase, code, ctxDone, serve, requests, streams, api, apiFailed,
          ctrlVars, waited, elapsed, cause>>

-----------------------------------------------------------------------------
(* Start. *)

Parts(entries) == SelectSeq(entries, LAMBDA e : e.name # "" \/ e.namespace # "")

refOf(e) == [name |-> e.name, namespace |-> IF e.namespace = "" THEN e.name ELSE e.namespace]

\* parseDeployments without an error, and at least one deployment.
parses(entries) ==
  LET refs == [i \in DOMAIN Parts(entries) |-> refOf(Parts(entries)[i])]
  IN  /\ refs # << >>
      /\ \A i \in DOMAIN refs : refs[i].name \in ValidName /\ refs[i].namespace \in ValidNamespace
      /\ \A i, j \in DOMAIN refs : refs[i].name = refs[j].name => i = j

parseDeployments(entries) == [i \in DOMAIN Parts(entries) |-> refOf(Parts(entries)[i])]

\* Token i is that of the i-th deployment; each is set, and fit for a header.
tokensLoad(refs, env) == \A i \in DOMAIN refs : i \in DOMAIN env /\ env[i] \notin {"", "unsafe"}

loadDeploymentTokens(refs, env) == [i \in DOMAIN refs |-> env[i]]

\* The Kubernetes client and the other variables are in order, or not.
Starts(entries, env, rest) == rest /\ parses(entries) /\ tokensLoad(parseDeployments(entries), env)

Names == {deployments[i].name : i \in DOMAIN deployments}

BigbrainInit ==
  /\ \E entries \in Entries, env \in TokenLists, rest \in BOOLEAN :
       IF Starts(entries, env, rest)
       THEN /\ deployments = parseDeployments(entries)
            /\ tokens = loadDeploymentTokens(parseDeployments(entries), env)
            /\ phase = "serving" /\ code = 0 /\ serve = "listening"
            /\ api \in {"off", "running"}
       ELSE /\ deployments = << >> /\ tokens = << >>
            /\ phase = "exited" /\ code = 1 /\ serve = "closed" /\ api = "off"
  /\ loops = Names /\ calls = [d \in Names |-> 0] /\ spent = [d \in Names |-> 0]
  /\ ctxDone = FALSE /\ requests = 0 /\ streams = FALSE /\ apiFailed = FALSE
  /\ waited = 0 /\ elapsed = 0 /\ cause = "none"

-----------------------------------------------------------------------------
(* The controller. *)

\* reconcile decides on an actuation of n pods; its context outlives the signal.
actGo(d, n) ==
  /\ phase # "exited" /\ d \in loops /\ calls[d] = 0
  /\ calls' = [calls EXCEPT ![d] = n] /\ spent' = [spent EXCEPT ![d] = 0]
  /\ UNCHANGED <<bootVars, phase, code, ctxDone, serve, requests, streams, api, apiFailed,
                 loops, waited, elapsed, cause>>

\* A call is answered, fails or times out, and the next begins.
CallOver(d) ==
  /\ phase # "exited" /\ calls[d] > 0
  /\ calls' = [calls EXCEPT ![d] = @ - 1] /\ spent' = [spent EXCEPT ![d] = 0]
  /\ UNCHANGED <<bootVars, phase, code, ctxDone, serve, requests, streams, api, apiFailed,
                 loops, waited, elapsed, cause>>

LoopEnds(d) ==
  /\ phase # "exited" /\ ctxDone /\ d \in loops
  /\ loops' = loops \ {d}
  /\ UNCHANGED <<bootVars, phase, code, ctxDone, serve, requests, streams, api, apiFailed,
                 calls, spent, waited, elapsed, cause>>

\* Mutant: Run returns with its loops.
ctrlDone_LoopsOnly == loops = {}

ctrlDone == loops = {} /\ \A d \in Names : calls[d] = 0
metricsDone == api \in {"off", "ended"}

-----------------------------------------------------------------------------
(* The servers. *)

Served == UNCHANGED <<bootVars, phase, code, ctxDone, serve, api, apiFailed, ctrlVars, waited, elapsed, cause>>

Request ==
  /\ serve = "listening"
  /\ \/ requests < MaxRequests /\ requests' = requests + 1 /\ UNCHANGED streams
     \/ streams' = TRUE /\ ~streams /\ UNCHANGED requests
  /\ Served

RequestEnds ==
  /\ phase # "exited"
  /\ \/ requests > 0 /\ requests' = requests - 1 /\ UNCHANGED streams
     \/ streams /\ streams' = FALSE /\ UNCHANGED requests
  /\ Served

Told == UNCHANGED <<bootVars, phase, code, requests, streams, ctrlVars, waited, elapsed>>

\* stop(), or the signal itself.
stop(by) == ctxDone' = TRUE /\ cause' = IF ctxDone THEN cause ELSE by

Signal == phase # "exited" /\ ~ctxDone /\ stop("signal") /\ Told /\ UNCHANGED <<serve, api, apiFailed>>

\* ListenAndServe returns an error.
ServeFails ==
  /\ serve = "listening"
  /\ serve' = "failed" /\ stop("serve") /\ Told /\ UNCHANGED <<api, apiFailed>>

\* The API server returns an error: apiserverFailed is closed, then stop is called.
ApiFails ==
  /\ api = "running" /\ phase # "exited"
  /\ api' = "failing" /\ apiFailed' = TRUE /\ Told /\ UNCHANGED <<serve, ctxDone, cause>>

ApiStops ==
  /\ api = "failing" /\ phase # "exited"
  /\ api' = "ended" /\ apiFailed' = TRUE /\ stop("api") /\ Told /\ UNCHANGED serve

\* The API server and the scraper see that the context is done.
ApiEnds ==
  /\ api = "running" /\ ctxDone /\ phase # "exited"
  /\ api' = "ended" /\ Told /\ UNCHANGED <<serve, apiFailed, ctxDone, cause>>

-----------------------------------------------------------------------------
(* shutdown *)

\* srv.Shutdown and httpSrv.Shutdown: nothing new is accepted, streams end.
CloseServer ==
  /\ phase = "serving" /\ ctxDone
  /\ phase' = "closing" /\ waited' = 0
  /\ serve' = IF serve = "listening" THEN "closed" ELSE serve
  /\ UNCHANGED <<bootVars, code, ctxDone, requests, streams, api, apiFailed, ctrlVars, elapsed, cause>>

\* Mutant: the requests are waited for without a limit.
ServerClosed_Drained ==
  /\ phase = "closing" /\ requests = 0 /\ ~streams
  /\ phase' = "draining" /\ waited' = 0
  /\ UNCHANGED <<bootVars, code, ctxDone, serve, requests, streams, api, apiFailed, ctrlVars, elapsed, cause>>

ServerClosed ==
  /\ phase = "closing"
  /\ (requests = 0 /\ ~streams) \/ waited = ShutdownTimeout
  /\ phase' = "draining" /\ waited' = 0
  /\ UNCHANGED <<bootVars, code, ctxDone, serve, requests, streams, api, apiFailed, ctrlVars, elapsed, cause>>

drainTimedOut == waited = ActuationTimeout + Slack

mayExit == (ctrlDone /\ metricsDone) \/ drainTimedOut

Exit ==
  /\ phase = "draining" /\ mayExit
  /\ phase' = "exited" /\ code' = IF serve = "failed" \/ apiFailed THEN 1 ELSE 0
  /\ UNCHANGED <<bootVars, ctxDone, serve, requests, streams, api, apiFailed, ctrlVars, waited, elapsed, cause>>

\* What the timers allow: nothing outlasts its limit, and what may go on does.
Tick ==
  /\ phase # "exited" /\ (ctxDone \/ \E d \in Names : calls[d] > 0)
  /\ ctxDone => loops = {} /\ phase # "serving"
  /\ \A d \in Names : calls[d] > 0 => spent[d] < ActuationTimeout
  /\ phase = "closing" => waited < ShutdownTimeout /\ (requests > 0 \/ streams)
  /\ phase = "draining" => ~mayExit
  /\ spent' = [d \in Names |-> IF calls[d] > 0 THEN spent[d] + 1 ELSE 0]
  /\ waited' = IF phase = "serving" THEN 0 ELSE waited + 1
  /\ elapsed' = IF ctxDone THEN elapsed + 1 ELSE 0
  /\ UNCHANGED <<bootVars, phase, code, ctxDone, serve, requests, streams, api, apiFailed, loops, calls, cause>>

ControllerStep == \E d \in Names : (\E n \in 1..MaxTargets : actGo(d, n)) \/ CallOver(d) \/ LoopEnds(d)
ServerStep == Request \/ RequestEnds \/ ServeFails \/ ApiFails \/ ApiStops \/ ApiEnds
ShutdownStep == Signal \/ CloseServer \/ ServerClosed \/ Exit

BigbrainNext == ControllerStep \/ ServerStep \/ ShutdownStep \/ Tick

BigbrainSpec == BigbrainInit /\ [][BigbrainNext]_bigbrainVars

\* Time passes, cancelled loops end and the shutdown goes on.
BigbrainFairness ==
  /\ WF_bigbrainVars(Tick) /\ WF_bigbrainVars(CloseServer) /\ WF_bigbrainVars(ServerClosed) /\ WF_bigbrainVars(Exit)
  /\ WF_bigbrainVars(\E d \in Names : LoopEnds(d))
  /\ WF_bigbrainVars(\E d \in Names : spent[d] = ActuationTimeout /\ CallOver(d))

FairBigbrainSpec == BigbrainSpec /\ BigbrainFairness

-----------------------------------------------------------------------------
(* Properties. *)

\* Also: a bigbrain that runs has deployments of distinct names, each with its own
\* token.
BigbrainTypeOK ==
  /\ phase \in {"serving", "closing", "draining", "exited"} /\ code \in {0, 1}
  /\ serve \in {"listening", "failed", "closed"} /\ api \in {"off", "running", "failing", "ended"}
  /\ requests \in 0..MaxRequests /\ loops \subseteq Names
  /\ phase # "exited" =>
       /\ Names # {} /\ \A i, j \in DOMAIN deployments : deployments[i].name = deployments[j].name => i = j
       /\ DOMAIN tokens = DOMAIN deployments /\ \A i \in DOMAIN tokens : tokens[i] # ""

\* A shutdown takes no longer than the time its parts are given, whatever hangs:
\* that sum is what the chart holds the pod's grace period against.
WithinGrace == elapsed <= ShutdownTimeout + ActuationTimeout + Slack

\* The process does not end under an actuation: what it has begun to ask of a
\* backend is answered, or has timed out, when it exits (the actuations ignore the
\* signal, Run waits for them, and shutdown for Run).
ActuationsDrained == phase = "exited" => \A d \in Names : calls[d] = 0

\* When a server's failure is what stopped the process, its exit code says so, and
\* a process that no server failed exits with 0, however signals, drains and the two
\* servers' ends interleave (apiserverFailed is closed before stop is called).
FailureReported ==
  phase = "exited" /\ deployments # << >> =>
    /\ cause \in {"serve", "api"} => code = 1
    /\ code = 1 => serve = "failed" \/ apiFailed

\* The process runs from sound settings, and its shutdown is in time, after its
\* actuations, and with the exit code that tells what failed (run, shutdown).
BigbrainInv == BigbrainTypeOK /\ WithinGrace /\ ActuationsDrained /\ FailureReported

\* The process ends once it is told to.
Exits == ctxDone ~> (phase = "exited")

-----------------------------------------------------------------------------
(* What makes it inductive. *)

\* The phases of a shutdown have their limits, and their ticks make up the time since
\* the context was done.
ShutdownClock ==
  /\ waited \in Nat /\ elapsed \in Nat
  /\ phase # "serving" /\ deployments # << >> => ctxDone /\ serve # "listening"
  /\ phase = "serving" => elapsed = 0 /\ waited = 0
  /\ phase = "closing" => elapsed = waited /\ waited <= ShutdownTimeout
  /\ phase \in {"draining", "exited"} =>
       elapsed <= ShutdownTimeout + waited /\ waited <= ActuationTimeout + Slack

\* What fails is remembered until the process exits, and then in its code.
FailuresKept ==
  /\ cause = "serve" => serve = "failed"
  /\ cause = "api" => apiFailed
  /\ phase = "exited" /\ deployments # << >> => (code = 1 <=> serve = "failed" \/ apiFailed)

\* A call runs for as long as it has been waited for, and no loop begins one once
\* time has passed without the context.
CallsClock ==
  /\ calls = [d \in Names |-> calls[d]] /\ spent = [d \in Names |-> spent[d]]
  /\ \A d \in Names : calls[d] \in 0..MaxTargets /\ spent[d] \in 0..ActuationTimeout
  /\ phase = "draining" /\ waited > 0 => loops = {}

\* The drain has been waited for no longer than the calls that an actuation has made
\* since may have taken.
DrainCovers ==
  /\ \A d \in Names : calls[d] > 0 => phase # "exited"
  /\ phase = "draining" =>
       \A d \in Names : calls[d] > 0 =>
         waited + calls[d] * ActuationTimeout <= MaxTargets * ActuationTimeout + spent[d]

\* The time of the drain, one call and the slack, is enough for an actuation's calls.
DrainSuffices == MaxTargets * ActuationTimeout < ActuationTimeout + Slack

BigbrainFits == BigbrainTypeOK /\ ShutdownClock /\ FailuresKept /\ CallsClock
===============================================================================
