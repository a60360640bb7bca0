--------------------------- MODULE BigbrainProofs ---------------------------
(***************************************************************************)
(* The bigbrain process ends in time and with the right exit code, and its *)
(* custom metrics API answers from fresh samples of one cycle, whatever    *)
(* the timeouts, the deployments and the pods are.                         *)
(***************************************************************************)
EXTENDS Bigbrain, Metrics, TLAPS

-----------------------------------------------------------------------------
(* The process. *)

LEMMA SettingsInitially ==
  ASSUME BigbrainInit
  PROVE  phase # "exited" =>
           /\ Names # {}
           /\ \A i, j \in DOMAIN deployments : deployments[i].name = deployments[j].name => i = j
           /\ DOMAIN tokens = DOMAIN deployments /\ \A i \in DOMAIN tokens : tokens[i] # ""
<1>1. SUFFICES ASSUME phase # "exited"
               PROVE  /\ Names # {}
                      /\ \A i, j \in DOMAIN deployments : deployments[i].name = deployments[j].name => i = j
                      /\ DOMAIN tokens = DOMAIN deployments /\ \A i \in DOMAIN tokens : tokens[i] # ""
  OBVIOUS
<1>2. PICK entries \in Entries, env \in TokenLists, rest \in BOOLEAN :
        /\ Starts(entries, env, rest)
        /\ deployments = parseDeployments(entries)
        /\ tokens = loadDeploymentTokens(parseDeployments(entries), env)
  BY <1>1 DEF BigbrainInit
<1>3. parses(entries) /\ tokensLoad(deployments, env) /\ tokens = loadDeploymentTokens(deployments, env)
  BY <1>2 DEF Starts
<1>4. /\ deployments # << >>
      /\ \A i, j \in DOMAIN deployments : deployments[i].name = deployments[j].name => i = j
  BY <1>2, <1>3 DEF parses, parseDeployments
<1>5. DOMAIN deployments # {}
  <2>1. deployments = [i \in DOMAIN deployments |-> deployments[i]]
    BY <1>2 DEF parseDeployments
  <2>2. << >> \in Seq({}) /\ Len(<< >>) = 0
    OBVIOUS
  <2>3. DOMAIN << >> = {} /\ << >> = [i \in {} |-> i]
    BY <2>2
  <2> QED
    BY <1>4, <2>1, <2>3
<1>6. DOMAIN tokens = DOMAIN deployments /\ \A i \in DOMAIN tokens : tokens[i] # ""
  BY <1>3 DEF tokensLoad, loadDeploymentTokens
<1>7. PICK i \in DOMAIN deployments : TRUE
  BY <1>5
<1>8. deployments[i].name \in Names
  BY <1>7 DEF Names
<1> QED
  BY <1>4, <1>6, <1>8

\* A process that has deployments has not been refused its start.
LEMMA NothingDeployed == deployments = << >> => Names = {}
<1>1. << >> \in Seq({}) /\ Len(<< >>) = 0
  OBVIOUS
<1>2. DOMAIN << >> = {}
  BY <1>1
<1> QED
  BY <1>2 DEF Names

LEMMA ProcessInitially == BigbrainInit => BigbrainFits /\ DrainCovers
<1> SUFFICES ASSUME BigbrainInit PROVE BigbrainFits /\ DrainCovers
  OBVIOUS
<1>1. /\ loops = Names /\ calls = [d \in Names |-> 0] /\ spent = [d \in Names |-> 0]
      /\ ctxDone = FALSE /\ requests = 0 /\ apiFailed = FALSE
      /\ waited = 0 /\ elapsed = 0 /\ cause = "none"
      /\ \/ phase = "serving" /\ code = 0 /\ serve = "listening" /\ api \in {"off", "running"}
         \/ deployments = << >> /\ phase = "exited" /\ code = 1 /\ serve = "closed" /\ api = "off"
  BY DEF BigbrainInit
<1>2. MaxRequests \in Nat /\ MaxTargets \in Nat /\ ActuationTimeout \in Nat /\ ShutdownTimeout \in Nat /\ Slack \in Nat
  BY BigbrainAssumption
<1>3. BigbrainTypeOK
  <2>1. requests \in 0..MaxRequests /\ loops \subseteq Names /\ code \in {0, 1}
    BY <1>1, <1>2
  <2>2. phase \in {"serving", "closing", "draining", "exited"} /\ serve \in {"listening", "failed", "closed"}
    BY <1>1
  <2>3. api \in {"off", "running", "failing", "ended"}
    BY <1>1
  <2> QED
    BY <2>1, <2>2, <2>3, SettingsInitially DEF BigbrainTypeOK
<1>4. ShutdownClock /\ FailuresKept
  BY <1>1, <1>2 DEF ShutdownClock, FailuresKept
<1>5. CallsClock /\ DrainCovers
  BY <1>1, <1>2 DEF CallsClock, DrainCovers
<1> QED
  BY <1>3, <1>4, <1>5 DEF BigbrainFits

\* What the steps of the controller leave alone.
LEMMA ControllerQuiet ==
  ASSUME ControllerStep
  PROVE  UNCHANGED <<bootVars, phase, code, ctxDone, serve, requests, streams, api, apiFailed, waited, elapsed, cause>>
  BY DEF ControllerStep, actGo, CallOver, LoopEnds

LEMMA ServerQuiet ==
  ASSUME ServerStep
  PROVE  UNCHANGED <<bootVars, phase, code, ctrlVars, waited, elapsed>>
  BY DEF ServerStep, Request, RequestEnds, ServeFails, ApiFails, ApiStops, ApiEnds, Served, Told, stop

LEMMA TypesKept ==
  ASSUME BigbrainFits, [BigbrainNext]_bigbrainVars
  PROVE  BigbrainTypeOK' /\ UNCHANGED bootVars /\ Names' = Names
<1>1. BigbrainTypeOK /\ MaxRequests \in Nat
  BY BigbrainAssumption DEF BigbrainFits
<1>2. UNCHANGED bootVars
  BY DEF BigbrainNext, ControllerStep, actGo, CallOver, LoopEnds, ServerStep, Request, RequestEnds, ServeFails,
         ApiFails, ApiStops, ApiEnds, Served, Told, ShutdownStep, Signal, CloseServer, ServerClosed, Exit, Tick,
         bigbrainVars
<1>3. Names' = Names /\ deployments' = deployments /\ tokens' = tokens
  BY <1>2 DEF bootVars, Names
<1>4. CASE ControllerStep
  <2>1. loops' \subseteq loops
    BY <1>4 DEF ControllerStep, actGo, CallOver, LoopEnds
  <2> QED
    BY <1>1, <1>2, <1>3, <1>4, <2>1, ControllerQuiet DEF BigbrainTypeOK
<1>5. CASE ServerStep
  <2>1. requests' \in 0..MaxRequests
    <3>1. requests \in 0..MaxRequests
      BY <1>1 DEF BigbrainTypeOK
    <3>2. \/ requests' = requests \/ (requests < MaxRequests /\ requests' = requests + 1)
          \/ (requests > 0 /\ requests' = requests - 1)
      BY <1>5 DEF ServerStep, Request, RequestEnds, ServeFails, ApiFails, ApiStops, ApiEnds, Told
    <3> QED
      BY <1>1, <3>1, <3>2
  <2>2. serve' \in {"listening", "failed", "closed"} /\ api' \in {"off", "running", "failing", "ended"}
    BY <1>1, <1>5 DEF ServerStep, Request, RequestEnds, ServeFails, ApiFails, ApiStops, ApiEnds, Served, Told,
                      BigbrainTypeOK
  <2>3. UNCHANGED <<phase, code, loops>>
    BY <1>5, ServerQuiet DEF ctrlVars
  <2> QED
    BY <1>1, <1>2, <1>3, <2>1, <2>2, <2>3 DEF BigbrainTypeOK
<1>6. CASE ShutdownStep
  <2>1. /\ UNCHANGED <<requests, api, loops>> /\ serve' \in {serve, "closed"}
        /\ phase' \in {"serving", "closing", "draining", "exited"} /\ code' \in {0, 1}
        /\ phase # "exited"
    BY <1>1, <1>6 DEF ShutdownStep, Signal, CloseServer, ServerClosed, Exit, Told, ctrlVars, BigbrainTypeOK
  <2> QED
    BY <1>1, <1>2, <1>3, <2>1 DEF BigbrainTypeOK
<1>7. CASE Tick
  BY <1>1, <1>2, <1>3, <1>7 DEF Tick, BigbrainTypeOK
<1>8. CASE UNCHANGED bigbrainVars
  BY <1>1, <1>2, <1>3, <1>8 DEF bigbrainVars, ctrlVars, BigbrainTypeOK
<1> QED
  BY <1>2, <1>3, <1>4, <1>5, <1>6, <1>7, <1>8 DEF BigbrainNext

LEMMA ClockKept ==
  ASSUME BigbrainFits, [BigbrainNext]_bigbrainVars
  PROVE  ShutdownClock'
<1>1. /\ ShutdownClock /\ ShutdownTimeout \in Nat /\ ActuationTimeout \in Nat /\ Slack \in Nat
      /\ phase \in {"serving", "closing", "draining", "exited"} /\ UNCHANGED deployments
      /\ phase # "exited" => deployments # << >>
  BY BigbrainAssumption, TypesKept, NothingDeployed DEF BigbrainFits, BigbrainTypeOK, bootVars
<1>2. CASE ControllerStep
  BY <1>1, <1>2, ControllerQuiet DEF ShutdownClock
<1>3. CASE ServerStep
  <2>1. UNCHANGED <<phase, waited, elapsed>> /\ (ctxDone => ctxDone') /\ (serve # "listening" => serve' # "listening")
    BY <1>3 DEF ServerStep, Request, RequestEnds, ServeFails, ApiFails, ApiStops, ApiEnds, Served, Told, stop
  <2> QED
    BY <1>1, <2>1 DEF ShutdownClock
<1>4. CASE Signal
  BY <1>1, <1>4 DEF Signal, stop, Told, ShutdownClock
<1>5. CASE CloseServer
  BY <1>1, <1>5 DEF CloseServer, ShutdownClock
<1>6. CASE ServerClosed
  BY <1>1, <1>6 DEF ServerClosed, ShutdownClock
<1>7. CASE Exit
  BY <1>1, <1>7 DEF Exit, ShutdownClock
<1>8. CASE Tick
  <2>1. /\ UNCHANGED <<phase, ctxDone, serve>> /\ phase # "exited"
        /\ waited' = IF phase = "serving" THEN 0 ELSE waited + 1
        /\ elapsed' = IF ctxDone THEN elapsed + 1 ELSE 0
        /\ ctxDone => phase # "serving"
        /\ phase = "closing" => waited < ShutdownTimeout
        /\ phase = "draining" => waited # ActuationTimeout + Slack
    BY <1>8 DEF Tick, mayExit, drainTimedOut
  <2> QED
    BY <1>1, <2>1 DEF ShutdownClock
<1>9. CASE UNCHANGED bigbrainVars
  BY <1>1, <1>9 DEF bigbrainVars, ShutdownClock
<1> QED
  BY <1>2, <1>3, <1>4, <1>5, <1>6, <1>7, <1>8, <1>9 DEF BigbrainNext, ShutdownStep

LEMMA FailuresStay ==
  ASSUME BigbrainFits, [BigbrainNext]_bigbrainVars
  PROVE  FailuresKept'
<1>1. /\ FailuresKept /\ ShutdownClock /\ UNCHANGED deployments
      /\ phase # "exited" => deployments # << >>
      /\ phase = "serving" \/ deployments = << >> \/ (ctxDone /\ serve # "listening")
  BY TypesKept, NothingDeployed DEF BigbrainFits, BigbrainTypeOK, bootVars, ShutdownClock
<1>2. CASE ControllerStep
  BY <1>1, <1>2, ControllerQuiet DEF FailuresKept
<1>3. CASE ServerStep
  <2>1. CASE Request \/ RequestEnds
    BY <1>1, <2>1 DEF Request, RequestEnds, Served, FailuresKept
  <2>2. CASE ServeFails
    BY <1>1, <2>2 DEF ServeFails, stop, Told, FailuresKept
  <2>3. CASE ApiFails \/ ApiStops \/ ApiEnds
    BY <1>1, <2>3 DEF ApiFails, ApiStops, ApiEnds, stop, Told, FailuresKept
  <2> QED
    BY <1>3, <2>1, <2>2, <2>3 DEF ServerStep
<1>4. CASE ShutdownStep
  BY <1>1, <1>4 DEF ShutdownStep, Signal, CloseServer, ServerClosed, Exit, stop, Told, FailuresKept
<1>5. CASE Tick \/ UNCHANGED bigbrainVars
  BY <1>1, <1>5 DEF Tick, bigbrainVars, FailuresKept
<1> QED
  BY <1>2, <1>3, <1>4, <1>5 DEF BigbrainNext

\* What n calls may take.
LEMMA CallsTake ==
  ASSUME NEW t \in Nat, NEW m \in Nat, NEW n \in 0..m
  PROVE  /\ n * t \in Nat /\ m * t \in Nat /\ n * t <= m * t
         /\ n > 0 => n * t >= t /\ (n - 1) * t = n * t - t
<1>1. (m - n) * t \in Nat /\ m * t = n * t + (m - n) * t /\ n * t \in Nat
  OBVIOUS
<1>2. n > 0 => n * t = t + (n - 1) * t /\ (n - 1) * t \in Nat
  OBVIOUS
<1> QED
  BY <1>1, <1>2

LEMMA CallsKept ==
  ASSUME BigbrainFits, [BigbrainNext]_bigbrainVars
  PROVE  CallsClock' /\ (DrainSuffices /\ DrainCovers => DrainCovers')
<1>1. /\ CallsClock /\ ShutdownClock /\ Names' = Names /\ waited \in Nat
      /\ ActuationTimeout \in Nat \ {0} /\ Slack \in Nat \ {0} /\ MaxTargets \in Nat
      /\ phase = "draining" => ctxDone
      /\ loops \subseteq Names
  BY BigbrainAssumption, TypesKept, NothingDeployed DEF BigbrainFits, BigbrainTypeOK, ShutdownClock
<1>2. /\ calls = [d \in Names |-> calls[d]] /\ spent = [d \in Names |-> spent[d]]
      /\ \A d \in Names : calls[d] \in 0..MaxTargets /\ spent[d] \in 0..ActuationTimeout
      /\ phase = "draining" /\ waited > 0 => loops = {}
  BY <1>1 DEF CallsClock
<1>3. ASSUME NEW d \in Names, NEW n \in 1..MaxTargets, actGo(d, n)
      PROVE  CallsClock' /\ (DrainSuffices /\ DrainCovers => DrainCovers')
  <2>1. /\ calls' = [calls EXCEPT ![d] = n] /\ spent' = [spent EXCEPT ![d] = 0]
        /\ UNCHANGED <<phase, waited, loops>> /\ phase # "exited" /\ d \in loops
    BY <1>3 DEF actGo
  <2>2. \A e \in Names : /\ calls'[e] = IF e = d THEN n ELSE calls[e]
                         /\ spent'[e] = IF e = d THEN 0 ELSE spent[e]
    BY <1>2, <2>1
  <2>3. calls' = [e \in Names |-> calls'[e]] /\ spent' = [e \in Names |-> spent'[e]]
    BY <1>2, <2>1
  <2>4. CallsClock'
    BY <1>1, <1>2, <2>1, <2>2, <2>3 DEF CallsClock
  <2>5. ASSUME DrainCovers, NEW e \in Names, calls'[e] > 0, phase' = "draining"
        PROVE  waited' + calls'[e] * ActuationTimeout <= MaxTargets * ActuationTimeout + spent'[e]
    <3>1. CASE e = d
      <4>1. calls'[e] = n /\ spent'[e] = 0 /\ waited' = 0 /\ n \in 0..MaxTargets
        BY <1>1, <1>2, <2>1, <2>2, <2>5, <3>1
      <4>2. n * ActuationTimeout <= MaxTargets * ActuationTimeout /\ n * ActuationTimeout \in Nat
            /\ MaxTargets * ActuationTimeout \in Nat
        BY <1>1, <4>1, CallsTake
      <4> QED
        BY <4>1, <4>2
    <3>2. CASE e # d
      BY <2>1, <2>2, <2>5, <3>2 DEF DrainCovers
    <3> QED
      BY <3>1, <3>2
  <2>6. DrainCovers => DrainCovers'
    BY <1>1, <2>1, <2>5 DEF DrainCovers
  <2> QED
    BY <2>4, <2>6
<1>4. ASSUME NEW d \in Names, CallOver(d)
      PROVE  CallsClock' /\ (DrainSuffices /\ DrainCovers => DrainCovers')
  <2>1. /\ calls' = [calls EXCEPT ![d] = calls[d] - 1] /\ spent' = [spent EXCEPT ![d] = 0]
        /\ UNCHANGED <<phase, waited, loops>> /\ phase # "exited" /\ calls[d] > 0
    BY <1>4 DEF CallOver
  <2>2. \A e \in Names : /\ calls'[e] = IF e = d THEN calls[d] - 1 ELSE calls[e]
                         /\ spent'[e] = IF e = d THEN 0 ELSE spent[e]
    BY <1>2, <2>1
  <2>3. calls' = [e \in Names |-> calls'[e]] /\ spent' = [e \in Names |-> spent'[e]]
    BY <1>2, <2>1
  <2>4. CallsClock'
    BY <1>1, <1>2, <2>1, <2>2, <2>3 DEF CallsClock
  <2>5. ASSUME DrainCovers, NEW e \in Names, calls'[e] > 0, phase' = "draining"
        PROVE  waited' + calls'[e] * ActuationTimeout <= MaxTargets * ActuationTimeout + spent'[e]
    <3>1. CASE e = d
      <4>1. /\ calls'[e] = calls[d] - 1 /\ spent'[e] = 0 /\ waited' = waited
            /\ calls[d] \in 0..MaxTargets /\ spent[d] \in 0..ActuationTimeout
        BY <1>1, <1>2, <2>1, <2>2, <3>1
      <4>2. /\ (calls[d] - 1) * ActuationTimeout = calls[d] * ActuationTimeout - ActuationTimeout
            /\ calls[d] * ActuationTimeout \in Nat /\ MaxTargets * ActuationTimeout \in Nat
        BY <1>1, <2>1, <4>1, CallsTake
      <4>3. waited + calls[d] * ActuationTimeout <= MaxTargets * ActuationTimeout + spent[d]
        BY <2>1, <2>5 DEF DrainCovers
      <4> QED
        BY <1>1, <4>1, <4>2, <4>3
    <3>2. CASE e # d
      BY <2>1, <2>2, <2>5, <3>2 DEF DrainCovers
    <3> QED
      BY <3>1, <3>2
  <2>6. ASSUME DrainCovers, NEW e \in Names, calls'[e] > 0  PROVE phase' # "exited"
    BY <2>1
  <2>7. DrainCovers => DrainCovers'
    BY <1>1, <2>5, <2>6 DEF DrainCovers
  <2> QED
    BY <2>4, <2>7
<1>5. ASSUME NEW d \in Names, LoopEnds(d)
      PROVE  CallsClock' /\ (DrainCovers => DrainCovers')
  BY <1>1, <1>5 DEF LoopEnds, CallsClock, DrainCovers
<1>6. CASE ServerStep
  BY <1>1, <1>6, ServerQuiet DEF ctrlVars, CallsClock, DrainCovers
<1>7. CASE Signal \/ CloseServer
  BY <1>1, <1>7 DEF Signal, CloseServer, Told, ctrlVars, CallsClock, DrainCovers
<1>8. CASE ServerClosed
  BY <1>1, <1>2, <1>8 DEF ServerClosed, ctrlVars, CallsClock, DrainCovers
<1>9. CASE Exit
  <2>1. /\ phase = "draining" /\ phase' = "exited" /\ UNCHANGED <<calls, spent, loops, waited>>
        /\ (\A d \in Names : calls[d] = 0) \/ waited = ActuationTimeout + Slack
    BY <1>9 DEF Exit, mayExit, ctrlDone, drainTimedOut, ctrlVars
  <2>2. CallsClock'
    BY <1>1, <2>1 DEF CallsClock
  <2>3. ASSUME DrainSuffices, DrainCovers, NEW d \in Names, calls[d] > 0  PROVE FALSE
    <3>1. calls[d] \in 0..MaxTargets /\ spent[d] \in 0..ActuationTimeout /\ waited = ActuationTimeout + Slack
      BY <1>2, <2>1, <2>3
    <3>2. waited + calls[d] * ActuationTimeout <= MaxTargets * ActuationTimeout + spent[d]
      BY <2>1, <2>3 DEF DrainCovers
    <3>3. /\ calls[d] * ActuationTimeout >= ActuationTimeout
          /\ calls[d] * ActuationTimeout \in Nat /\ MaxTargets * ActuationTimeout \in Nat
      BY <1>1, <2>3, <3>1, CallsTake
    <3>4. MaxTargets * ActuationTimeout < ActuationTimeout + Slack
      BY <2>3 DEF DrainSuffices
    <3> QED
      BY <1>1, <3>1, <3>2, <3>3, <3>4
  <2> QED
    BY <1>1, <2>1, <2>2, <2>3 DEF DrainCovers
<1>10. CASE Tick
  <2>1. /\ UNCHANGED <<phase, calls, loops>>
        /\ ctxDone => loops = {}
        /\ \A d \in Names : calls[d] > 0 => spent[d] < ActuationTimeout
        /\ spent' = [d \in Names |-> IF calls[d] > 0 THEN spent[d] + 1 ELSE 0]
        /\ waited' = IF phase = "serving" THEN 0 ELSE waited + 1
    BY <1>10 DEF Tick
  <2>2. \A d \in Names : spent'[d] = IF calls[d] > 0 THEN spent[d] + 1 ELSE 0
    BY <2>1
  <2>3. spent' = [d \in Names |-> spent'[d]]
    BY <2>1
  <2>4. ASSUME NEW d \in Names
        PROVE  calls'[d] \in 0..MaxTargets /\ spent'[d] \in 0..ActuationTimeout
    <3>1. calls[d] \in 0..MaxTargets /\ spent[d] \in 0..ActuationTimeout
      BY <1>2
    <3>2. spent'[d] = IF calls[d] > 0 THEN spent[d] + 1 ELSE 0
      BY <2>2
    <3> QED
      BY <1>1, <2>1, <3>1, <3>2
  <2>5. phase' = "draining" => loops' = {}
    BY <1>1, <2>1
  <2>6. CallsClock'
    BY <1>1, <1>2, <2>1, <2>3, <2>4, <2>5 DEF CallsClock
  <2>7. ASSUME DrainCovers, NEW d \in Names, calls'[d] > 0, phase' = "draining"
        PROVE  waited' + calls'[d] * ActuationTimeout <= MaxTargets * ActuationTimeout + spent'[d]
    <3>1. /\ calls'[d] = calls[d] /\ spent'[d] = spent[d] + 1 /\ waited' = waited + 1
          /\ calls[d] \in 0..MaxTargets /\ spent[d] \in 0..ActuationTimeout
      BY <1>2, <2>1, <2>2, <2>7
    <3>2. waited + calls[d] * ActuationTimeout <= MaxTargets * ActuationTimeout + spent[d]
      BY <2>1, <2>7 DEF DrainCovers
    <3>3. calls[d] * ActuationTimeout \in Nat /\ MaxTargets * ActuationTimeout \in Nat
      BY <1>1, <3>1, CallsTake
    <3> QED
      BY <1>1, <3>1, <3>2, <3>3
  <2>8. DrainCovers => DrainCovers'
    <3>1. ASSUME DrainCovers, NEW d \in Names, calls'[d] > 0  PROVE phase' # "exited"
      BY <2>1, <3>1 DEF DrainCovers
    <3> QED
      BY <1>1, <2>7, <3>1 DEF DrainCovers
  <2> QED
    BY <2>6, <2>8
<1>11. CASE UNCHANGED bigbrainVars
  BY <1>1, <1>11 DEF bigbrainVars, ctrlVars, CallsClock, DrainCovers
<1> QED
  BY <1>3, <1>4, <1>5, <1>6, <1>7, <1>8, <1>9, <1>10, <1>11 DEF BigbrainNext, ControllerStep, ShutdownStep

LEMMA StepKeepsProcess == BigbrainFits /\ [BigbrainNext]_bigbrainVars => BigbrainFits'
  BY TypesKept, ClockKept, FailuresStay, CallsKept DEF BigbrainFits

LEMMA FitsTells == BigbrainFits => BigbrainTypeOK /\ WithinGrace /\ FailureReported
<1> SUFFICES ASSUME BigbrainFits PROVE BigbrainTypeOK /\ WithinGrace /\ FailureReported
  OBVIOUS
<1>1. ShutdownTimeout \in Nat /\ ActuationTimeout \in Nat /\ Slack \in Nat
  BY BigbrainAssumption
<1>2. WithinGrace
  <2>1. /\ waited \in Nat /\ elapsed \in Nat
        /\ phase \in {"serving", "closing", "draining", "exited"}
        /\ phase = "serving" => elapsed = 0
        /\ phase = "closing" => elapsed = waited /\ waited <= ShutdownTimeout
        /\ phase \in {"draining", "exited"} =>
             elapsed <= ShutdownTimeout + waited /\ waited <= ActuationTimeout + Slack
    BY DEF BigbrainFits, BigbrainTypeOK, ShutdownClock
  <2> QED
    BY <1>1, <2>1 DEF WithinGrace
<1>3. FailureReported
  BY DEF BigbrainFits, FailuresKept, FailureReported
<1> QED
  BY <1>2, <1>3 DEF BigbrainFits

\* Whatever hangs, and however many pods its actuations still call, bigbrain shuts
\* down within the time its parts are given, and its exit code says whether a server
\* failed (run, shutdown).
THEOREM ShutdownInTime == BigbrainSpec => [](WithinGrace /\ FailureReported)
  BY ProcessInitially, StepKeepsProcess, FitsTells, PTL DEF BigbrainSpec

\* The process runs from sound settings, and its shutdown is in time, after its
\* actuations, and with the exit code that tells what failed, provided that the drain
\* has the time of all the calls of an actuation (run, shutdown, Controller.Run).
THEOREM BigbrainInvariance == ASSUME DrainSuffices PROVE BigbrainSpec => []BigbrainInv
<1>1. BigbrainFits /\ DrainCovers /\ [BigbrainNext]_bigbrainVars => DrainCovers'
  BY CallsKept
<1>2. BigbrainFits /\ DrainCovers => BigbrainInv
  <2> SUFFICES ASSUME BigbrainFits, DrainCovers PROVE BigbrainInv
    OBVIOUS
  <2>1. \A d \in Names : calls[d] \in 0..MaxTargets /\ (calls[d] > 0 => phase # "exited")
    BY DEF BigbrainFits, CallsClock, DrainCovers
  <2>2. ActuationsDrained
    BY <2>1, BigbrainAssumption DEF ActuationsDrained
  <2> QED
    BY <2>2, FitsTells DEF BigbrainInv
<1> QED
  BY <1>1, <1>2, ProcessInitially, StepKeepsProcess, PTL DEF BigbrainSpec

-----------------------------------------------------------------------------
(* The samples. *)

LEMMA Division ==
  ASSUME NEW t \in Nat, t # 0, NEW x \in Int
  PROVE  x \div t \in Int /\ x % t \in 0..(t - 1)
  OBVIOUS

LEMMA Divided ==
  ASSUME NEW t \in Nat, t # 0, NEW x \in Int
  PROVE  x = t * (x \div t) + (x % t)
  OBVIOUS

LEMMA QuotientAbove ==
  ASSUME NEW t \in Nat, t # 0, NEW q \in Int, NEW r \in 0..(t - 1), NEW x \in Nat, x = t * q + r
  PROVE  q >= 0
  OBVIOUS

\* A utilisation is a natural number.
LEMMA Utilisation ==
  ASSUME NEW t \in Nat, t # 0, NEW b \in Nat
  PROVE  milliPercent(b, t) \in Nat
<1> DEFINE x == 100 * b * 1000
           q == x \div t
           r == x % t
<1>1. x \in Nat
  BY SMT
<1>2. milliPercent(b, t) = q
  BY DEF milliPercent
<1> HIDE DEF x
<1>3. q \in Int /\ r \in 0..(t - 1)
  BY <1>1, Division
<1>4. x = t * q + r
  BY <1>1, Divided
<1> HIDE DEF q, r
<1>5. q >= 0
  BY <1>1, <1>3, <1>4, QuotientAbove
<1> QED
  BY <1>2, <1>3, <1>5

\* A page gives one sample at most, of the pod that answered it.
LEMMA SampleOfPage ==
  ASSUME NEW p \in Pod, NEW page \in Page, NEW age \in Nat, NEW s \in sampleOf(p, page, age)
  PROVE  s \in Sample /\ s.pod = p /\ s.age = age /\ \A r \in sampleOf(p, page, age) : r = s
<1> DEFINE busy == lastGauge("busy", page)
           total == lastGauge("total", page)
<1>1. /\ busy # None /\ total # None /\ total # <<0>>
      /\ s = [pod |-> p, value |-> milliPercent(busy[1], total[1]), age |-> age]
      /\ \A r \in sampleOf(p, page, age) : r = s
  BY DEF sampleOf
<1>2. total = <<total[1]>> /\ total[1] \in Nat /\ busy[1] \in Nat
  BY <1>1, MetricsAssumption
<1> HIDE DEF busy, total
<1>3. total[1] # 0
  BY <1>1, <1>2
<1>4. milliPercent(busy[1], total[1]) \in Nat
  BY <1>2, <1>3, Utilisation
<1>5. s.pod = p /\ s.age = age /\ s \in Sample
  BY <1>1, <1>4 DEF Sample
<1> QED
  BY <1>1, <1>5

LEMMA OlderSamples ==
  ASSUME NEW S, S \subseteq Sample
  PROVE  \A s \in Older(S) : \E r \in S : /\ s \in Sample /\ s.pod = r.pod /\ s.age = r.age + 1
                                          /\ s.value = r.value
<1>1. ASSUME NEW s \in Older(S)
      PROVE  \E r \in S : s \in Sample /\ s.pod = r.pod /\ s.age = r.age + 1 /\ s.value = r.value
  <2>1. PICK r \in S : s = [r EXCEPT !.age = @ + 1]
    BY <1>1 DEF Older
  <2>2. r = [pod |-> r.pod, value |-> r.value, age |-> r.age] /\ r.pod \in Pod /\ r.value \in Nat /\ r.age \in Nat
    BY DEF Sample
  <2>3. s = [pod |-> r.pod, value |-> r.value, age |-> r.age + 1]
    BY <2>1, <2>2
  <2>4. s \in Sample /\ s.pod = r.pod /\ s.age = r.age + 1 /\ s.value = r.value
    BY <2>2, <2>3 DEF Sample
  <2> QED
    BY <2>1, <2>4
<1> QED
  BY <1>1

-----------------------------------------------------------------------------
(* The metrics API. *)

LEMMA MetricsConstants ==
  /\ \A p \in Pod : namespaceOf[p] \in Namespace
  /\ Interval \in Nat \ {0} /\ ListTimeout \in Nat /\ ScrapeTimeout \in Nat
  /\ Longest \in Nat /\ Interval <= Longest /\ ListTimeout + ScrapeTimeout <= Longest
  BY MetricsAssumption DEF Longest

LEMMA MetricsInitially == MetricsInit => MetricsFits
<1> SUFFICES ASSUME MetricsInit PROVE MetricsFits
  OBVIOUS
<1>1. MetricsTypeOK
  BY MetricsConstants DEF MetricsInit, MetricsTypeOK
<1>2. SamplesOfLists
  BY DEF MetricsInit, SamplesOfLists
<1>3. CycleClock
  BY MetricsConstants DEF MetricsInit, CycleClock, Under
<1> QED
  BY <1>1, <1>2, <1>3 DEF MetricsFits

LEMMA CycleStartKeeps == MetricsFits /\ CycleStart => MetricsFits'
<1> SUFFICES ASSUME MetricsFits, CycleStart PROVE MetricsFits'
  OBVIOUS
<1>1. MetricsTypeOK /\ SamplesOfLists /\ CycleClock
  BY DEF MetricsFits
<1>2. fresh = {} /\ \A n \in Namespace : stage[n] = "idle"
  BY <1>1 DEF CycleStart, CycleClock
<1>3. asking = {}
  BY <1>1, <1>2, MetricsConstants DEF SamplesOfLists, MetricsTypeOK
<1>4. MetricsTypeOK'
  <2>1. ticker \in [since : 0..(Interval - 1), due : BOOLEAN] /\ ticker' = [ticker EXCEPT !.due = FALSE]
    BY <1>1 DEF CycleStart, MetricsTypeOK
  <2>2. ticker' \in [since : 0..(Interval - 1), due : BOOLEAN]
    BY <2>1
  <2>3. took' \in [Namespace -> 0..(ListTimeout + ScrapeTimeout)]
    BY MetricsConstants DEF CycleStart
  <2>4. stage' \in [Namespace -> {"idle", "listing", "scraping", "done"}]
    BY DEF CycleStart
  <2>5. (fresh \union cache)' \subseteq Sample /\ (\A s, t \in cache : s.pod = t.pod => s = t)'
    BY <1>1 DEF CycleStart, MetricsTypeOK
  <2>6. pods' = pods /\ asking' = asking /\ running' = TRUE /\ alive' = alive
    BY DEF CycleStart
  <2> QED
    BY <1>1, <2>2, <2>3, <2>4, <2>5, <2>6 DEF MetricsTypeOK
<1>5. SamplesOfLists'
  BY <1>1, <1>3 DEF CycleStart, SamplesOfLists
<1>6. CycleClock'
  <2>1. ticker' \in [since : 0..(Interval - 1), due : BOOLEAN] /\ running' = TRUE /\ fresh' = {} /\ cache' = cache
    BY <1>4 DEF MetricsTypeOK, CycleStart
  <2>2. \A n \in Namespace : stage'[n] = "listing" /\ took'[n] = 0
    BY DEF CycleStart
  <2>3. \A s \in cache : s.age \in 0..Longest
    BY <1>1 DEF CycleStart, CycleClock
  <2>4. \A s \in cache : /\ s.age \in 0..(Longest + ListTimeout + ScrapeTimeout)
                         /\ \A n \in Namespace : Under(s.age - Longest, n)'
    BY <2>2, <2>3, MetricsConstants DEF Under
  <2>5. \A n, m \in Namespace : Under(took[n], m)' /\ took'[n] <= ticker.since'
    BY <2>1, <2>2, MetricsConstants DEF Under
  <2> QED
    BY <2>1, <2>2, <2>4, <2>5, MetricsConstants DEF CycleClock
<1> QED
  BY <1>4, <1>5, <1>6 DEF MetricsFits

LEMMA CycleEndKeeps == MetricsFits /\ CycleEnd => MetricsFits'
<1> SUFFICES ASSUME MetricsFits, CycleEnd PROVE MetricsFits'
  OBVIOUS
<1>1. MetricsTypeOK /\ SamplesOfLists /\ CycleClock
  BY DEF MetricsFits
<1>2. /\ running /\ ~running' /\ cache' = fresh /\ fresh' = {} /\ UNCHANGED <<asking, ticker>>
      /\ \A n \in Namespace : stage[n] = "done" /\ stage'[n] = "idle"
  BY DEF CycleEnd, replace
<1>3. asking = {}
  BY <1>1, <1>2, MetricsConstants DEF SamplesOfLists, MetricsTypeOK
<1>4. MetricsTypeOK'
  <2>1. took' \in [Namespace -> 0..(ListTimeout + ScrapeTimeout)]
    BY MetricsConstants DEF CycleEnd
  <2>2. stage' \in [Namespace -> {"idle", "listing", "scraping", "done"}]
    BY DEF CycleEnd
  <2>3. (fresh \union cache)' \subseteq Sample /\ (\A s, t \in cache : s.pod = t.pod => s = t)'
    BY <1>1, <1>2 DEF MetricsTypeOK, SamplesOfLists
  <2>4. pods' = pods /\ running' = FALSE /\ alive' = alive
    BY DEF CycleEnd
  <2> QED
    BY <1>1, <1>2, <2>1, <2>2, <2>3, <2>4 DEF MetricsTypeOK
<1>5. SamplesOfLists'
  BY <1>1, <1>2, <1>3 DEF SamplesOfLists
<1>6. \A s \in fresh : s.age \in 0..Longest /\ (~ticker.due => s.age <= ticker.since)
  BY <1>1, MetricsConstants DEF CycleClock
<1>7. CycleClock'
  BY <1>2, <1>6 DEF CycleClock
<1> QED
  BY <1>4, <1>5, <1>7 DEF MetricsFits

\* Under, of the ages after a step.
UnderNext(age, n) ==
  /\ stage'[n] = "listing" => age <= took'[n]
  /\ stage'[n] = "scraping" => age <= ListTimeout + took'[n]

LEMMA ClockNext ==
  ASSUME \A m \in Namespace :
           /\ stage'[m] = "listing" => took'[m] <= ListTimeout
           /\ stage'[m] = "scraping" => took'[m] <= ScrapeTimeout
           /\ stage'[m] \in {"listing", "scraping"} =>
                /\ ~ticker.due' => took'[m] <= ticker.since'
                /\ \A k \in Namespace : UnderNext(took'[m], k),
         \A s \in fresh' : /\ s.age \in 0..(ListTimeout + ScrapeTimeout)
                           /\ ~ticker.due' => s.age <= ticker.since'
                           /\ \A m \in Namespace : UnderNext(s.age, m),
         running' => \A s \in cache' : /\ s.age \in 0..(Longest + ListTimeout + ScrapeTimeout)
                                       /\ \A m \in Namespace : UnderNext(s.age - Longest, m),
         ~running' => \A s \in cache' : s.age \in 0..Longest /\ (~ticker.due' => s.age <= ticker.since'),
         ~running' => fresh' = {},
         \A m \in Namespace : stage'[m] = "idle" <=> ~running'
  PROVE  CycleClock'
  BY DEF CycleClock, Under, UnderNext

\* The list of a namespace is out, or fails, or its scrapes are over: its stage
\* changes, and its time starts again or stays.
LEMMA ListedKeeps == ASSUME MetricsFits, NEW n \in Namespace, Listed(n) PROVE MetricsFits'
<1>1. MetricsTypeOK /\ SamplesOfLists /\ CycleClock
  BY DEF MetricsFits
<1>2. /\ UNCHANGED <<pods, fresh, running, cache, ticker, alive>> /\ stage[n] = "listing"
      /\ asking' = asking \union {p \in Pod : namespaceOf[p] = n /\ pods[p] = "ready"}
      /\ stage' = [stage EXCEPT ![n] = "scraping"] /\ took' = [took EXCEPT ![n] = 0]
  BY DEF Listed
<1>3. \A m \in Namespace : /\ stage'[m] = IF m = n THEN "scraping" ELSE stage[m]
                           /\ took'[m] = IF m = n THEN 0 ELSE took[m]
  BY <1>1, <1>2 DEF MetricsTypeOK
<1>4. MetricsTypeOK'
  <2>1. took' \in [Namespace -> 0..(ListTimeout + ScrapeTimeout)]
    BY <1>1, <1>2, MetricsConstants DEF MetricsTypeOK
  <2>2. stage' \in [Namespace -> {"idle", "listing", "scraping", "done"}]
    BY <1>1, <1>2 DEF MetricsTypeOK
  <2> QED
    BY <1>1, <1>2, <2>1, <2>2 DEF MetricsTypeOK
<1>5. SamplesOfLists'
  <2>1. \A p \in asking' : stage'[namespaceOf[p]] = "scraping"
    BY <1>1, <1>2, <1>3, MetricsConstants DEF SamplesOfLists, MetricsTypeOK
  <2>2. \A s \in fresh : /\ s.pod \in Pod /\ namespaceOf[s.pod] \in Namespace /\ namespaceOf[s.pod] # n
                         /\ s.pod \notin asking
                         /\ stage[namespaceOf[s.pod]] \in {"scraping", "done"}
                         /\ stage[namespaceOf[s.pod]] = "scraping" => s.age = took[namespaceOf[s.pod]]
    BY <1>1, <1>2, MetricsConstants DEF SamplesOfLists, MetricsTypeOK, Sample
  <2>3. \A s \in fresh : /\ s.pod \notin asking' /\ stage'[namespaceOf[s.pod]] \in {"scraping", "done"}
                         /\ stage'[namespaceOf[s.pod]] = "scraping" => s.age = took'[namespaceOf[s.pod]]
    BY <1>2, <1>3, <2>2
  <2> QED
    BY <1>1, <1>2, <2>1, <2>3 DEF SamplesOfLists
<1>6. CycleClock'
  <2>1. ASSUME NEW age \in Int, \A m \in Namespace : Under(age, m)
        PROVE  \A m \in Namespace : UnderNext(age, m)
    BY <1>1, <1>2, <1>3, <2>1, MetricsConstants DEF CycleClock, MetricsTypeOK, Under, UnderNext
  <2>2. /\ \A s \in fresh : s.age \in Int
        /\ running => \A s \in cache : s.age - Longest \in Int
        /\ \A m \in Namespace : took[m] \in Int
    BY <1>1, MetricsConstants DEF CycleClock, MetricsTypeOK
  <2>3. ASSUME NEW m \in Namespace  PROVE UnderNext(0, m)
    <3>1. took'[m] \in Nat
      BY <1>4, MetricsConstants DEF MetricsTypeOK
    <3> QED
      BY <3>1, MetricsConstants DEF UnderNext
  <2>4. ASSUME NEW m \in Namespace
        PROVE  /\ stage'[m] = "listing" => took'[m] <= ListTimeout
               /\ stage'[m] = "scraping" => took'[m] <= ScrapeTimeout
               /\ stage'[m] \in {"listing", "scraping"} =>
                    /\ ~ticker.due' => took'[m] <= ticker.since'
                    /\ \A k \in Namespace : UnderNext(took'[m], k)
    <3>1. CASE m = n
      <4>1. ticker.since \in Nat /\ ticker' = ticker
        BY <1>1, <1>2, MetricsConstants DEF MetricsTypeOK
      <4> QED
        BY <1>3, <2>3, <3>1, <4>1, MetricsConstants
    <3>2. CASE m # n
      <4>1. stage'[m] = stage[m] /\ took'[m] = took[m] /\ ticker' = ticker
        BY <1>2, <1>3, <3>2
      <4>2. stage[m] \in {"listing", "scraping"} => \A k \in Namespace : UnderNext(took[m], k)
        BY <1>1, <2>1, <2>2 DEF CycleClock
      <4> QED
        BY <1>1, <4>1, <4>2 DEF CycleClock
    <3> QED
      BY <3>1, <3>2
  <2>5. \A m \in Namespace : stage'[m] = "idle" <=> ~running'
    BY <1>1, <1>2, <1>3 DEF CycleClock
  <2>6. \A s \in fresh : \A m \in Namespace : UnderNext(s.age, m)
    BY <1>1, <2>1, <2>2 DEF CycleClock
  <2>7. running => \A s \in cache : \A m \in Namespace : UnderNext(s.age - Longest, m)
    BY <1>1, <2>1, <2>2 DEF CycleClock
  <2>8. /\ \A s \in fresh : /\ s.age \in 0..(ListTimeout + ScrapeTimeout)
                            /\ ~ticker.due => s.age <= ticker.since
        /\ running => \A s \in cache : s.age \in 0..(Longest + ListTimeout + ScrapeTimeout)
        /\ ~running => \A s \in cache : s.age \in 0..Longest /\ (~ticker.due => s.age <= ticker.since)
        /\ ~running => fresh = {}
    BY <1>1 DEF CycleClock
  <2>9. fresh' = fresh /\ cache' = cache /\ running' = running /\ ticker' = ticker
    BY <1>2
  <2> QED
    BY <2>4, <2>5, <2>6, <2>7, <2>8, <2>9, ClockNext
<1> QED
  BY <1>4, <1>5, <1>6 DEF MetricsFits

\* What a step that takes no time, and starts no list again, means to the clock.
LEMMA ClockStays ==
  ASSUME MetricsFits, UNCHANGED <<took, cache, running, ticker>>,
         \A m \in Namespace : stage'[m] = stage[m] \/ (stage[m] # "idle" /\ stage'[m] = "done"),
         \A s \in fresh' : s \in fresh \/ \E n \in Namespace : stage[n] = "scraping" /\ s.age = took[n]
  PROVE  CycleClock'
<1>1. MetricsTypeOK /\ CycleClock
  BY DEF MetricsFits
<1>2. took' = took /\ cache' = cache /\ running' = running /\ ticker' = ticker
  OBVIOUS
<1>3. \A age, m : m \in Namespace /\ Under(age, m) => UnderNext(age, m)
  BY <1>2 DEF Under, UnderNext
<1>4. ASSUME NEW m \in Namespace
      PROVE  /\ stage'[m] = "listing" => took'[m] <= ListTimeout
             /\ stage'[m] = "scraping" => took'[m] <= ScrapeTimeout
             /\ stage'[m] \in {"listing", "scraping"} =>
                  /\ ~ticker.due' => took'[m] <= ticker.since'
                  /\ \A k \in Namespace : UnderNext(took'[m], k)
  <2>1. CASE stage'[m] = stage[m]
    BY <1>1, <1>2, <1>3, <2>1 DEF CycleClock
  <2>2. CASE stage'[m] = "done"
    BY <2>2
  <2> QED
    BY <2>1, <2>2
<1>5. ASSUME NEW s \in fresh'
      PROVE  /\ s.age \in 0..(ListTimeout + ScrapeTimeout)
             /\ ~ticker.due' => s.age <= ticker.since'
             /\ \A m \in Namespace : UnderNext(s.age, m)
  <2>1. CASE s \in fresh
    BY <1>1, <1>2, <1>3, <2>1 DEF CycleClock
  <2>2. ASSUME NEW n \in Namespace, stage[n] = "scraping", s.age = took[n]
        PROVE  /\ s.age \in 0..(ListTimeout + ScrapeTimeout)
               /\ ~ticker.due' => s.age <= ticker.since'
               /\ \A m \in Namespace : UnderNext(s.age, m)
    <3>1. took[n] \in 0..(ListTimeout + ScrapeTimeout)
      BY <1>1 DEF MetricsTypeOK
    <3>2. (~ticker.due => took[n] <= ticker.since) /\ \A m \in Namespace : Under(took[n], m)
      BY <1>1, <2>2 DEF CycleClock
    <3> QED
      BY <1>2, <1>3, <2>2, <3>1, <3>2
  <2> QED
    BY <2>1, <2>2
<1>6. /\ running' => \A s \in cache' : /\ s.age \in 0..(Longest + ListTimeout + ScrapeTimeout)
                                       /\ \A m \in Namespace : UnderNext(s.age - Longest, m)
      /\ ~running' => \A s \in cache' : s.age \in 0..Longest /\ (~ticker.due' => s.age <= ticker.since')
  BY <1>1, <1>2, <1>3 DEF CycleClock
<1>7. \A m \in Namespace : stage'[m] = "idle" <=> ~running'
  BY <1>1, <1>2 DEF CycleClock
<1>8. ~running' => fresh' = {}
  BY <1>1, <1>2 DEF CycleClock
<1> QED
  BY <1>4, <1>5, <1>6, <1>7, <1>8, ClockNext

LEMMA ListFailsKeeps == ASSUME MetricsFits, NEW n \in Namespace, ListFails(n) PROVE MetricsFits'
<1>1. MetricsTypeOK /\ SamplesOfLists
  BY DEF MetricsFits
<1>2. /\ UNCHANGED <<pods, took, asking, fresh, running, cache, ticker, alive>> /\ stage[n] = "listing"
      /\ stage' = [stage EXCEPT ![n] = "done"]
  BY DEF ListFails
<1>3. \A m \in Namespace : stage'[m] = IF m = n THEN "done" ELSE stage[m]
  BY <1>1, <1>2 DEF MetricsTypeOK
<1>4. MetricsTypeOK'
  BY <1>1, <1>2 DEF MetricsTypeOK
<1>5. SamplesOfLists'
  <2>1. \A p \in asking : namespaceOf[p] \in Namespace /\ namespaceOf[p] # n
    BY <1>1, <1>2, MetricsConstants DEF SamplesOfLists, MetricsTypeOK
  <2>2. \A s \in fresh : namespaceOf[s.pod] \in Namespace /\ namespaceOf[s.pod] # n
    BY <1>1, <1>2, MetricsConstants DEF SamplesOfLists, MetricsTypeOK, Sample
  <2> QED
    BY <1>1, <1>2, <1>3, <2>1, <2>2 DEF SamplesOfLists
<1>6. CycleClock'
  BY <1>2, <1>3, ClockStays
<1> QED
  BY <1>4, <1>5, <1>6 DEF MetricsFits

LEMMA NamespaceDoneKeeps == ASSUME MetricsFits, NEW n \in Namespace, NamespaceDone(n) PROVE MetricsFits'
<1>1. MetricsTypeOK /\ SamplesOfLists
  BY DEF MetricsFits
<1>2. /\ UNCHANGED <<pods, took, asking, fresh, running, cache, ticker, alive>> /\ stage[n] = "scraping"
      /\ stage' = [stage EXCEPT ![n] = "done"] /\ \A p \in asking : namespaceOf[p] # n
  BY DEF NamespaceDone
<1>3. \A m \in Namespace : stage'[m] = IF m = n THEN "done" ELSE stage[m]
  BY <1>1, <1>2 DEF MetricsTypeOK
<1>4. MetricsTypeOK'
  BY <1>1, <1>2 DEF MetricsTypeOK
<1>5. SamplesOfLists'
  <2>1. \A p \in asking : namespaceOf[p] \in Namespace /\ namespaceOf[p] # n
    BY <1>1, <1>2, MetricsConstants DEF MetricsTypeOK
  <2>2. \A s \in fresh : namespaceOf[s.pod] \in Namespace
    BY <1>1, MetricsConstants DEF MetricsTypeOK, Sample
  <2> QED
    BY <1>1, <1>2, <1>3, <2>1, <2>2 DEF SamplesOfLists
<1>6. CycleClock'
  BY <1>2, <1>3, ClockStays
<1> QED
  BY <1>4, <1>5, <1>6 DEF MetricsFits

LEMMA ScrapeFailsKeeps == ASSUME MetricsFits, NEW p \in Pod, ScrapeFails(p) PROVE MetricsFits'
<1>1. MetricsTypeOK /\ SamplesOfLists
  BY DEF MetricsFits
<1>2. UNCHANGED <<pods, stage, took, fresh, running, cache, ticker, alive>> /\ asking' = asking \ {p}
  BY DEF ScrapeFails
<1>3. MetricsTypeOK'
  BY <1>1, <1>2 DEF MetricsTypeOK
<1>4. SamplesOfLists'
  BY <1>1, <1>2 DEF SamplesOfLists
<1>5. CycleClock'
  BY <1>2, ClockStays
<1> QED
  BY <1>3, <1>4, <1>5 DEF MetricsFits

\* A pod answers with one sample, as old as the list of its namespace.
LEMMA ScrapedKeeps == ASSUME MetricsFits, NEW p \in Pod, NEW page \in Page, Scraped(p, page) PROVE MetricsFits'
<1> DEFINE n == namespaceOf[p]
           new == sampleOf(p, page, took[n])
<1>1. MetricsTypeOK /\ SamplesOfLists /\ n \in Namespace
  BY MetricsConstants DEF MetricsFits
<1>2. /\ UNCHANGED <<pods, stage, took, running, cache, ticker, alive>> /\ p \in asking
      /\ asking' = asking \ {p} /\ fresh' = fresh \union new
  BY DEF Scraped
<1>3. stage[n] = "scraping" /\ took[n] \in Nat
  BY <1>1, <1>2, MetricsConstants DEF SamplesOfLists, MetricsTypeOK
<1>4. \A s \in new : s \in Sample /\ s.pod = p /\ s.age = took[n] /\ \A r \in new : r = s
  BY <1>3, SampleOfPage
<1> HIDE DEF new
<1>5. MetricsTypeOK'
  BY <1>1, <1>2, <1>4 DEF MetricsTypeOK
<1>6. SamplesOfLists'
  <2>1. \A s \in fresh : /\ s.pod \in Pod /\ namespaceOf[s.pod] \in Namespace /\ s.pod # p
                         /\ s.pod \notin asking /\ stage[namespaceOf[s.pod]] \in {"scraping", "done"}
                         /\ stage[namespaceOf[s.pod]] = "scraping" => s.age = took[namespaceOf[s.pod]]
    BY <1>1, <1>2, MetricsConstants DEF SamplesOfLists, MetricsTypeOK, Sample
  <2>2. \A q \in asking' : stage'[namespaceOf[q]] = "scraping"
    BY <1>1, <1>2 DEF SamplesOfLists
  <2>3. \A s \in fresh' : /\ s.pod \notin asking' /\ stage[namespaceOf[s.pod]] \in {"scraping", "done"}
                          /\ stage[namespaceOf[s.pod]] = "scraping" => s.age = took[namespaceOf[s.pod]]
    BY <1>2, <1>3, <1>4, <2>1
  <2>4. \A s, t \in fresh' : namespaceOf[s.pod] = namespaceOf[t.pod] => s.age = t.age
    <3>1. ASSUME NEW s \in fresh, NEW t \in new, namespaceOf[s.pod] = namespaceOf[t.pod]  PROVE s.age = t.age
      BY <1>3, <1>4, <2>1, <3>1
    <3>2. \A s, t \in fresh : namespaceOf[s.pod] = namespaceOf[t.pod] => s.age = t.age
      BY <1>1 DEF SamplesOfLists
    <3> QED
      BY <1>2, <1>4, <3>1, <3>2
  <2>5. \A s, t \in fresh' : s.pod = t.pod => s = t
    BY <1>1, <1>2, <1>4, <2>1 DEF SamplesOfLists
  <2>6. \A s, t \in cache' : namespaceOf[s.pod] = namespaceOf[t.pod] => s.age = t.age
    BY <1>1, <1>2 DEF SamplesOfLists
  <2> QED
    BY <1>2, <2>2, <2>3, <2>4, <2>5, <2>6 DEF SamplesOfLists
<1>7. CycleClock'
  BY <1>1, <1>2, <1>3, <1>4, ClockStays
<1> QED
  BY <1>5, <1>6, <1>7 DEF MetricsFits

\* Time passes: everything that counts it counts one tick more, and the beat of the
\* ticker waits from when it is due.
LEMMA TickCounts ==
  ASSUME MetricsFits, MetricsTick
  PROVE  /\ \A n \in Namespace :
              /\ stage'[n] = stage[n]
              /\ took'[n] = IF stage[n] \in {"listing", "scraping"} THEN took[n] + 1 ELSE took[n]
         /\ \A s \in fresh' : \E r \in fresh : s \in Sample /\ s.pod = r.pod /\ s.age = r.age + 1 /\ s.value = r.value
         /\ \A s \in cache' : \E r \in cache : s \in Sample /\ s.pod = r.pod /\ s.age = r.age + 1 /\ s.value = r.value
         /\ ticker' \in [since : 0..(Interval - 1), due : BOOLEAN]
         /\ ~ticker.due' => ~ticker.due /\ ticker.since' = ticker.since + 1
<1>1. MetricsTypeOK
  BY DEF MetricsFits
<1>2. \A n \in Namespace :
        /\ stage'[n] = stage[n]
        /\ took'[n] = IF stage[n] \in {"listing", "scraping"} THEN took[n] + 1 ELSE took[n]
  BY DEF MetricsTick
<1>3. fresh' = Older(fresh) /\ cache' = Older(cache) /\ fresh \subseteq Sample /\ cache \subseteq Sample
  BY <1>1 DEF MetricsTick, MetricsTypeOK
<1>4. /\ ticker \in [since : 0..(Interval - 1), due : BOOLEAN]
      /\ ticker' = IF ticker.since + 1 = Interval THEN [since |-> 0, due |-> TRUE]
                   ELSE [ticker EXCEPT !.since = @ + 1]
  BY <1>1 DEF MetricsTick, MetricsTypeOK
<1>5. CASE ticker.since + 1 = Interval
  <2>1. ticker' = [since |-> 0, due |-> TRUE]
    BY <1>4, <1>5
  <2> QED
    BY <1>2, <1>3, <2>1, OlderSamples, MetricsConstants
<1>6. CASE ticker.since + 1 # Interval
  <2>1. ticker' = [since |-> ticker.since + 1, due |-> ticker.due]
    BY <1>4, <1>6
  <2>2. ticker.since + 1 \in 0..(Interval - 1) /\ ticker.due \in BOOLEAN
    BY <1>4, <1>6, MetricsConstants
  <2> QED
    BY <1>2, <1>3, <2>1, <2>2, OlderSamples
<1> QED
  BY <1>5, <1>6

LEMMA MetricsTickKeeps == ASSUME MetricsFits, MetricsTick PROVE MetricsFits'
<1>1. MetricsTypeOK /\ SamplesOfLists /\ CycleClock
  BY DEF MetricsFits
<1>2. /\ \A n \in Namespace :
           /\ stage'[n] = stage[n]
           /\ took'[n] = IF stage[n] \in {"listing", "scraping"} THEN took[n] + 1 ELSE took[n]
           /\ took[n] \in 0..(ListTimeout + ScrapeTimeout)
           /\ stage[n] = "listing" => took[n] < ListTimeout
           /\ stage[n] = "scraping" => took[n] < ScrapeTimeout
      /\ UNCHANGED <<pods, stage, asking, running, alive>>
  BY <1>1, TickCounts DEF MetricsTick, MetricsTypeOK
<1>3. /\ running \/ ~ticker.due
      /\ running => \E n \in Namespace : stage[n] # "done"
  BY DEF MetricsTick
<1>4. MetricsTypeOK'
  <2>1. took' \in [Namespace -> 0..(ListTimeout + ScrapeTimeout)]
    <3>1. took' = [n \in Namespace |-> took'[n]]
      BY DEF MetricsTick
    <3>2. \A n \in Namespace : took'[n] \in 0..(ListTimeout + ScrapeTimeout)
      BY <1>2, MetricsConstants
    <3> QED
      BY <3>1, <3>2
  <2>2. \A s \in fresh' \union cache' : s \in Sample
    BY TickCounts
  <2>3. \A s, t \in cache' : s.pod = t.pod => s = t
    <3>1. ASSUME NEW s \in cache', NEW t \in cache', s.pod = t.pod  PROVE s = t
      <4>1. PICK q \in cache : s = [q EXCEPT !.age = @ + 1]
        BY DEF MetricsTick, Older
      <4>2. PICK r \in cache : t = [r EXCEPT !.age = @ + 1]
        BY DEF MetricsTick, Older
      <4>3. q \in Sample /\ r \in Sample
        BY <1>1 DEF MetricsTypeOK
      <4>4. s.pod = q.pod /\ t.pod = r.pod
        BY <4>1, <4>2, <4>3 DEF Sample
      <4>5. q = r
        BY <1>1, <3>1, <4>4 DEF MetricsTypeOK
      <4> QED
        BY <4>1, <4>2, <4>5
    <3> QED
      BY <3>1
  <2>4. fresh' \union cache' \subseteq Sample
    BY <2>2
  <2>5. ticker' \in [since : 0..(Interval - 1), due : BOOLEAN]
    BY TickCounts
  <2> QED
    BY <1>1, <1>2, <2>1, <2>3, <2>4, <2>5 DEF MetricsTypeOK
<1>5. SamplesOfLists'
  <2>1. ASSUME NEW s \in fresh'
        PROVE  /\ s.pod \notin asking' /\ stage'[namespaceOf[s.pod]] \in {"scraping", "done"}
               /\ stage'[namespaceOf[s.pod]] = "scraping" => s.age = took'[namespaceOf[s.pod]]
    <3>1. PICK r \in fresh : s.pod = r.pod /\ s.age = r.age + 1
      BY TickCounts
    <3>2. /\ r.pod \notin asking /\ stage[namespaceOf[r.pod]] \in {"scraping", "done"}
          /\ stage[namespaceOf[r.pod]] = "scraping" => r.age = took[namespaceOf[r.pod]]
          /\ namespaceOf[r.pod] \in Namespace
      BY <1>1, MetricsConstants DEF SamplesOfLists, MetricsTypeOK, Sample
    <3> QED
      BY <1>2, <3>1, <3>2
  <2>2. ASSUME NEW s \in fresh', NEW t \in fresh', s.pod = t.pod  PROVE s = t
    <3>1. PICK q \in fresh : s = [q EXCEPT !.age = @ + 1]
      BY DEF MetricsTick, Older
    <3>2. PICK r \in fresh : t = [r EXCEPT !.age = @ + 1]
      BY DEF MetricsTick, Older
    <3>3. q \in Sample /\ r \in Sample
      BY <1>1 DEF MetricsTypeOK
    <3>4. s.pod = q.pod /\ t.pod = r.pod
      BY <3>1, <3>2, <3>3 DEF Sample
    <3>5. q = r
      <4>1. \A a, b \in fresh : a.pod = b.pod => a = b
        BY <1>1 DEF SamplesOfLists
      <4>2. q.pod = r.pod
        BY <2>2, <3>4
      <4> QED
        BY <4>1, <4>2
    <3> QED
      BY <3>1, <3>2, <3>5
  <2>3. ASSUME NEW s \in fresh', NEW t \in fresh', namespaceOf[s.pod] = namespaceOf[t.pod]  PROVE s.age = t.age
    <3>1. PICK q \in fresh : s.pod = q.pod /\ s.age = q.age + 1
      BY TickCounts
    <3>2. PICK r \in fresh : t.pod = r.pod /\ t.age = r.age + 1
      BY TickCounts
    <3>3. q.age = r.age
      BY <1>1, <2>3, <3>1, <3>2 DEF SamplesOfLists
    <3> QED
      BY <3>1, <3>2, <3>3
  <2>4. ASSUME NEW s \in cache', NEW t \in cache', namespaceOf[s.pod] = namespaceOf[t.pod]  PROVE s.age = t.age
    <3>1. PICK q \in cache : s.pod = q.pod /\ s.age = q.age + 1
      BY TickCounts
    <3>2. PICK r \in cache : t.pod = r.pod /\ t.age = r.age + 1
      BY TickCounts
    <3>3. q.age = r.age
      BY <1>1, <2>4, <3>1, <3>2 DEF SamplesOfLists
    <3> QED
      BY <3>1, <3>2, <3>3
  <2>5. \A p \in asking' : stage'[namespaceOf[p]] = "scraping"
    BY <1>1, <1>2 DEF SamplesOfLists
  <2> QED
    BY <2>1, <2>2, <2>3, <2>4, <2>5 DEF SamplesOfLists
<1>6. CycleClock'
  <2>1. \A age, m : m \in Namespace /\ age \in Int /\ Under(age, m) => UnderNext(age + 1, m)
    BY <1>2, MetricsConstants DEF Under, UnderNext
  <2>2. running => \E n \in Namespace : stage[n] \in {"listing", "scraping"}
    BY <1>1, <1>3 DEF CycleClock, MetricsTypeOK
  <2>3. ASSUME NEW m \in Namespace
        PROVE  /\ stage'[m] = "listing" => took'[m] <= ListTimeout
               /\ stage'[m] = "scraping" => took'[m] <= ScrapeTimeout
               /\ stage'[m] \in {"listing", "scraping"} =>
                    /\ ~ticker.due' => took'[m] <= ticker.since'
                    /\ \A k \in Namespace : UnderNext(took'[m], k)
    <3>1. CASE stage[m] \in {"listing", "scraping"}
      <4>1. took'[m] = took[m] + 1 /\ stage'[m] = stage[m] /\ took[m] \in Nat
        BY <1>2, <3>1, MetricsConstants
      <4>2. (~ticker.due => took[m] <= ticker.since) /\ \A k \in Namespace : Under(took[m], k)
        BY <1>1, <3>1 DEF CycleClock
      <4>3. ticker.since \in Nat
        BY <1>1, MetricsConstants DEF MetricsTypeOK
      <4>4. \A k \in Namespace : UnderNext(took'[m], k)
        BY <2>1, <4>1, <4>2
      <4>5. ~ticker.due' => took'[m] <= ticker.since'
        BY <4>1, <4>2, <4>3, TickCounts
      <4> QED
        BY <1>2, <4>1, <4>4, <4>5, MetricsConstants
    <3>2. CASE stage[m] \notin {"listing", "scraping"}
      BY <1>2, <3>2
    <3> QED
      BY <3>1, <3>2
  <2>4. ASSUME NEW s \in fresh'
        PROVE  /\ s.age \in 0..(ListTimeout + ScrapeTimeout)
               /\ ~ticker.due' => s.age <= ticker.since'
               /\ \A m \in Namespace : UnderNext(s.age, m)
    <3>1. PICK r \in fresh : s.age = r.age + 1
      BY TickCounts
    <3>2. /\ r.age \in 0..(ListTimeout + ScrapeTimeout) /\ (~ticker.due => r.age <= ticker.since)
          /\ \A m \in Namespace : Under(r.age, m)
          /\ running /\ ticker.since \in Nat
      BY <1>1, MetricsConstants DEF CycleClock, MetricsTypeOK
    <3>3. PICK n \in Namespace : stage[n] \in {"listing", "scraping"}
      BY <2>2, <3>2
    <3>4. r.age + 1 <= ListTimeout + ScrapeTimeout
      BY <1>2, <3>2, <3>3, MetricsConstants DEF Under
    <3>5. ~ticker.due' => s.age <= ticker.since'
      BY <3>1, <3>2, TickCounts
    <3>6. \A m \in Namespace : UnderNext(s.age, m)
      BY <2>1, <3>1, <3>2, MetricsConstants
    <3> QED
      BY <3>1, <3>2, <3>4, <3>5, <3>6, MetricsConstants
  <2>5. ASSUME running', NEW s \in cache'
        PROVE  /\ s.age \in 0..(Longest + ListTimeout + ScrapeTimeout)
               /\ \A m \in Namespace : UnderNext(s.age - Longest, m)
    <3>1. PICK r \in cache : s.age = r.age + 1
      BY TickCounts
    <3>2. /\ r.age \in 0..(Longest + ListTimeout + ScrapeTimeout)
          /\ \A m \in Namespace : Under(r.age - Longest, m)
      BY <1>1, <1>2, <2>5 DEF CycleClock
    <3>3. PICK n \in Namespace : stage[n] \in {"listing", "scraping"}
      BY <1>2, <2>2, <2>5
    <3>4. r.age + 1 <= Longest + ListTimeout + ScrapeTimeout
      BY <1>2, <3>2, <3>3, MetricsConstants DEF Under
    <3>5. r.age - Longest \in Int /\ s.age - Longest = (r.age - Longest) + 1
      BY <3>1, <3>2, MetricsConstants
    <3>6. \A m \in Namespace : UnderNext(s.age - Longest, m)
      BY <2>1, <3>2, <3>5
    <3> QED
      BY <3>1, <3>2, <3>4, <3>6, MetricsConstants
  <2>6. ASSUME ~running', NEW s \in cache'
        PROVE  s.age \in 0..Longest /\ (~ticker.due' => s.age <= ticker.since')
    <3>1. PICK r \in cache : s.age = r.age + 1
      BY TickCounts
    <3>2. ~running /\ ~ticker.due
      BY <1>2, <1>3, <2>6
    <3>3. r.age \in 0..Longest /\ r.age <= ticker.since /\ ticker.since \in 0..(Interval - 1)
      BY <1>1, <3>2 DEF CycleClock, MetricsTypeOK
    <3> QED
      BY <3>1, <3>3, TickCounts, MetricsConstants
  <2>7. ~running' => fresh' = {}
    <3>1. ~running => fresh = {}
      BY <1>1 DEF CycleClock
    <3> QED
      BY <1>2, <3>1, TickCounts
  <2>8. \A m \in Namespace : stage'[m] = "idle" <=> ~running'
    BY <1>1, <1>2 DEF CycleClock
  <2> QED
    BY <2>3, <2>4, <2>5, <2>6, <2>7, <2>8, ClockNext
<1> QED
  BY <1>4, <1>5, <1>6 DEF MetricsFits

LEMMA StepKeepsMetrics == MetricsFits /\ [MetricsNext]_metricsVars => MetricsFits'
<1> SUFFICES ASSUME MetricsFits, [MetricsNext]_metricsVars PROVE MetricsFits'
  OBVIOUS
<1>1. CASE CycleStep
  BY <1>1, CycleStartKeeps, CycleEndKeeps, ListedKeeps, ListFailsKeeps, NamespaceDoneKeeps, ScrapeFailsKeeps,
     ScrapedKeeps DEF CycleStep
<1>2. CASE MetricsTick
  BY <1>2, MetricsTickKeeps
<1>3. ASSUME /\ UNCHANGED <<scrapeVars, cache, ticker>> /\ alive' \in BOOLEAN
             /\ pods' \in [Pod -> {"absent", "unready", "ready"}]
      PROVE  MetricsFits'
  <2>1. MetricsTypeOK /\ SamplesOfLists
    BY DEF MetricsFits
  <2>2. UNCHANGED <<stage, took, asking, fresh, running, cache, ticker>>
    BY <1>3 DEF scrapeVars
  <2>3. MetricsTypeOK' /\ SamplesOfLists'
    BY <1>3, <2>1, <2>2 DEF MetricsTypeOK, SamplesOfLists
  <2>4. CycleClock'
    BY <2>2, ClockStays
  <2> QED
    BY <2>3, <2>4 DEF MetricsFits
<1>4. CASE CancelScraper \/ (\E p \in Pod : PodChanges(p)) \/ UNCHANGED metricsVars
  <2>1. MetricsTypeOK
    BY DEF MetricsFits
  <2> QED
    BY <1>3, <1>4, <2>1 DEF CancelScraper, PodChanges, metricsVars, MetricsTypeOK
<1> QED
  BY <1>1, <1>2, <1>4 DEF MetricsNext

LEMMA MetricsFitsTells == MetricsFits => MetricsInv
<1> SUFFICES ASSUME MetricsFits PROVE MetricsInv
  OBVIOUS
<1>1. MetricsTypeOK /\ SamplesOfLists /\ CycleClock
  BY DEF MetricsFits
<1>2. SamplesAreFresh
  <2>1. ASSUME NEW s \in cache  PROVE s.age <= Longest + ListTimeout + ScrapeTimeout
    <3>1. CASE running
      BY <1>1, <3>1, MetricsConstants DEF CycleClock
    <3>2. CASE ~running
      BY <1>1, <3>2, MetricsConstants DEF CycleClock
    <3> QED
      BY <3>1, <3>2
  <2> QED
    BY <2>1 DEF SamplesAreFresh
<1>3. AnswersOfOneCycle
  <2>1. ASSUME NEW n \in Namespace, NEW w,
               NEW s \in GetMetricBySelector(n, w, "funrun_isolate_utilization")
        PROVE  /\ \A t \in GetMetricBySelector(n, w, "funrun_isolate_utilization") : s.age = t.age
               /\ GetMetricByName(s.pod, "funrun_isolate_utilization") = {s}
    BY <1>1, <2>1 DEF GetMetricBySelector, GetMetricByName, SamplesOfLists, MetricsTypeOK
  <2> QED
    BY <2>1 DEF AnswersOfOneCycle
<1> QED
  BY <1>1, <1>2, <1>3 DEF MetricsInv

\* However many namespaces and pods there are, and however long lists and scrapes
\* take, the autoscaler reads utilisations that are fresh and of one cycle (scrapeAll,
\* replace).
THEOREM MetricsInvariance == MetricsSpec => []MetricsInv
  BY MetricsInitially, StepKeepsMetrics, MetricsFitsTells, PTL DEF MetricsSpec
===============================================================================
