------------------------------- MODULE Election -------------------------------
(***************************************************************************)
(* The election controller of bigbrain for one deployment, over the        *)
(* replicas of BackendRole.                                                *)
(*                                                                         *)
(* The controller reconciles in rounds: it lists the pods, polls each for  *)
(* its leadership, decides, and acts: it publishes the leader, and starts  *)
(* at most one promotion and one series of demotions in goroutines that    *)
(* outlive the round.  Everything it knows is old when it uses it: a poll  *)
(* may be answered before, and a promotion sent before arrive after, the   *)
(* decision; a request it gave up on may still be in the network.          *)
(*                                                                         *)
(* Abstracted: time is counted in rounds (GraceTicks for                   *)
(* UnreachableLeaderGrace, StabilityTicks for FailbackStability); the      *)
(* time an entry of transitioningSeen is old is 0 when it was made after   *)
(* the present round began to poll.  Losses, crashes, unhealthy tailers    *)
(* and the like come out of a budget of MaxFaults.                         *)
(***************************************************************************)
EXTENDS BackendRole, Decide, Sequences

CONSTANTS
  PromoteDebounce,  \* leaderless rounds before the controller acts
  EmptyDebounce,    \* EmptyDiscoveryDebounce
  GraceTicks,       \* UnreachableLeaderGrace
  MaxFaults,        \* bound on the faults of a behaviour
  MaxRestarts       \* a restart count is known modulo this

ASSUME ElectionAssumption ==
  /\ Pod \subseteq Nat \ {NoPod} /\ Priority \in [Pod -> Nat]
  /\ {PromoteDebounce, EmptyDebounce, GraceTicks, MaxRestarts} \subseteq Nat \ {0}
  /\ MaxFaults \in Nat

VARIABLES
  restarts,   \* restart count of the backend container of a pod
  faults,     \* faults that may still happen
  phase,      \* what the reconcile loop does
  obs,        \* the observations of this round, by listed pod
  polled,     \* the pods whose poll is over
  seen,       \* transitioningSeen: age of the entry, Forgotten if none
  streak,     \* leaderlessStreak
  empty,      \* emptyStreak
  incumbent,  \* incumbentPod, and the leader the registry publishes
  unreached,  \* rounds since incumbentUnreachableSince, 0 if zero
  failback,   \* failback state
  attempts,   \* promoteAttempts, least recent first
  rpc,        \* the promote call of the actuation goroutine
  stray,      \* pods with a promote request in flight that was given up
  targets,    \* the demotions that are left to the demoting goroutine
  late        \* demote requests in flight that were given up

roundVars == <<phase, obs, polled>>
memoryVars == <<seen, streak, empty, incumbent, unreached, failback, attempts>>
callVars == <<rpc, stray, targets, late>>
vars == <<lease, role, task, held, preempt, probes, verified, restarts, faults,
          phase, obs, polled, seen, streak, empty, incumbent, unreached,
          failback, attempts, rpc, stray, targets, late>>

Forgotten == GraceTicks + 1
NoCall == [pod |-> NoPod, stage |-> "none"]
Calls == [pod : Pod, stage : {"dial", "written", "replied", "broken"}] \union {NoCall}
Demotion == [pod : Pod, lease : Nat]

Unreachable(p) ==
  [reach |-> FALSE, isLeader |-> FALSE, promoting |-> FALSE, lease |-> 0,
   unverified |-> FALSE, healthy |-> FALSE, latest |-> 0, restarts |-> restarts[p],
   wasTransitioning |-> FALSE]

NoRound == [p \in {} |-> Unreachable(p)]

ElectionTypeOK ==
  /\ RoleTypeOK
  /\ restarts \in [Pod -> 0..(MaxRestarts - 1)]
  /\ faults \in 0..MaxFaults
  /\ phase \in {"idle", "poll", "decide"}
  /\ \E S \in SUBSET Pod : obs \in [S -> Observation] /\ polled \subseteq S
  /\ seen \in [Pod -> 0..Forgotten]
  /\ streak \in 0..PromoteDebounce /\ empty \in 0..EmptyDebounce
  /\ incumbent \in Pod \union {NoPod}
  /\ unreached \in 0..Forgotten
  /\ failback \in [candidate : Pod \union {NoPod}, restarts : Nat, age : 0..StabilityTicks]
  /\ attempts \in Seq(Pod)
  /\ rpc \in Calls /\ stray \subseteq Pod
  /\ targets \subseteq Demotion /\ late \subseteq Demotion

Init ==
  /\ RoleInit
  /\ restarts = [p \in Pod |-> 0] /\ faults = MaxFaults
  /\ phase = "idle" /\ obs = NoRound /\ polled = {}
  /\ seen = [p \in Pod |-> Forgotten]
  /\ streak = 0 /\ empty = 0 /\ incumbent = NoPod /\ unreached = 0
  /\ failback = NoFailback /\ attempts = <<>>
  /\ rpc = NoCall /\ stray = {}
  /\ targets = {} /\ late = {}

Spend == faults > 0 /\ faults' = faults - 1
Free == UNCHANGED faults

AtMost(n, bound) == IF n <= bound THEN n ELSE bound

-----------------------------------------------------------------------------
(* The replicas. *)

ReplicaRuns(p) ==
  /\ \/ BootFollower(p) \/ FollowerReady(p) \/ TaskStep(p)
     \/ WatchHeld(p) \/ WatchLost(p) \/ CommitFenced(p)
  /\ Free
  /\ UNCHANGED <<restarts, roundVars, memoryVars, callVars>>

ReplicaFails(p) ==
  /\ TaskFault(p) \/ WatchTransient(p) \/ WatchNonTransient(p)
  /\ Spend
  /\ UNCHANGED <<restarts, roundVars, memoryVars, callVars>>

\* Its connections break: what was written on them and not handled is lost.
ReplicaStops(p) ==
  /\ (Exit(p) /\ Free) \/ (Crash(p) /\ Spend)
  /\ restarts' = [restarts EXCEPT ![p] = (@ + 1) % MaxRestarts]
  /\ rpc' = IF rpc = [pod |-> p, stage |-> "written"] THEN [rpc EXCEPT !.stage = "broken"]
            ELSE rpc
  /\ stray' = stray \ {p}
  /\ late' = {m \in late : m.pod # p}
  /\ UNCHANGED <<roundVars, memoryVars, targets>>

-----------------------------------------------------------------------------
(* A round of the reconcile loop. *)

\* Time passes between the beginnings of two rounds.
Tick ==
  /\ seen' = [p \in Pod |-> AtMost(seen[p] + 1, Forgotten)]
  /\ unreached' = IF unreached = 0 THEN 0 ELSE AtMost(unreached + 1, Forgotten)

DiscoverFails ==
  /\ phase = "idle"
  /\ Spend /\ Tick
  /\ failback' = NoFailback
  /\ UNCHANGED <<roleVars, restarts, roundVars, streak, empty, incumbent, attempts, callVars>>

\* The pods listed, with their restart counts; the polls begin.
Discover ==
  /\ phase = "idle"
  /\ \E S \in SUBSET Pod :
       /\ IF S = Pod THEN Free ELSE Spend
       /\ obs' = [p \in S |-> Unreachable(p)]
  /\ phase' = "poll" /\ polled' = {}
  /\ Tick
  /\ failback' = IF failback = NoFailback THEN failback
                 ELSE [failback EXCEPT !.age = AtMost(@ + 1, StabilityTicks)]
  /\ UNCHANGED <<roleVars, restarts, streak, empty, incumbent, attempts, callVars>>

\* GET /instance/leadership; a follower's tailer may be unhealthy or behind.
Answer(p, ok) ==
  [reach |-> TRUE, isLeader |-> role[p] = "leader", promoting |-> role[p] = "promoting",
   lease |-> ReportedLease(p), unverified |-> role[p] = "leader" /\ ~verified[p],
   healthy |-> role[p] = "follower" /\ ok, latest |-> IF ok THEN 1 ELSE 0,
   restarts |-> obs[p].restarts, wasTransitioning |-> FALSE]

Poll(p) ==
  /\ phase = "poll" /\ p \in DOMAIN obs \ polled
  /\ \/ Serving(p) /\ Free /\ obs' = [obs EXCEPT ![p] = Answer(p, TRUE)]
     \/ role[p] = "follower" /\ Spend /\ obs' = [obs EXCEPT ![p] = Answer(p, FALSE)]
     \/ (IF Serving(p) THEN Spend ELSE Free) /\ UNCHANGED obs
  /\ polled' = polled \union {p}
  /\ UNCHANGED <<roleVars, restarts, phase, memoryVars, callVars>>

\* rememberTransitions.  A poll older than the entry does not clear it.
Remember ==
  /\ phase = "poll" /\ polled = DOMAIN obs
  /\ phase' = "decide"
  /\ obs' = [p \in DOMAIN obs |->
               IF obs[p].reach THEN obs[p]
               ELSE [obs[p] EXCEPT !.wasTransitioning = seen[p] # Forgotten]]
  /\ seen' = [p \in Pod |->
               IF p \notin DOMAIN obs \/ ~obs[p].reach \/ seen[p] = 0 THEN seen[p]
               ELSE IF isTransitioning(obs[p]) THEN 1 ELSE Forgotten]
  /\ UNCHANGED <<roleVars, restarts, faults, polled, streak, empty, incumbent,
                 unreached, failback, attempts, callVars>>

-----------------------------------------------------------------------------
(* Acting on the decision. *)

EndRound ==
  /\ phase' = "idle" /\ obs' = NoRound /\ polled' = {}
  /\ UNCHANGED <<roleVars, restarts, faults, seen, stray, late>>

\* Mutant: a decision from polls older than an accepted promotion actuates.
mayPromote_StalePoll == rpc = NoCall

\* tryAcquirePromote: no promote call is out, and none ended since the polls.
mayPromote == rpc = NoCall /\ \A p \in Pod : seen[p] # 0

StartPromote(p) == rpc' = [pod |-> p, stage |-> "dial"]

attempted == [p \in Pod |-> IF \E i \in DOMAIN attempts : attempts[i] = p
                            THEN CHOOSE i \in DOMAIN attempts : attempts[i] = p ELSE 0]

recordPromoteAttempt(p) ==
  LET i == attempted[p]
      others == IF i = 0 THEN attempts
                ELSE SubSeq(attempts, 1, i - 1) \o SubSeq(attempts, i + 1, Len(attempts))
  IN  attempts' = Append(others, p)

\* No pod listed: after EmptyDebounce rounds, no leader is published.
ActEmpty ==
  /\ phase = "decide" /\ DOMAIN obs = {}
  /\ EndRound
  /\ empty' = AtMost(empty + 1, EmptyDebounce)
  /\ IF empty' = EmptyDebounce
     THEN streak' = 0 /\ incumbent' = NoPod
     ELSE UNCHANGED <<streak, incumbent>>
  /\ failback' = NoFailback
  /\ UNCHANGED <<unreached, attempts, rpc, targets>>

\* commitState of a round without a live claim.
CommitLeaderless ==
  /\ empty' = 0
  /\ streak' = IF anyTransitioning(obs) THEN streak ELSE AtMost(streak + 1, PromoteDebounce)
  /\ unreached' = IF ~incumbentDiscoveredUnreachable(obs, incumbent) THEN 0
                  ELSE IF unreached = 0 THEN 1 ELSE unreached
  /\ failback' = retainedFailback(obs, failback)

\* The incumbent stays published: within the debounce, or unreachable for less
\* than the grace, or while an earlier promote call holds the new one back.
Retain ==
  /\ \/ streak' < PromoteDebounce
     \/ unreached' \in 1..GraceTicks
     \/ ~anyTransitioning(obs) /\ promotable(obs) # {} /\ ~mayPromote
  /\ UNCHANGED <<incumbent, attempts, rpc>>

\* It is dropped, and the best candidate if there is one is promoted.
Replace ==
  /\ streak' = PromoteDebounce /\ unreached' \notin 1..GraceTicks
  /\ incumbent' = NoPod
  /\ IF anyTransitioning(obs) \/ promotable(obs) = {}
     THEN UNCHANGED <<attempts, rpc>>
     ELSE \E p \in Pod :
            /\ BestCandidate(obs, attempted, p)
            /\ mayPromote
            /\ StartPromote(p) /\ recordPromoteAttempt(p)

ActLeaderless ==
  /\ phase = "decide" /\ DOMAIN obs # {} /\ claimedLeaders(obs) = {}
  /\ EndRound
  /\ CommitLeaderless
  /\ Retain \/ Replace
  /\ UNCHANGED targets

\* Mutant: the demotion names no lease.
demotions_NoLease(leader) ==
  {[pod |-> q, lease |-> 0] : q \in claimedLeaders(obs) \ {leader}}

demotions(leader) ==
  {[pod |-> q, lease |-> obs[q].lease] : q \in claimedLeaders(obs) \ {leader}}

\* Mutant: a live leader does not end the leaderless streak.
CommitLed_KeepsStreak ==
  empty' = 0 /\ unreached' = 0 /\ attempts' = <<>> /\ UNCHANGED streak

\* commitState of a round with a live claim.
CommitLed == empty' = 0 /\ streak' = 0 /\ unreached' = 0 /\ attempts' = <<>>

\* The best claim is published and the others demoted; a replica of higher
\* priority that has been fit for long enough takes over from a sole leader.
ActLed ==
  /\ phase = "decide" /\ claimedLeaders(obs) # {}
  /\ EndRound
  /\ CommitLed
  /\ \E leader \in Pod :
       /\ PickLeader(obs, leader)
       /\ incumbent' = leader
       /\ targets' = IF targets = {} THEN demotions(leader) ELSE targets
       /\ IF ~FailbackEnabled \/ failbackCandidates(obs, leader) = {}
          THEN failback' = NoFailback /\ UNCHANGED rpc
          ELSE \E p \in Pod :
                 /\ BestFailbackCandidate(obs, leader, p)
                 /\ LET next == nextFailback(obs, failback, p)
                    IN  IF /\ failbackDue(next) /\ mayPromote
                           /\ claimedLeaders(obs) = {leader} /\ ~anyTransitioning(obs)
                        THEN failback' = [next EXCEPT !.age = 0] /\ StartPromote(p)
                        ELSE failback' = next /\ UNCHANGED rpc

Act == ActEmpty \/ ActLeaderless \/ ActLed

-----------------------------------------------------------------------------
(* The promote call. *)

\* markTransitioning, then release.
CallEnds == rpc' = NoCall /\ seen' = [seen EXCEPT ![rpc.pod] = 0]

callFrame == <<restarts, roundVars, streak, empty, incumbent, unreached, failback,
               attempts, targets, late>>

\* Nothing was written: nobody answers, or the request is refused.
PromoteUnsent ==
  /\ rpc.stage = "dial"
  /\ IF Serving(rpc.pod) THEN Spend ELSE Free
  /\ rpc' = NoCall
  /\ UNCHANGED <<roleVars, seen, stray, callFrame>>

PromoteWritten ==
  /\ rpc.stage = "dial" /\ Serving(rpc.pod)
  /\ rpc' = [rpc EXCEPT !.stage = "written"]
  /\ UNCHANGED <<roleVars, faults, seen, stray, callFrame>>

\* POST /instance/promote on the replica.
Promote(p) == IF role[p] = "follower" THEN BeginPromotion(p) ELSE UNCHANGED roleVars

PromoteHandled ==
  /\ rpc.stage = "written"
  /\ Promote(rpc.pod)
  /\ rpc' = [rpc EXCEPT !.stage = "replied"]
  /\ UNCHANGED <<faults, seen, stray, callFrame>>

\* Mutant: the promoting flag is not released.
PromoteReplied_NotReleased ==
  /\ rpc.stage = "replied"
  /\ seen' = [seen EXCEPT ![rpc.pod] = 0]
  /\ UNCHANGED <<roleVars, faults, rpc, stray, callFrame>>

PromoteReplied ==
  /\ rpc.stage = "replied"
  /\ CallEnds
  /\ UNCHANGED <<roleVars, faults, stray, callFrame>>

\* ActuationTimeout, or the connection broke: the request was written, so it
\* may have been, or may still be, handled.
PromoteLost ==
  /\ \/ rpc.stage = "broken" /\ Free /\ UNCHANGED stray
     \/ rpc.stage = "replied" /\ Spend /\ UNCHANGED stray
     \/ rpc.stage = "written" /\ Spend /\ stray' = stray \union {rpc.pod}
  /\ CallEnds
  /\ UNCHANGED <<roleVars, callFrame>>

StrayPromote(p) ==
  /\ p \in stray
  /\ Promote(p)
  /\ stray' = stray \ {p}
  /\ UNCHANGED <<faults, rpc, seen, callFrame>>

-----------------------------------------------------------------------------
(* The demote calls, one at a time in the order of the pods. *)

NextTarget(t) == t \in targets /\ \A u \in targets : t.pod <= u.pod

demoteFrame == <<restarts, roundVars, memoryVars, rpc, stray>>

\* POST /instance/demote on the replica.
DemoteRequest(t) ==
  IF DemotionApplies(t.pod, t.lease) THEN Demote(t.pod, t.lease) ELSE UNCHANGED roleVars

DemoteHandled(t) ==
  /\ NextTarget(t) /\ Serving(t.pod)
  /\ DemoteRequest(t)
  /\ targets' = targets \ {t}
  /\ UNCHANGED <<faults, late, demoteFrame>>

DemoteFails(t) ==
  /\ NextTarget(t)
  /\ IF Serving(t.pod) THEN Spend /\ late' \in {late, late \union {t}}
     ELSE Free /\ UNCHANGED late
  /\ targets' = targets \ {t}
  /\ UNCHANGED <<roleVars, demoteFrame>>

LateDemote(t) ==
  /\ t \in late
  /\ DemoteRequest(t)
  /\ late' = late \ {t}
  /\ UNCHANGED <<faults, targets, demoteFrame>>

\* bigbrain restarts: its memory is gone, its requests may be in flight.
ControllerCrash ==
  /\ Spend
  /\ phase' = "idle" /\ obs' = NoRound /\ polled' = {}
  /\ seen' = [p \in Pod |-> Forgotten]
  /\ streak' = 0 /\ empty' = 0 /\ incumbent' = NoPod /\ unreached' = 0
  /\ failback' = NoFailback /\ attempts' = <<>>
  /\ rpc' = NoCall /\ targets' = {}
  /\ stray' = IF rpc.stage = "written" THEN stray \union {rpc.pod} ELSE stray
  /\ late' \in {late} \union {late \union {t} : t \in {u \in targets : NextTarget(u) /\ Serving(u.pod)}}
  /\ UNCHANGED <<roleVars, restarts>>

-----------------------------------------------------------------------------

RoundStep == Discover \/ Remember \/ (\E p \in Pod : Poll(p))

PromoteStep ==
  PromoteUnsent \/ PromoteWritten \/ PromoteHandled \/ PromoteReplied \/ PromoteLost

DemoteStep ==
  \/ \E t \in targets : DemoteHandled(t) \/ DemoteFails(t)
  \/ \E t \in late : LateDemote(t)

ReplicaStep == \E p \in Pod : ReplicaRuns(p) \/ ReplicaFails(p) \/ ReplicaStops(p)

Next ==
  \/ RoundStep \/ Act \/ DiscoverFails
  \/ PromoteStep \/ (\E p \in Pod : StrayPromote(p))
  \/ DemoteStep \/ ReplicaStep \/ ControllerCrash

Spec == Init /\ [][Next]_vars

\* The reconcile loop, the calls and each replica go on; nothing is promised of
\* the faults.
Fairness ==
  /\ WF_vars(RoundStep \/ Act)
  /\ WF_vars(PromoteStep)
  /\ WF_vars(\E t \in targets : DemoteHandled(t) \/ DemoteFails(t))
  /\ \A p \in Pod :
       /\ WF_vars(BootFollower(p) /\ ReplicaRuns(p))
       /\ WF_vars(FollowerReady(p) /\ ReplicaRuns(p))
       /\ WF_vars(TaskStep(p) /\ ReplicaRuns(p))
       /\ WF_vars((WatchHeld(p) \/ WatchLost(p)) /\ ReplicaRuns(p))
       /\ WF_vars(Exit(p) /\ ReplicaStops(p))
       /\ WF_vars(StrayPromote(p))

FairSpec == Spec /\ Fairness

-----------------------------------------------------------------------------
(* Properties. *)

\* What the polls of a round say of leases stays true of the row while the
\* round uses them: a lease seen was granted to that pod and to no other.
ObservedLeases ==
  \A p \in DOMAIN obs :
    /\ obs[p].lease <= lease
    /\ obs[p].isLeader => obs[p].lease # 0
    /\ obs[p].lease # 0 =>
         /\ \A q \in Pod \ {p} : held[q] # obs[p].lease
         /\ \A q \in DOMAIN obs \ {p} : obs[q].lease # obs[p].lease

\* Every demotion decided, queued or in flight, names a lease that the row has
\* left behind: a demotion never strikes the holder, however old the polls it
\* was decided from and however late it arrives (demoteTarget.leaseTS,
\* RoleState::check_demotion).
DemotionsSpareHolder == \A t \in targets \union late : t.lease # 0 /\ t.lease < lease

\* The invariant of the composition: the replicas keep theirs under the
\* controller, and the controller's view of the leases and its demotions are sound.
ElectionInv == ElectionTypeOK /\ RoleInv /\ ObservedLeases /\ DemotionsSpareHolder

\* Once faults cease, one replica leads, holds the lease, and is the leader that
\* is published, for good.
Recovers ==
  <>[](\E p \in Pod : /\ role[p] = "leader" /\ HoldsLease(p) /\ incumbent = p
                      /\ \A q \in Pod \ {p} : role[q] = "follower")

\* And it is the replica of the highest priority: failback brings the leadership
\* home, and then stops.
PreferredLeads ==
  <>[](\A p \in Pod : incumbent = p => \A q \in Pod : Priority[q] <= Priority[p])
=============================================================================
