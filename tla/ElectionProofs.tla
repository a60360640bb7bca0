---------------------------- MODULE ElectionProofs ----------------------------
(***************************************************************************)
(* Proofs about the election controller over the replicas of BackendRole,  *)
(* for every set of pods, every debounce and every number of faults.       *)
(***************************************************************************)
EXTENDS ElectionAudit, BackendRoleProofs, SequenceTheorems

-----------------------------------------------------------------------------
(* The controller takes the replicas through steps of their own. *)

LEMMA CallTyped ==
  ASSUME rpc \in Calls
  PROVE  /\ rpc.stage # "none" => rpc.pod \in Pod
         /\ rpc.stage \in {"none", "dial", "written", "replied", "broken"}
         /\ rpc.stage = "none" => rpc = NoCall
  BY DEF Calls, NoCall

LEMMA DemoteMoves ==
  ASSUME NEW t \in Demotion, DemoteRequest(t)
  PROVE  [RoleNext]_roleVars
  <1>1. CASE DemotionApplies(t.pod, t.lease)
    <2>1. t.pod \in Pod /\ Demote(t.pod, 0)
      BY <1>1 DEF DemoteRequest, Demote, DemotionApplies, Demotion
    <2>2. 0 \in 0..MaxLease  BY BoundAssumption
    <2>3. QED  BY <2>1, <2>2 DEF RoleNext
  <1>2. CASE ~DemotionApplies(t.pod, t.lease)
    BY <1>2 DEF DemoteRequest
  <1>3. QED  BY <1>1, <1>2

LEMMA NextMovesRoles ==
  ASSUME ElectionTypeOK, [Next]_vars
  PROVE  [RoleNext]_roleVars
  <1>1. CASE UNCHANGED vars  BY <1>1 DEF vars, roleVars
  <1>2. CASE RoundStep \/ Act \/ DiscoverFails
    BY <1>2 DEF RoundStep, Discover, Remember, Poll, Act, ActEmpty, ActLeaderless, ActLed,
                EndRound, DiscoverFails
  <1>3. ASSUME NEW p \in Pod, Promote(p)  PROVE [RoleNext]_roleVars
    BY <1>3 DEF Promote, RoleNext
  <1>4. CASE PromoteStep
    <2>1. CASE PromoteHandled
      <3>1. rpc.pod \in Pod  BY <2>1, CallTyped DEF PromoteHandled, ElectionTypeOK
      <3>2. QED  BY <1>3, <2>1, <3>1 DEF PromoteHandled
    <2>2. CASE ~PromoteHandled
      BY <1>4, <2>2 DEF PromoteStep, PromoteUnsent, PromoteWritten, PromoteReplied, PromoteLost
    <2>3. QED  BY <2>1, <2>2
  <1>5. CASE \E p \in Pod : StrayPromote(p)  BY <1>3, <1>5 DEF StrayPromote
  <1>6. CASE DemoteStep
    <2>1. targets \subseteq Demotion /\ late \subseteq Demotion  BY DEF ElectionTypeOK
    <2>2. CASE \E t \in targets : DemoteHandled(t)
      BY <2>1, <2>2, DemoteMoves DEF DemoteHandled
    <2>3. CASE \E t \in targets : DemoteFails(t)  BY <2>3 DEF DemoteFails
    <2>4. CASE \E t \in late : LateDemote(t)
      BY <2>1, <2>4, DemoteMoves DEF LateDemote
    <2>5. QED  BY <1>6, <2>2, <2>3, <2>4 DEF DemoteStep
  <1>7. ASSUME NEW p \in Pod, ReplicaRuns(p) \/ ReplicaFails(p) \/ ReplicaStops(p)
        PROVE  [RoleNext]_roleVars
    BY <1>7 DEF ReplicaRuns, ReplicaFails, ReplicaStops, RoleNext, Lifecycle, WatchStep
  <1>8. CASE ControllerCrash  BY <1>8 DEF ControllerCrash
  <1>9. QED
    BY <1>1, <1>2, <1>4, <1>5, <1>6, <1>7, <1>8 DEF Next, ReplicaStep
-----------------------------------------------------------------------------
(* Types. *)

\* ElectionTypeOK without the replicas' part, and with the round spelled out.
RoundTypeOK ==
  /\ obs \in [DOMAIN obs -> Observation] /\ DOMAIN obs \subseteq Pod /\ polled \subseteq DOMAIN obs
  /\ phase \in {"idle", "poll", "decide"}

MemoryTypeOK ==
  /\ seen \in [Pod -> 0..Forgotten]
  /\ streak \in 0..PromoteDebounce /\ empty \in 0..EmptyDebounce
  /\ incumbent \in Pod \union {NoPod}
  /\ unreached \in 0..Forgotten
  /\ failback \in [candidate : Pod \union {NoPod}, restarts : Nat, age : 0..StabilityTicks]
  /\ attempts \in Seq(Pod)

CallsTypeOK == rpc \in Calls /\ stray \subseteq Pod /\ targets \subseteq Demotion /\ late \subseteq Demotion

CountsTypeOK == restarts \in [Pod -> 0..(MaxRestarts - 1)] /\ faults \in 0..MaxFaults

LEMMA TypeParts ==
  ElectionTypeOK <=> RoleTypeOK /\ RoundTypeOK /\ MemoryTypeOK /\ CallsTypeOK /\ CountsTypeOK
  BY DEF ElectionTypeOK, RoundTypeOK, MemoryTypeOK, CallsTypeOK, CountsTypeOK

LEMMA Bounds ==
  /\ PromoteDebounce \in Nat \ {0} /\ EmptyDebounce \in Nat \ {0} /\ GraceTicks \in Nat \ {0}
  /\ MaxRestarts \in Nat \ {0} /\ MaxFaults \in Nat /\ StabilityTicks \in Nat \ {0}
  /\ Forgotten = GraceTicks + 1 /\ Forgotten \in Nat /\ NoPod \notin Pod /\ Pod \subseteq Nat
  BY ElectionAssumption, DecideAssumption DEF Forgotten, NoPod

LEMMA UnreachableTyped ==
  ASSUME CountsTypeOK, NEW p \in Pod
  PROVE  Unreachable(p) \in Observation
  <1>1. restarts[p] \in Nat  BY Bounds DEF CountsTypeOK
  <1>2. QED  BY <1>1 DEF Unreachable, Observation

LEMMA NoRoundTyped == NoRound \in [DOMAIN NoRound -> Observation] /\ DOMAIN NoRound = {}
  BY DEF NoRound

LEMMA AnswerTyped ==
  ASSUME RoleTypeOK, RoundTypeOK, NEW p \in DOMAIN obs, NEW ok \in BOOLEAN
  PROVE  Answer(p, ok) \in Observation
  <1>1. p \in Pod /\ obs[p].restarts \in Nat /\ ReportedLease(p) \in Nat
    BY DEF RoundTypeOK, RoleTypeOK, Observation, ReportedLease
  <1>2. (IF ok THEN 1 ELSE 0) \in Nat  OBVIOUS
  <1>3. /\ (role[p] = "leader") \in BOOLEAN /\ (role[p] = "promoting") \in BOOLEAN
        /\ (role[p] = "leader" /\ ~verified[p]) \in BOOLEAN
        /\ (role[p] = "follower" /\ ok) \in BOOLEAN
    OBVIOUS
  <1>4. QED  BY <1>1, <1>2, <1>3 DEF Answer, Observation

LEMMA CountsStep ==
  ASSUME CountsTypeOK, Next
  PROVE  CountsTypeOK'
  <1>1. faults' \in {faults, faults - 1} /\ (faults' = faults \/ faults > 0)
    BY DEF Next, RoundStep, Discover, Remember, Poll, Act, ActEmpty, ActLeaderless, ActLed,
           EndRound, DiscoverFails, PromoteStep, PromoteUnsent, PromoteWritten, PromoteHandled,
           PromoteReplied, PromoteLost, StrayPromote, DemoteStep, DemoteHandled, DemoteFails,
           LateDemote, ReplicaStep, ReplicaRuns, ReplicaFails, ReplicaStops, ControllerCrash,
           Spend, Free
  <1>2. faults' \in 0..MaxFaults  BY <1>1, Bounds DEF CountsTypeOK
  <1>3. \/ restarts' = restarts
        \/ \E p \in Pod : restarts' = [restarts EXCEPT ![p] = (@ + 1) % MaxRestarts]
    BY DEF Next, RoundStep, Discover, Remember, Poll, Act, ActEmpty, ActLeaderless, ActLed,
           EndRound, DiscoverFails, PromoteStep, PromoteUnsent, PromoteWritten, PromoteHandled,
           PromoteReplied, PromoteLost, StrayPromote, DemoteStep, DemoteHandled, DemoteFails,
           LateDemote, ReplicaStep, ReplicaRuns, ReplicaFails, ReplicaStops, ControllerCrash,
           callFrame, demoteFrame
  <1>4. \A n \in Nat : (n + 1) % MaxRestarts \in 0..(MaxRestarts - 1)  BY Bounds
  <1>5. restarts' \in [Pod -> 0..(MaxRestarts - 1)]  BY <1>3, <1>4, Bounds DEF CountsTypeOK
  <1>6. QED  BY <1>2, <1>5 DEF CountsTypeOK

LEMMA RoundStepTyped ==
  ASSUME RoleTypeOK, CountsTypeOK, RoundTypeOK, Next
  PROVE  RoundTypeOK'
  <1>1. CASE Discover
    <2>1. PICK S \in SUBSET Pod : obs' = [p \in S |-> Unreachable(p)]  BY <1>1 DEF Discover
    <2>2. phase' = "poll" /\ polled' = {}  BY <1>1 DEF Discover
    <2>3. QED  BY <2>1, <2>2, UnreachableTyped DEF RoundTypeOK
  <1>2. ASSUME NEW p \in Pod, Poll(p)  PROVE RoundTypeOK'
    <2>1. p \in DOMAIN obs /\ polled' = polled \union {p} /\ phase' = phase
      BY <1>2 DEF Poll
    <2>2. obs' = obs \/ \E ok \in BOOLEAN : obs' = [obs EXCEPT ![p] = Answer(p, ok)]
      BY <1>2 DEF Poll
    <2>3. QED  BY <2>1, <2>2, AnswerTyped DEF RoundTypeOK
  <1>3. CASE Remember
    <2>1. phase' = "decide" /\ polled' = polled /\ DOMAIN obs' = DOMAIN obs
      BY <1>3 DEF Remember
    <2>2. obs' = [p \in DOMAIN obs |->
               IF obs[p].reach THEN obs[p]
               ELSE [obs[p] EXCEPT !.wasTransitioning = seen[p] # Forgotten]]
      BY <1>3 DEF Remember
    <2>3. ASSUME NEW p \in DOMAIN obs
          PROVE  [obs[p] EXCEPT !.wasTransitioning = seen[p] # Forgotten] \in Observation
      <3>1. obs[p] \in Observation /\ (seen[p] # Forgotten) \in BOOLEAN  BY DEF RoundTypeOK
      <3>2. QED  BY <3>1 DEF Observation
    <2>4. QED  BY <2>1, <2>2, <2>3 DEF RoundTypeOK
  <1>4. CASE Act \/ ControllerCrash
    <2>1. phase' = "idle" /\ obs' = NoRound /\ polled' = {}
      BY <1>4 DEF Act, ActEmpty, ActLeaderless, ActLed, EndRound, ControllerCrash
    <2>2. QED  BY <2>1, NoRoundTyped DEF RoundTypeOK
  <1>5. CASE UNCHANGED roundVars  BY <1>5 DEF roundVars, RoundTypeOK
  <1>6. DiscoverFails \/ PromoteStep \/ (\E p \in Pod : StrayPromote(p)) \/ DemoteStep \/ ReplicaStep
          => UNCHANGED roundVars
    BY DEF DiscoverFails, PromoteStep, PromoteUnsent, PromoteWritten, PromoteHandled,
           PromoteReplied, PromoteLost, StrayPromote, DemoteStep, DemoteHandled, DemoteFails,
           LateDemote, ReplicaStep, ReplicaRuns, ReplicaFails, ReplicaStops, callFrame, demoteFrame,
           roundVars
  <1>7. QED  BY <1>1, <1>2, <1>3, <1>4, <1>5, <1>6 DEF Next, RoundStep

LEMMA CallsStepTyped ==
  ASSUME RoundTypeOK, CallsTypeOK, Next
  PROVE  CallsTypeOK'
  <1>1. CASE Act
    <2>1. CASE ActEmpty
      BY <2>1 DEF ActEmpty, EndRound, CallsTypeOK
    <2>2. CASE ActLeaderless
      <3>1. rpc' = rpc \/ \E p \in Pod : StartPromote(p)
        BY <2>2 DEF ActLeaderless, Retain, Replace
      <3>2. targets' = targets /\ stray' = stray /\ late' = late
        BY <2>2 DEF ActLeaderless, EndRound
      <3>3. QED  BY <3>1, <3>2 DEF CallsTypeOK, StartPromote, Calls
    <2>3. CASE ActLed
      <3>1. PICK leader \in Pod :
              /\ PickLeader(obs, leader)
              /\ targets' = IF targets = {} THEN demotions(leader) ELSE targets
              /\ rpc' = rpc \/ \E p \in Pod : StartPromote(p)
        BY <2>3 DEF ActLed
      <3>2. demotions(leader) \subseteq Demotion
        BY DEF demotions, claimedLeaders, Demotion, RoundTypeOK, Observation
      <3>3. stray' = stray /\ late' = late  BY <2>3 DEF ActLed, EndRound
      <3>4. QED  BY <3>1, <3>2, <3>3 DEF CallsTypeOK, StartPromote, Calls
    <2>4. QED  BY <1>1, <2>1, <2>2, <2>3 DEF Act
  <1>2. CASE PromoteStep \/ ReplicaStep \/ ControllerCrash
    <2>1. \/ rpc' \in {rpc, NoCall}
          \/ rpc.stage # "none" /\ \E s \in {"dial", "written", "replied", "broken"} :
               rpc' = [rpc EXCEPT !.stage = s]
      BY <1>2 DEF PromoteStep, PromoteUnsent, PromoteWritten, PromoteHandled, PromoteReplied,
                  PromoteLost, CallEnds, ReplicaStep, ReplicaRuns, ReplicaFails, ReplicaStops,
                  ControllerCrash, callVars
    <2>2. rpc' \in Calls  BY <2>1 DEF CallsTypeOK, Calls, NoCall
    <2>3. stray' \subseteq stray \union (IF rpc.stage = "written" THEN {rpc.pod} ELSE {})
      BY <1>2 DEF PromoteStep, PromoteUnsent, PromoteWritten, PromoteHandled, PromoteReplied,
                  PromoteLost, CallEnds, ReplicaStep, ReplicaRuns, ReplicaFails, ReplicaStops,
                  ControllerCrash, callVars
    <2>4. stray' \subseteq Pod  BY <2>3, CallTyped DEF CallsTypeOK
    <2>5. targets' \subseteq targets /\ late' \subseteq late \union targets
      BY <1>2 DEF PromoteStep, PromoteUnsent, PromoteWritten, PromoteHandled, PromoteReplied,
                  PromoteLost, callFrame, ReplicaStep, ReplicaRuns, ReplicaFails, ReplicaStops,
                  ControllerCrash, callVars
    <2>6. QED  BY <2>2, <2>4, <2>5 DEF CallsTypeOK
  <1>3. CASE (\E p \in Pod : StrayPromote(p)) \/ DemoteStep
    <2>1. rpc' = rpc /\ stray' \subseteq stray /\ targets' \subseteq targets
          /\ late' \subseteq late \union targets
      BY <1>3 DEF StrayPromote, DemoteStep, DemoteHandled, DemoteFails, LateDemote, callFrame,
                  demoteFrame
    <2>2. QED  BY <2>1 DEF CallsTypeOK
  <1>4. CASE RoundStep \/ DiscoverFails
    BY <1>4 DEF RoundStep, Discover, Remember, Poll, DiscoverFails, callVars, CallsTypeOK
  <1>5. QED  BY <1>1, <1>2, <1>3, <1>4 DEF Next

\* The pods of a round that the comparisons are about are pods.
LEMMA ChosenArePods ==
  ASSUME RoundTypeOK, MemoryTypeOK, NEW leader
  PROVE  /\ claimedLeaders(obs) \subseteq Pod /\ promotable(obs) \subseteq Pod
         /\ failbackCandidates(obs, leader) \subseteq promotable(obs)
         /\ \A p \in Pod : p \in DOMAIN obs => obs[p].restarts \in Nat
  BY DEF claimedLeaders, promotable, failbackCandidates, RoundTypeOK, Observation

LEMMA FailbackTyped ==
  ASSUME RoundTypeOK, MemoryTypeOK
  PROVE  /\ NoFailback \in [candidate : Pod \union {NoPod}, restarts : Nat, age : 0..StabilityTicks]
         /\ retainedFailback(obs, failback) \in {failback, NoFailback}
         /\ \A p \in DOMAIN obs :
              /\ nextFailback(obs, failback, p)
                   \in [candidate : Pod \union {NoPod}, restarts : Nat, age : 0..StabilityTicks]
              /\ [nextFailback(obs, failback, p) EXCEPT !.age = 0]
                   \in [candidate : Pod \union {NoPod}, restarts : Nat, age : 0..StabilityTicks]
  <1>1. 0 \in 0..StabilityTicks  BY Bounds
  <1>2. \A p \in DOMAIN obs : p \in Pod /\ obs[p].restarts \in Nat
    BY DEF RoundTypeOK, Observation
  <1>3. failback.age \in 0..StabilityTicks  BY DEF MemoryTypeOK
  <1>4. QED
    BY <1>1, <1>2, <1>3 DEF NoFailback, retainedFailback, nextFailback

LEMMA AttemptsTyped ==
  ASSUME MemoryTypeOK, NEW p \in Pod, recordPromoteAttempt(p)
  PROVE  attempts' \in Seq(Pod)
  <1>1. attempts \in Seq(Pod) /\ Len(attempts) \in Nat /\ DOMAIN attempts = 1..Len(attempts)
    BY DEF MemoryTypeOK
  <1>2. attempted[p] = 0 \/ attempted[p] \in 1..Len(attempts)
    BY <1>1 DEF attempted
  <1>3. CASE attempted[p] = 0
    BY <1>1, <1>3 DEF recordPromoteAttempt
  <1>4. CASE attempted[p] \in 1..Len(attempts)
    <2>1. PICK i \in 1..Len(attempts) : i = attempted[p]  BY <1>4
    <2>2. i # 0  BY <1>1, <2>1
    <2>3. SubSeq(attempts, 1, i - 1) \o SubSeq(attempts, i + 1, Len(attempts)) \in Seq(Pod)
      BY <1>1, <2>1, SubSeqProperties, ConcatProperties
    <2>4. attempts' = Append(SubSeq(attempts, 1, i - 1) \o SubSeq(attempts, i + 1, Len(attempts)), p)
      BY <2>1, <2>2 DEF recordPromoteAttempt
    <2>5. QED  BY <2>3, <2>4
  <1>5. QED  BY <1>2, <1>3, <1>4

LEMMA MemoryStepTyped ==
  ASSUME RoundTypeOK, MemoryTypeOK, CallsTypeOK, Next
  PROVE  MemoryTypeOK'
  <1> USE Bounds
  <1>1. CASE Discover \/ DiscoverFails
    <2>1. Tick /\ UNCHANGED <<streak, empty, incumbent, attempts>>
      BY <1>1 DEF Discover, DiscoverFails
    <2>2. seen' \in [Pod -> 0..Forgotten] /\ unreached' \in 0..Forgotten
      <3>1. \A p \in Pod : AtMost(seen[p] + 1, Forgotten) \in 0..Forgotten
        BY DEF MemoryTypeOK, AtMost
      <3>2. AtMost(unreached + 1, Forgotten) \in 0..Forgotten
        BY DEF MemoryTypeOK, AtMost
      <3>3. QED  BY <2>1, <3>1, <3>2 DEF Tick
    <2>3. failback' \in {failback, NoFailback, [failback EXCEPT !.age = AtMost(@ + 1, StabilityTicks)]}
      BY <1>1 DEF Discover, DiscoverFails
    <2>4. failback' \in [candidate : Pod \union {NoPod}, restarts : Nat, age : 0..StabilityTicks]
      <3>1. AtMost(failback.age + 1, StabilityTicks) \in 0..StabilityTicks
        BY DEF MemoryTypeOK, AtMost
      <3>2. QED  BY <2>3, <3>1, FailbackTyped DEF MemoryTypeOK
    <2>5. QED  BY <2>1, <2>2, <2>4 DEF MemoryTypeOK
  <1>2. CASE Remember
    <2>1. /\ seen' = [p \in Pod |->
               IF p \notin DOMAIN obs \/ ~obs[p].reach \/ seen[p] = 0 THEN seen[p]
               ELSE IF isTransitioning(obs[p]) THEN 1 ELSE Forgotten]
          /\ UNCHANGED <<streak, empty, incumbent, unreached, failback, attempts>>
      BY <1>2 DEF Remember
    <2>2. seen' \in [Pod -> 0..Forgotten]  BY <2>1 DEF MemoryTypeOK
    <2>3. QED  BY <2>1, <2>2 DEF MemoryTypeOK
  <1>3. CASE ActEmpty
    <2>1. /\ UNCHANGED <<seen, unreached, attempts>> /\ failback' = NoFailback
          /\ empty' = AtMost(empty + 1, EmptyDebounce)
          /\ \/ streak' = 0 /\ incumbent' = NoPod
             \/ UNCHANGED <<streak, incumbent>>
      BY <1>3 DEF ActEmpty, EndRound
    <2>2. empty' \in 0..EmptyDebounce  BY <2>1 DEF MemoryTypeOK, AtMost
    <2>3. failback' \in [candidate : Pod \union {NoPod}, restarts : Nat, age : 0..StabilityTicks]
      BY <2>1, FailbackTyped
    <2>4. streak' \in 0..PromoteDebounce /\ incumbent' \in Pod \union {NoPod}
      BY <2>1 DEF MemoryTypeOK
    <2>5. QED  BY <2>1, <2>2, <2>3, <2>4 DEF MemoryTypeOK
  <1>4. CASE ActLeaderless
    <2>1. CommitLeaderless /\ UNCHANGED seen /\ (Retain \/ Replace)
      BY <1>4 DEF ActLeaderless, EndRound
    <2>2. empty' \in 0..EmptyDebounce /\ streak' \in 0..PromoteDebounce
      <3>1. AtMost(streak + 1, PromoteDebounce) \in 0..PromoteDebounce
        BY DEF MemoryTypeOK, AtMost
      <3>2. QED  BY <2>1, <3>1 DEF CommitLeaderless, MemoryTypeOK
    <2>3. unreached' \in 0..Forgotten
      BY <2>1 DEF CommitLeaderless, MemoryTypeOK
    <2>4. failback' \in [candidate : Pod \union {NoPod}, restarts : Nat, age : 0..StabilityTicks]
      BY <2>1, FailbackTyped DEF CommitLeaderless, MemoryTypeOK
    <2>5. incumbent' \in {incumbent, NoPod} /\ (attempts' = attempts \/ \E p \in Pod : recordPromoteAttempt(p))
      BY <2>1 DEF Retain, Replace
    <2>6. attempts' \in Seq(Pod)  BY <2>5, AttemptsTyped DEF MemoryTypeOK
    <2>7. QED  BY <2>1, <2>2, <2>3, <2>4, <2>5, <2>6 DEF MemoryTypeOK
  <1>5. CASE ActLed
    <2>1. CommitLed /\ UNCHANGED seen  BY <1>5 DEF ActLed, EndRound
    <2>2. PICK leader \in Pod :
            /\ incumbent' = leader
            /\ \/ failback' = NoFailback
               \/ \E p \in Pod :
                    /\ BestFailbackCandidate(obs, leader, p)
                    /\ \/ failback' = nextFailback(obs, failback, p)
                       \/ failback' = [nextFailback(obs, failback, p) EXCEPT !.age = 0]
      BY <1>5 DEF ActLed
    <2>3. \A p \in Pod : BestFailbackCandidate(obs, leader, p) => p \in DOMAIN obs
      BY DEF BestFailbackCandidate, failbackCandidates, promotable
    <2>4. failback' \in [candidate : Pod \union {NoPod}, restarts : Nat, age : 0..StabilityTicks]
      BY <2>2, <2>3, FailbackTyped
    <2>5. attempts' \in Seq(Pod)  BY <2>1 DEF CommitLed
    <2>6. streak' \in 0..PromoteDebounce /\ empty' \in 0..EmptyDebounce /\ unreached' \in 0..Forgotten
      BY <2>1 DEF CommitLed
    <2>7. seen' \in [Pod -> 0..Forgotten]  BY <2>1 DEF MemoryTypeOK
    <2>8. QED  BY <2>2, <2>4, <2>5, <2>6, <2>7 DEF MemoryTypeOK
  <1>6. CASE PromoteReplied \/ PromoteLost
    <2>1. /\ seen' = [seen EXCEPT ![rpc.pod] = 0]
          /\ UNCHANGED <<streak, empty, incumbent, unreached, failback, attempts>>
      BY <1>6 DEF PromoteReplied, PromoteLost, CallEnds, callFrame
    <2>2. seen \in [Pod -> 0..Forgotten] /\ 0 \in 0..Forgotten  BY DEF MemoryTypeOK
    <2>3. seen' \in [Pod -> 0..Forgotten]
      <3> HIDE Bounds
      <3> DEFINE Ages == 0..Forgotten
      <3>1. seen \in [Pod -> Ages] /\ 0 \in Ages  BY <2>2
      <3> HIDE DEF Ages
      <3>2. seen' \in [Pod -> Ages]  BY <2>1, <3>1
      <3>3. QED  BY <3>2 DEF Ages
    <2>4. QED  BY <2>1, <2>3 DEF MemoryTypeOK
  <1>7. CASE ControllerCrash
    <2>1. /\ seen' = [p \in Pod |-> Forgotten] /\ streak' = 0 /\ empty' = 0 /\ incumbent' = NoPod
          /\ unreached' = 0 /\ failback' = NoFailback /\ attempts' = <<>>
      BY <1>7 DEF ControllerCrash
    <2>2. attempts' \in Seq(Pod)  BY <2>1
    <2>3. seen' \in [Pod -> 0..Forgotten]  BY <2>1
    <2>4. failback' \in [candidate : Pod \union {NoPod}, restarts : Nat, age : 0..StabilityTicks]
      BY <2>1, FailbackTyped
    <2>5. QED  BY <2>1, <2>2, <2>3, <2>4 DEF MemoryTypeOK
  <1>8. CASE UNCHANGED memoryVars  BY <1>8 DEF memoryVars, MemoryTypeOK
  <1>9. (\E p \in Pod : Poll(p) \/ StrayPromote(p)) \/ PromoteUnsent \/ PromoteWritten
          \/ PromoteHandled \/ DemoteStep \/ ReplicaStep => UNCHANGED memoryVars
    BY DEF Poll, StrayPromote, PromoteUnsent, PromoteWritten, PromoteHandled, DemoteStep,
           DemoteHandled, DemoteFails, LateDemote, ReplicaStep, ReplicaRuns, ReplicaFails,
           ReplicaStops, callFrame, demoteFrame, memoryVars
  <1>10. QED
    BY <1>1, <1>2, <1>3, <1>4, <1>5, <1>6, <1>7, <1>8, <1>9 DEF Next, RoundStep, Act, PromoteStep

-----------------------------------------------------------------------------
(* The invariant. *)

LEMMA ElectionInvInitially == Init => ElectionInv
  <1> SUFFICES ASSUME Init  PROVE ElectionInv
    OBVIOUS
  <1> USE Bounds
  <1>1. RoleInv  BY RoleInvInit DEF Init
  <1>2. RoundTypeOK  BY NoRoundTyped DEF Init, RoundTypeOK
  <1>3. MemoryTypeOK
    <2>1. /\ seen = [p \in Pod |-> Forgotten] /\ streak = 0 /\ empty = 0 /\ incumbent = NoPod
          /\ unreached = 0 /\ failback = NoFailback /\ attempts = <<>>
      BY DEF Init
    <2>2. NoFailback \in [candidate : Pod \union {NoPod}, restarts : Nat, age : 0..StabilityTicks]
      BY DEF NoFailback
    <2>3. <<>> \in Seq(Pod)  OBVIOUS
    <2>4. QED  BY <2>1, <2>2, <2>3 DEF MemoryTypeOK
  <1>4. CallsTypeOK /\ CountsTypeOK
    BY DEF Init, CallsTypeOK, CountsTypeOK, Calls
  <1>5. ObservedLeases /\ DemotionsSpareHolder
    BY NoRoundTyped DEF Init, ObservedLeases, DemotionsSpareHolder
  <1>6. QED  BY <1>1, <1>2, <1>3, <1>4, <1>5, TypeParts DEF ElectionInv, RoleInv

\* What the polls say stays true while the row and the replicas move on.
LEMMA ObservedStays ==
  ASSUME ElectionInv, [RoleNext]_roleVars, obs' \in {obs, NoRound}
  PROVE  ObservedLeases'
  <1>1. obs' = NoRound => ObservedLeases'
    BY NoRoundTyped DEF ObservedLeases
  <1>2. CASE obs' = obs
    <2>1. lease' \in Nat /\ lease' >= lease /\ lease \in Nat
          /\ \A p \in Pod : held[p] \in Nat
                            /\ (held'[p] \in {0, held[p]} \/ (held'[p] = lease' /\ lease' > lease))
      BY LeaseStep DEF ElectionInv, RoleInv, RoleTypeOK
    <2>2. \A p \in DOMAIN obs : p \in Pod /\ obs[p].lease \in Nat /\ obs[p].lease <= lease
      BY TypeParts DEF ElectionInv, ObservedLeases, RoundTypeOK, Observation
    <2>3. ASSUME NEW p \in DOMAIN obs, obs[p].lease # 0, NEW q \in Pod \ {p}
          PROVE  held'[q] # obs[p].lease
      <3>1. held[q] # obs[p].lease  BY <2>3 DEF ElectionInv, ObservedLeases
      <3>2. QED  BY <2>1, <2>2, <2>3, <3>1
    <2>4. QED  BY <1>2, <2>1, <2>2, <2>3 DEF ElectionInv, ObservedLeases
  <1>3. QED  BY <1>1, <1>2

LEMMA ObservedStep ==
  ASSUME ElectionInv, Next, [RoleNext]_roleVars
  PROVE  ObservedLeases'
  <1>1. RoleTypeOK /\ RoundTypeOK /\ ObservedLeases /\ LeasesDistinct /\ TaskShape
    BY TypeParts DEF ElectionInv, RoleInv
  <1>2. CASE Discover
    <2>1. PICK S \in SUBSET Pod : obs' = [p \in S |-> Unreachable(p)]  BY <1>2 DEF Discover
    <2>2. lease' = lease  BY <1>2 DEF Discover, roleVars
    <2>3. DOMAIN obs' = S /\ \A p \in S : obs'[p].lease = 0 /\ obs'[p].isLeader = FALSE
      BY <2>1 DEF Unreachable
    <2>4. lease \in Nat  BY <1>1 DEF RoleTypeOK
    <2>5. QED  BY <2>2, <2>3, <2>4 DEF ObservedLeases
  <1>3. ASSUME NEW p \in Pod, Poll(p)  PROVE ObservedLeases'
    <2>1. UNCHANGED roleVars /\ p \in DOMAIN obs  BY <1>3 DEF Poll
    <2>2. CASE obs' = obs  BY <2>2, ObservedStays
    <2>3. ASSUME NEW ok \in BOOLEAN, obs' = [obs EXCEPT ![p] = Answer(p, ok)]
          PROVE  ObservedLeases'
      <3>1. /\ Answer(p, ok).lease = ReportedLease(p)
            /\ Answer(p, ok).isLeader => role[p] = "leader"
        BY DEF Answer
      <3>2. ReportedLease(p) \in {0, held[p]} /\ (role[p] = "leader" => ReportedLease(p) # 0)
        BY <1>1 DEF ReportedLease, TaskShape
      <3>3. lease \in Nat /\ held[p] \in Nat /\ held[p] <= lease /\ lease' = lease /\ held' = held
        BY <1>1, <2>1 DEF RoleTypeOK, LeasesDistinct, roleVars
      <3>4. \A q \in Pod \ {p} : held[q] # 0 \/ held[p] # 0 => held[q] # held[p]
        BY <1>1 DEF LeasesDistinct
      <3>5. \A q \in DOMAIN obs \ {p} : obs[q].lease # 0 => held[p] # obs[q].lease
        BY <1>1 DEF ObservedLeases
      <3>6. /\ obs'[p] = Answer(p, ok) /\ DOMAIN obs' = DOMAIN obs
            /\ \A q \in DOMAIN obs \ {p} : obs'[q] = obs[q]
        BY <2>1, <2>3
      <3>7. DOMAIN obs \subseteq Pod  BY <1>1 DEF RoundTypeOK
      <3>8. obs'[p].lease \in {0, held[p]} /\ (obs'[p].isLeader => obs'[p].lease # 0)
        BY <3>1, <3>2, <3>6
      <3>9. QED
        BY <1>1, <3>3, <3>4, <3>5, <3>6, <3>7, <3>8 DEF ObservedLeases
    <2>4. QED  BY <1>3, <2>2, <2>3 DEF Poll
  <1>4. CASE Remember
    <2>1. /\ DOMAIN obs' = DOMAIN obs /\ UNCHANGED roleVars
          /\ \A p \in DOMAIN obs : obs'[p] = IF obs[p].reach THEN obs[p]
               ELSE [obs[p] EXCEPT !.wasTransitioning = seen[p] # Forgotten]
      BY <1>4 DEF Remember
    <2>2. \A p \in DOMAIN obs : obs[p] \in Observation  BY <1>1 DEF RoundTypeOK
    <2>3. \A p \in DOMAIN obs : obs'[p].lease = obs[p].lease /\ obs'[p].isLeader = obs[p].isLeader
      BY <2>1, <2>2 DEF Observation
    <2>4. QED  BY <1>1, <2>1, <2>3 DEF ObservedLeases, roleVars
  <1>5. CASE Act \/ ControllerCrash
    <2>1. obs' = NoRound
      BY <1>5 DEF Act, ActEmpty, ActLeaderless, ActLed, EndRound, ControllerCrash
    <2>2. QED  BY <2>1, ObservedStays
  <1>6. DiscoverFails \/ PromoteStep \/ (\E p \in Pod : StrayPromote(p)) \/ DemoteStep \/ ReplicaStep
          => obs' = obs
    BY DEF DiscoverFails, PromoteStep, PromoteUnsent, PromoteWritten, PromoteHandled,
           PromoteReplied, PromoteLost, StrayPromote, DemoteStep, DemoteHandled, DemoteFails,
           LateDemote, ReplicaStep, ReplicaRuns, ReplicaFails, ReplicaStops, callFrame, demoteFrame,
           roundVars
  <1>7. QED  BY <1>2, <1>3, <1>4, <1>5, <1>6, ObservedStays DEF Next, RoundStep

\* A demotion is decided from a lower lease than the leader's, and the row never
\* falls back to it.
LEMMA DemotionsStep ==
  ASSUME ElectionInv, Next, [RoleNext]_roleVars
  PROVE  DemotionsSpareHolder'
  <1>1. lease' \in Nat /\ lease' >= lease /\ lease \in Nat
    BY LeaseStep DEF ElectionInv, RoleInv, RoleTypeOK
  <1>2. \A t \in targets \union late : t.lease \in Nat /\ t.lease # 0 /\ t.lease < lease
    BY TypeParts DEF ElectionInv, DemotionsSpareHolder, CallsTypeOK, Demotion
  <1>3. CASE targets' \union late' \subseteq targets \union late
    BY <1>1, <1>2, <1>3 DEF DemotionsSpareHolder
  <1>4. CASE ActLed
    <2>1. PICK leader \in Pod :
            /\ PickLeader(obs, leader)
            /\ targets' = IF targets = {} THEN demotions(leader) ELSE targets
      BY <1>4 DEF ActLed
    <2>2. late' = late  BY <1>4 DEF ActLed, EndRound
    <2>3. ASSUME NEW t \in demotions(leader)  PROVE t.lease # 0 /\ t.lease < lease
      <3>1. PICK q \in claimedLeaders(obs) \ {leader} : t = [pod |-> q, lease |-> obs[q].lease]
        BY DEF demotions
      <3>2. q \in DOMAIN obs /\ leader \in DOMAIN obs /\ obs[q].isLeader /\ obs[leader].isLeader
        BY <2>1 DEF claimedLeaders, isLiveLeaderClaim, PickLeader
      <3>3. obs[q].lease \in Nat /\ obs[leader].lease \in Nat
        BY <3>2, TypeParts DEF ElectionInv, RoundTypeOK, Observation
      <3>4. /\ obs[q].lease # 0 /\ obs[leader].lease <= lease
            /\ obs[leader].lease # obs[q].lease
        BY <3>2 DEF ElectionInv, ObservedLeases
      <3>5. obs[leader].lease > obs[q].lease
        BY <2>1, <3>3, <3>4 DEF PickLeader, betterLeader
      <3>6. QED  BY <1>1, <3>1, <3>3, <3>4, <3>5
    <2>4. \A t \in targets' \union late' : t.lease # 0 /\ t.lease < lease /\ t.lease \in Nat
      <3>1. \A t \in demotions(leader) : t.lease \in Nat
        BY TypeParts DEF ElectionInv, RoundTypeOK, Observation, demotions, claimedLeaders
      <3>2. QED  BY <1>2, <2>1, <2>2, <2>3, <3>1
    <2>5. QED  BY <1>1, <2>4 DEF DemotionsSpareHolder
  <1>5. CASE ControllerCrash
    <2>1. targets' = {} /\ late' \subseteq late \union targets
      BY <1>5 DEF ControllerCrash
    <2>2. QED  BY <1>3, <2>1
  <1>6. RoundStep \/ DiscoverFails \/ ActEmpty \/ ActLeaderless \/ PromoteStep
          \/ (\E p \in Pod : StrayPromote(p)) \/ DemoteStep \/ ReplicaStep
          => targets' \union late' \subseteq targets \union late
    BY DEF RoundStep, Discover, Remember, Poll, DiscoverFails, ActEmpty, ActLeaderless, EndRound,
           PromoteStep, PromoteUnsent, PromoteWritten, PromoteHandled,
           PromoteReplied, PromoteLost, StrayPromote, DemoteStep, DemoteHandled, DemoteFails,
           LateDemote, ReplicaStep, ReplicaRuns, ReplicaFails, ReplicaStops, callFrame, demoteFrame,
           callVars
  <1>7. QED  BY <1>3, <1>4, <1>5, <1>6 DEF Next, Act

LEMMA StepKeepsElectionInv == ElectionInv /\ [Next]_vars => ElectionInv'
  <1> SUFFICES ASSUME ElectionInv, [Next]_vars  PROVE ElectionInv'
    OBVIOUS
  <1>1. [RoleNext]_roleVars  BY NextMovesRoles DEF ElectionInv
  <1>2. RoleInv'  BY <1>1, RoleInvStep DEF ElectionInv
  <1>3. CASE UNCHANGED vars
    <2>1. UNCHANGED roleVars /\ UNCHANGED <<roundVars, memoryVars, callVars, restarts, faults>>
      BY <1>3 DEF vars, roleVars, roundVars, memoryVars, callVars
    <2>2. ElectionTypeOK'
      BY <2>1 DEF ElectionInv, ElectionTypeOK, RoleTypeOK, roleVars, roundVars, memoryVars, callVars
    <2>3. ObservedLeases' /\ DemotionsSpareHolder'
      BY <2>1 DEF ElectionInv, ObservedLeases, DemotionsSpareHolder, roleVars, roundVars, callVars
    <2>4. QED  BY <1>2, <2>2, <2>3 DEF ElectionInv
  <1>4. CASE Next
    <2>1. RoleTypeOK /\ RoundTypeOK /\ MemoryTypeOK /\ CallsTypeOK /\ CountsTypeOK
      BY TypeParts DEF ElectionInv
    <2>2. RoundTypeOK' /\ MemoryTypeOK' /\ CallsTypeOK' /\ CountsTypeOK' /\ RoleTypeOK'
      BY <1>2, <1>4, <2>1, RoundStepTyped, MemoryStepTyped, CallsStepTyped, CountsStep DEF RoleInv
    <2>3. ElectionTypeOK'
      BY <2>2 DEF ElectionTypeOK, RoundTypeOK, MemoryTypeOK, CallsTypeOK, CountsTypeOK
    <2>4. ObservedLeases' /\ DemotionsSpareHolder'
      BY <1>1, <1>4, ObservedStep, DemotionsStep
    <2>5. QED  BY <1>2, <2>3, <2>4 DEF ElectionInv
  <1>5. QED  BY <1>3, <1>4

\* Under the controller the replicas stay consistent, what a round has observed of
\* leases is true when it acts on it, and no demotion that was ever decided can
\* strike the holder of the lease (act, demoteTarget.leaseTS, check_demotion).
THEOREM ElectionInvariance == Spec => []ElectionInv
  BY ElectionInvInitially, StepKeepsElectionInv, PTL DEF Spec

\* The controller asks nothing of a replica that the role machine does not allow:
\* what is proved of every behaviour of the replicas holds under the controller.
THEOREM ControlledRolesAreRoles == Spec => RoleSpec
  <1>1. Init => RoleInit  BY DEF Init
  <1>2. ElectionInv /\ [Next]_vars => [RoleNext]_roleVars
    BY NextMovesRoles DEF ElectionInv
  <1>3. QED  BY <1>1, <1>2, ElectionInvariance, PTL DEF Spec, RoleSpec

-----------------------------------------------------------------------------
(* The history of ElectionAudit. *)

LEMMA AuditStepIsStep ==
  ASSUME [AuditNext]_<<vars, auditVars>>
  PROVE  [Next]_vars
  <1>1. CASE AuditNext
    <2>1. AuditAct => Act  BY DEF AuditAct
    <2>2. QED  BY <1>1, <2>1 DEF AuditNext, Next
  <1>2. CASE UNCHANGED <<vars, auditVars>>  BY <1>2
  <1>3. QED  BY <1>1, <1>2

LEMMA AtMostSmaller ==
  ASSUME NEW n \in Nat, NEW bound \in Nat
  PROVE  AtMost(n, bound) \in 0..bound /\ AtMost(n, bound) <= n
  BY DEF AtMost

LEMMA FitTyped ==
  ASSUME RoundTypeOK, AuditTypeOK, NEW p \in Pod
  PROVE  fitNext(p) \in [restarts : Nat, rounds : 0..(StabilityTicks + 1)]
  <1>1. fit[p] \in [restarts : Nat, rounds : 0..(StabilityTicks + 1)]  BY DEF AuditTypeOK
  <1>2. 0 \in 0..(StabilityTicks + 1) /\ 1 \in 0..(StabilityTicks + 1)  BY Bounds
  <1>3. AtMost(fit[p].rounds + 1, StabilityTicks + 1) \in 0..(StabilityTicks + 1)
    BY <1>1, Bounds DEF AtMost
  <1>4. p \in DOMAIN obs => obs[p].restarts \in Nat  BY DEF RoundTypeOK, Observation
  <1>5. CASE p \notin DOMAIN obs \/ ~isPromotable(obs[p])
    BY <1>1, <1>2, <1>5 DEF fitNext
  <1>6. CASE ~(p \notin DOMAIN obs \/ ~isPromotable(obs[p]))
    BY <1>2, <1>3, <1>4, <1>6 DEF fitNext
  <1>7. QED  BY <1>5, <1>6

LEMMA AuditStepTyped ==
  ASSUME RoundTypeOK, AuditTypeOK, AuditNext
  PROVE  AuditTypeOK'
  <1>1. CASE AuditAct
    <2>1. quiet' \in 0..PromoteDebounce
      BY <1>1, Bounds DEF AuditAct, AuditTypeOK, AtMost
    <2>2. fit' \in [Pod -> [restarts : Nat, rounds : 0..(StabilityTicks + 1)]]
      BY <1>1, FitTyped DEF AuditAct
    <2>3. QED  BY <1>1, <2>1, <2>2 DEF AuditAct, AuditTypeOK
  <1>2. CASE DiscoverFails /\ fit' = [p \in Pod |-> [fit[p] EXCEPT !.rounds = 0]]
               /\ UNCHANGED <<quiet, unexpected>>
    <2>1. 0 \in 0..(StabilityTicks + 1)  BY Bounds
    <2>2. \A p \in Pod : fit[p] \in [restarts : Nat, rounds : 0..(StabilityTicks + 1)]
      BY DEF AuditTypeOK
    <2>3. fit' \in [Pod -> [restarts : Nat, rounds : 0..(StabilityTicks + 1)]]
      BY <1>2, <2>1, <2>2
    <2>4. QED  BY <1>2, <2>3 DEF AuditTypeOK
  <1>3. CASE unexpected' \subseteq Pod /\ UNCHANGED <<quiet, fit>>
    BY <1>3 DEF AuditTypeOK
  <1>4. QED  BY <1>1, <1>2, <1>3 DEF AuditNext, AuditTypeOK

\* How a promotion comes about when it is not a request that was given up: the
\* controller's call is handled.
LEMMA NewlyPromoting ==
  ASSUME ElectionTypeOK, NEW q \in Promoting' \ Promoting,
         RoundStep \/ Act \/ DiscoverFails \/ PromoteStep \/ DemoteStep \/ ReplicaStep
           \/ ControllerCrash
  PROVE  PromoteHandled /\ rpc.pod = q
  <1>1. role \in [Pod -> Roles] /\ q \in Pod /\ role'[q] = "promoting" /\ role[q] # "promoting"
    BY DEF ElectionTypeOK, RoleTypeOK, Promoting
  <1>2. CASE RoundStep \/ Act \/ DiscoverFails \/ ControllerCrash
    <2>1. role' = role
      BY <1>2 DEF RoundStep, Discover, Remember, Poll, Act, ActEmpty, ActLeaderless, ActLed,
                  EndRound, DiscoverFails, ControllerCrash, roleVars
    <2>2. QED  BY <1>1, <2>1
  <1>3. \A p : Promote(p) => p = q
    BY <1>1 DEF Promote, BeginPromotion, roleVars
  <1>4. CASE PromoteStep
    <2>1. PromoteHandled \/ role' = role
      BY <1>4 DEF PromoteStep, PromoteUnsent, PromoteWritten, PromoteReplied, PromoteLost, roleVars
    <2>2. QED  BY <1>1, <1>3, <2>1 DEF PromoteHandled
  <1>5. CASE DemoteStep
    <2>1. role' = role
      BY <1>5 DEF DemoteStep, DemoteHandled, DemoteFails, LateDemote, DemoteRequest, Demote, roleVars
    <2>2. QED  BY <1>1, <2>1
  <1>6. ASSUME NEW p \in Pod, ReplicaRuns(p) \/ ReplicaFails(p) \/ ReplicaStops(p)
        PROVE  role' = role \/ \E r \in Roles \ {"promoting"} : role' = [role EXCEPT ![p] = r]
    <2>1. CASE ReplicaRuns(p)
      BY <2>1 DEF ReplicaRuns, BootFollower, FollowerReady, TaskStep, AcquireLease, LoadedAsLeader,
             BootedAsLeader, LeaseAcquired, InstallCommitter, FinishPromotion, WatchHeld, WatchLost,
             CommitFenced, Roles
    <2>2. CASE ReplicaFails(p)
      <3>1. GiveUpConnecting(p) => role' = [role EXCEPT ![p] =
               IF role[p] = "promoting" THEN "follower" ELSE "down"]
        BY DEF GiveUpConnecting
      <3>2. QED
        BY <2>2, <3>1 DEF ReplicaFails, TaskFault, ConnectFails, AcquireReplyLost, VerifyFails,
             BecomeLeaderFails, PromotionDeadline, WatchTransient, WatchNonTransient, Roles
    <2>3. CASE ReplicaStops(p)
      BY <2>3 DEF ReplicaStops, Exit, Crash, Down, Roles
    <2>4. QED  BY <1>6, <2>1, <2>2, <2>3
  <1>7. CASE ReplicaStep  BY <1>1, <1>6, <1>7 DEF ReplicaStep
  <1>8. QED  BY <1>2, <1>4, <1>5, <1>7

\* What keeps a promotion known, of the three in PromotionsKnown.
Known(q) ==
  \/ rpc = [pod |-> q, stage |-> "replied"]
  \/ seen[q] = 0
  \/ q \in DOMAIN obs /\ obs[q].reach => obs[q].promoting /\ ~obs[q].isLeader

LEMMA StaysKnown ==
  ASSUME ElectionInv, phase = "idle" => obs = NoRound, Next,
         NEW q \in Promoting, Known(q)
  PROVE  Known(q)'
  <1>1. q \in Pod /\ role[q] = "promoting"  BY DEF Promoting
  <1>2. RoundTypeOK /\ MemoryTypeOK /\ CallsTypeOK  BY TypeParts DEF ElectionInv
  <1>3. CASE Discover
    BY <1>3 DEF Discover, Known, Unreachable
  <1>4. CASE Remember
    <2>1. seen[q] = 0 => seen'[q] = 0  BY <1>1, <1>4 DEF Remember
    <2>2. /\ DOMAIN obs' = DOMAIN obs /\ rpc' = rpc
          /\ \A p \in DOMAIN obs : obs'[p].reach => obs'[p] = obs[p]
      <3>1. rpc' = rpc /\ obs' = [p \in DOMAIN obs |->
               IF obs[p].reach THEN obs[p]
               ELSE [obs[p] EXCEPT !.wasTransitioning = seen[p] # Forgotten]]
        BY <1>4 DEF Remember, callVars
      <3>2. \A p \in DOMAIN obs :
              [obs[p] EXCEPT !.wasTransitioning = seen[p] # Forgotten].reach = obs[p].reach
        BY <1>2 DEF RoundTypeOK, Observation
      <3>3. QED  BY <3>1, <3>2
    <2>3. QED  BY <2>1, <2>2 DEF Known
  <1>5. ASSUME NEW p \in Pod, Poll(p)  PROVE Known(q)'
    <2>1. rpc' = rpc /\ seen' = seen  BY <1>5 DEF Poll, callVars, memoryVars
    <2>2. obs' = obs \/ \E ok \in BOOLEAN : obs' = [obs EXCEPT ![p] = Answer(p, ok)]
      BY <1>5 DEF Poll
    <2>3. \A ok \in BOOLEAN : Answer(q, ok).promoting /\ ~Answer(q, ok).isLeader
      BY <1>1 DEF Answer
    <2>4. p \in DOMAIN obs  BY <1>5 DEF Poll
    <2>5. QED  BY <2>1, <2>2, <2>3, <2>4 DEF Known
  <1>6. CASE Act \/ ControllerCrash
    <2>1. obs' = NoRound
      BY <1>6 DEF Act, ActEmpty, ActLeaderless, ActLed, EndRound, ControllerCrash
    <2>2. QED  BY <2>1, NoRoundTyped DEF Known
  <1>7. CASE DiscoverFails
    <2>1. obs' = NoRound  BY <1>7 DEF DiscoverFails, roundVars
    <2>2. QED  BY <2>1, NoRoundTyped DEF Known
  <1>8. CASE PromoteStep
    <2>1. obs' = obs  BY <1>8 DEF PromoteStep, PromoteUnsent, PromoteWritten, PromoteHandled,
                         PromoteReplied, PromoteLost, callFrame, roundVars
    <2>2. CASE PromoteReplied \/ PromoteLost
      <3>1. seen' = [seen EXCEPT ![rpc.pod] = 0]  BY <2>2 DEF PromoteReplied, PromoteLost, CallEnds
      <3>2. seen[q] = 0 \/ rpc.pod = q => seen'[q] = 0  BY <1>1, <1>2, <3>1 DEF MemoryTypeOK
      <3>3. QED  BY <2>1, <3>2 DEF Known
    <2>3. CASE PromoteUnsent \/ PromoteWritten \/ PromoteHandled
      <3>1. rpc.stage # "replied" /\ seen' = seen
        BY <2>3 DEF PromoteUnsent, PromoteWritten, PromoteHandled
      <3>2. QED  BY <2>1, <3>1 DEF Known
    <2>4. QED  BY <1>8, <2>2, <2>3 DEF PromoteStep
  <1>9. CASE (\E p \in Pod : StrayPromote(p)) \/ DemoteStep \/ ReplicaStep
    <2>1. seen' = seen /\ obs' = obs /\ (rpc' = rpc \/ rpc.stage = "written")
      <3>1. (\E p \in Pod : StrayPromote(p)) \/ DemoteStep => seen' = seen /\ obs' = obs /\ rpc' = rpc
        BY DEF StrayPromote, DemoteStep, DemoteHandled, DemoteFails, LateDemote, callFrame,
               demoteFrame, roundVars, memoryVars
      <3>2. ReplicaStep => seen' = seen /\ obs' = obs /\ (rpc' = rpc \/ rpc.stage = "written")
        BY DEF ReplicaStep, ReplicaRuns, ReplicaFails, ReplicaStops, roundVars, memoryVars, callVars
      <3>3. QED  BY <1>9, <3>1, <3>2
    <2>2. QED  BY <2>1 DEF Known
  <1>10. QED
    BY <1>3, <1>4, <1>5, <1>6, <1>7, <1>8, <1>9 DEF Next, RoundStep

LEMMA PromotionsStayKnown ==
  ASSUME AuditInv, AuditNext
  PROVE  PromotionsKnown'
  <1> USE DEF AuditInv
  <1>1. Next
    <2>1. AuditAct => Act  BY DEF AuditAct
    <2>2. QED  BY <2>1 DEF AuditNext, Next
  <1>2. phase' = "idle" => obs' = NoRound
    <2>1. CASE RoundStep
      BY <2>1 DEF RoundStep, Discover, Remember, Poll
    <2>2. CASE Act \/ ControllerCrash
      BY <2>2 DEF Act, ActEmpty, ActLeaderless, ActLed, EndRound, ControllerCrash
    <2>3. DiscoverFails \/ PromoteStep \/ (\E p \in Pod : StrayPromote(p)) \/ DemoteStep \/ ReplicaStep
            => UNCHANGED <<phase, obs>>
      BY DEF DiscoverFails, PromoteStep, PromoteUnsent, PromoteWritten, PromoteHandled,
             PromoteReplied, PromoteLost, StrayPromote, DemoteStep, DemoteHandled, DemoteFails,
             LateDemote, ReplicaStep, ReplicaRuns, ReplicaFails, ReplicaStops, callFrame,
             demoteFrame, roundVars
    <2>4. QED  BY <1>1, <2>1, <2>2, <2>3 DEF Next, PromotionsKnown
  <1>3. ASSUME NEW q \in Promoting' \ unexpected'  PROVE Known(q)'
    <2>1. q \notin unexpected
      BY <1>3 DEF AuditNext, AuditAct
    <2>2. CASE q \in Promoting
      <3>1. Known(q)  BY <2>1, <2>2 DEF PromotionsKnown, Known
      <3>2. QED  BY <1>1, <2>2, <3>1, StaysKnown DEF PromotionsKnown
    <2>3. CASE q \notin Promoting
      <3>1. CASE \E p \in Pod : StrayPromote(p)
                   /\ unexpected' = unexpected \union ({p} \cap (Promoting' \ Promoting))
        <4>1. PICK p \in Pod : StrayPromote(p)
                   /\ unexpected' = unexpected \union ({p} \cap (Promoting' \ Promoting))
          BY <3>1
        <4>2. p # q  BY <1>3, <2>3, <4>1
        <4>3. q \in Pod /\ role[q] # "promoting" /\ role'[q] = "promoting"
          BY <1>3, <2>3 DEF Promoting
        <4>4. role \in [Pod -> Roles]  BY DEF ElectionInv, RoleInv, RoleTypeOK
        <4>5. QED
          BY <4>1, <4>2, <4>3, <4>4 DEF StrayPromote, Promote, BeginPromotion, roleVars
      <3>2. CASE RoundStep \/ Act \/ DiscoverFails \/ PromoteStep \/ DemoteStep \/ ReplicaStep
                   \/ ControllerCrash
        <4>1. PromoteHandled /\ rpc.pod = q
          BY <1>3, <2>3, <3>2, NewlyPromoting DEF ElectionInv
        <4>2. rpc \in Calls  BY DEF ElectionInv, ElectionTypeOK
        <4>3. rpc' = [pod |-> q, stage |-> "replied"]
          BY <4>1, <4>2 DEF PromoteHandled, Calls, NoCall
        <4>4. QED  BY <4>3 DEF Known
      <3>3. QED  BY <3>1, <3>2 DEF AuditNext, AuditAct
    <2>4. QED  BY <2>2, <2>3
  <1>4. \A q \in Promoting' \ unexpected' :
          \/ rpc' = [pod |-> q, stage |-> "replied"]
          \/ seen'[q] = 0
          \/ q \in DOMAIN obs' /\ obs'[q].reach => obs'[q].promoting /\ ~obs'[q].isLeader
    <2>1. TAKE q \in Promoting' \ unexpected'
    <2>2. Known(q)'  BY <1>3
    <2>3. QED  BY <2>2 DEF Known
  <1>5. NoRound' = NoRound  BY DEF NoRound
  <1>6. QED  BY ONLY <1>2, <1>4, <1>5 DEF PromotionsKnown

\* The clock of a candidate is behind the rounds that saw it fit.
ClockBehind ==
  failback.candidate # NoPod =>
    /\ fit[failback.candidate].restarts = failback.restarts
    /\ IF phase = "idle" THEN fit[failback.candidate].rounds > failback.age
                        ELSE fit[failback.candidate].rounds >= failback.age

\* One more fit round takes the clock's round with it.
LEMMA FitGoesAhead ==
  ASSUME AuditInv, NEW p \in promotable(obs), AuditAct
  PROVE  /\ fit'[p].restarts = obs[p].restarts
         /\ fit'[p].rounds > 0
         /\ p = failback.candidate /\ SameCandidate(obs, failback, p) /\ phase = "decide"
              => fit'[p].rounds > failback.age
  <1>1. RoundTypeOK /\ MemoryTypeOK /\ AuditTypeOK  BY TypeParts DEF AuditInv, ElectionInv
  <1>2. p \in DOMAIN obs /\ p \in Pod /\ isPromotable(obs[p])
    BY <1>1 DEF promotable, RoundTypeOK
  <1>3. fit'[p] = [restarts |-> obs[p].restarts,
                   rounds |-> IF fit[p].restarts = obs[p].restarts
                              THEN AtMost(fit[p].rounds + 1, StabilityTicks + 1) ELSE 1]
    BY <1>2 DEF AuditAct, fitNext
  <1>4. fit[p].rounds \in 0..(StabilityTicks + 1) /\ failback.age \in 0..StabilityTicks
    BY <1>1, <1>2 DEF AuditTypeOK, MemoryTypeOK
  <1>5. fit'[p].rounds > 0  BY <1>3, <1>4, Bounds DEF AtMost
  <1>6. ASSUME p = failback.candidate, SameCandidate(obs, failback, p), phase = "decide"
        PROVE  fit'[p].rounds > failback.age
    <2>1. p # NoPod  BY <1>2, Bounds
    <2>2. fit[p].restarts = obs[p].restarts /\ fit[p].rounds >= failback.age
      BY <1>6, <2>1 DEF AuditInv, CountsHonest, SameCandidate
    <2>3. fit'[p].rounds = AtMost(fit[p].rounds + 1, StabilityTicks + 1)  BY <1>3, <2>2
    <2>4. QED  BY <1>4, <2>2, <2>3, Bounds DEF AtMost
  <1>7. QED  BY <1>3, <1>5, <1>6

\* What evaluateFailback returns for a promotable candidate is honest.
LEMMA NextClockBehind ==
  ASSUME AuditInv, NEW p \in promotable(obs), AuditAct, phase = "decide",
         failback' = nextFailback(obs, failback, p)
           \/ failback' = [nextFailback(obs, failback, p) EXCEPT !.age = 0]
  PROVE  /\ failback'.candidate = p
         /\ fit'[p].restarts = failback'.restarts
         /\ fit'[p].rounds > failback'.age
         /\ fit'[p].rounds > nextFailback(obs, failback, p).age
  <1>1. LET next == nextFailback(obs, failback, p)
        IN  /\ next.candidate = p /\ next.restarts = obs[p].restarts
            /\ next.age = IF SameCandidate(obs, failback, p) THEN failback.age ELSE 0
            /\ failback'.candidate = p /\ failback'.restarts = obs[p].restarts
            /\ failback'.age \in {next.age, 0}
    BY DEF nextFailback
  <1>2. SameCandidate(obs, failback, p) => p = failback.candidate
    BY DEF SameCandidate
  <1>3. QED  BY <1>1, <1>2, FitGoesAhead

LEMMA ClockStaysBehind ==
  ASSUME AuditInv, AuditNext
  PROVE  ClockBehind'
  <1>1. RoundTypeOK /\ MemoryTypeOK /\ AuditTypeOK /\ ClockBehind
    BY TypeParts DEF AuditInv, ElectionInv, CountsHonest, ClockBehind
  <1>2. CASE failback' = NoFailback
    BY <1>2 DEF ClockBehind, NoFailback
  <1>3. CASE Discover /\ UNCHANGED fit
    <2>1. CASE failback = NoFailback  BY <1>2, <1>3, <2>1 DEF Discover
    <2>2. CASE failback # NoFailback
      <3>1. /\ failback' = [failback EXCEPT !.age = AtMost(@ + 1, StabilityTicks)]
            /\ phase = "idle" /\ phase' = "poll"
        BY <1>3, <2>2 DEF Discover
      <3>2. /\ failback'.candidate = failback.candidate /\ failback'.restarts = failback.restarts
            /\ failback'.age = AtMost(failback.age + 1, StabilityTicks)
        BY <1>1, <3>1 DEF MemoryTypeOK
      <3>3. failback.age \in Nat /\ AtMost(failback.age + 1, StabilityTicks) <= failback.age + 1
            /\ AtMost(failback.age + 1, StabilityTicks) \in Nat
        BY <1>1, Bounds DEF MemoryTypeOK, AtMost
      <3>4. failback.candidate # NoPod => fit[failback.candidate].rounds \in Nat
        BY <1>1 DEF MemoryTypeOK, AuditTypeOK
      <3>5. QED  BY <1>1, <1>3, <3>1, <3>2, <3>3, <3>4 DEF ClockBehind
    <2>3. QED  BY <2>1, <2>2
  <1>4. CASE AuditAct /\ ActLeaderless
    <2>1. phase = "decide" /\ phase' = "idle" /\ failback' = retainedFailback(obs, failback)
      BY <1>4 DEF ActLeaderless, EndRound, CommitLeaderless
    <2>2. CASE \E p \in promotable(obs) : SameCandidate(obs, failback, p)
      <3>1. PICK p \in promotable(obs) : SameCandidate(obs, failback, p)  BY <2>2
      <3>2. failback' = failback /\ failback.candidate = p /\ failback.restarts = obs[p].restarts
        BY <2>1, <3>1 DEF retainedFailback, SameCandidate
      <3>3. QED  BY <1>4, <2>1, <3>1, <3>2, FitGoesAhead DEF ClockBehind
    <2>3. CASE ~\E p \in promotable(obs) : SameCandidate(obs, failback, p)
      BY <1>2, <2>1, <2>3 DEF retainedFailback
    <2>4. QED  BY <2>2, <2>3
  <1>5. CASE AuditAct /\ ActLed
    <2>1. phase = "decide" /\ phase' = "idle"  BY <1>5 DEF ActLed, EndRound
    <2>2. \/ failback' = NoFailback
          \/ \E leader, p \in Pod :
               /\ BestFailbackCandidate(obs, leader, p)
               /\ \/ failback' = nextFailback(obs, failback, p)
                  \/ failback' = [nextFailback(obs, failback, p) EXCEPT !.age = 0]
      BY <1>5 DEF ActLed
    <2>3. CASE failback' # NoFailback
      <3>1. PICK p \in promotable(obs) :
               \/ failback' = nextFailback(obs, failback, p)
               \/ failback' = [nextFailback(obs, failback, p) EXCEPT !.age = 0]
        BY <2>2, <2>3 DEF BestFailbackCandidate, failbackCandidates
      <3>2. QED  BY <1>5, <2>1, <3>1, NextClockBehind DEF ClockBehind
    <2>4. QED  BY <1>2, <2>3
  <1>6. CASE (DiscoverFails \/ ActEmpty \/ ControllerCrash)
    BY <1>2, <1>6 DEF DiscoverFails, ActEmpty, ControllerCrash
  <1>7. CASE UNCHANGED <<failback, fit>> /\ (phase = "idle" <=> phase' = "idle")
    BY <1>1, <1>7 DEF ClockBehind
  <1>8. /\ Remember \/ (\E p \in Pod : Poll(p)) \/ PromoteStep \/ (\E p \in Pod : StrayPromote(p))
             \/ DemoteStep \/ ReplicaStep
        /\ UNCHANGED fit
        => UNCHANGED <<failback, fit>> /\ (phase = "idle" <=> phase' = "idle")
    BY DEF Remember, Poll, PromoteStep, PromoteUnsent, PromoteWritten, PromoteHandled,
           PromoteReplied, PromoteLost, StrayPromote, DemoteStep, DemoteHandled, DemoteFails,
           LateDemote, ReplicaStep, ReplicaRuns, ReplicaFails, ReplicaStops, callFrame,
           demoteFrame, roundVars, memoryVars
  <1>9. QED
    BY <1>3, <1>4, <1>5, <1>6, <1>7, <1>8 DEF AuditNext, AuditAct, Act, RoundStep

LEMMA StreakStaysHonest ==
  ASSUME AuditInv, AuditNext
  PROVE  streak' <= quiet'
  <1>1. /\ streak \in 0..PromoteDebounce /\ quiet \in 0..PromoteDebounce /\ streak <= quiet
        /\ PromoteDebounce \in Nat
    BY TypeParts, Bounds DEF AuditInv, ElectionInv, MemoryTypeOK, AuditTypeOK, CountsHonest
  <1>2. CASE AuditAct /\ ActEmpty
    <2>1. streak' \in {0, streak} /\ claimedLeaders(obs) = {}
      BY <1>2 DEF ActEmpty, claimedLeaders
    <2>2. quiet' = AtMost(quiet + 1, PromoteDebounce)  BY <1>2, <2>1 DEF AuditAct
    <2>3. QED  BY <1>1, <2>1, <2>2 DEF AtMost
  <1>3. CASE AuditAct /\ ActLeaderless
    <2>1. streak' \in {streak, AtMost(streak + 1, PromoteDebounce)}
      BY <1>3 DEF ActLeaderless, CommitLeaderless
    <2>2. quiet' = AtMost(quiet + 1, PromoteDebounce)  BY <1>3 DEF AuditAct, ActLeaderless
    <2>3. QED  BY <1>1, <2>1, <2>2 DEF AtMost
  <1>4. CASE AuditAct /\ ActLed
    BY <1>4 DEF AuditAct, ActLed, CommitLed
  <1>5. CASE quiet' = quiet /\ streak' \in {0, streak}
    BY <1>1, <1>5
  <1>6. RoundStep \/ DiscoverFails \/ PromoteStep \/ (\E p \in Pod : StrayPromote(p))
          \/ DemoteStep \/ ReplicaStep \/ ControllerCrash
          => streak' \in {0, streak}
    BY DEF RoundStep, Discover, Remember, Poll, DiscoverFails, PromoteStep, PromoteUnsent,
           PromoteWritten, PromoteHandled, PromoteReplied, PromoteLost, StrayPromote, DemoteStep,
           DemoteHandled, DemoteFails, LateDemote, ReplicaStep, ReplicaRuns, ReplicaFails,
           ReplicaStops, ControllerCrash, callFrame, demoteFrame, memoryVars
  <1>7. QED  BY <1>2, <1>3, <1>4, <1>5, <1>6 DEF AuditNext, AuditAct, Act

LEMMA AuditInvInitially == AuditInit => AuditInv
  <1> SUFFICES ASSUME AuditInit  PROVE AuditInv
    OBVIOUS
  <1>1. Init  BY DEF AuditInit
  <1>2. ElectionInv  BY <1>1, ElectionInvInitially
  <1>3. AuditTypeOK
    <2>1. quiet = 0 /\ unexpected = {} /\ fit = [p \in Pod |-> [restarts |-> 0, rounds |-> 0]]
      BY DEF AuditInit
    <2>2. 0 \in 0..PromoteDebounce /\ 0 \in 0..(StabilityTicks + 1)  BY Bounds
    <2>3. QED  BY <2>1, <2>2 DEF AuditTypeOK
  <1>4. Promoting = {}  BY <1>1 DEF Init, RoleInit, Promoting
  <1>5. PromotionsKnown  BY <1>1, <1>4 DEF Init, PromotionsKnown
  <1>6. streak = 0 /\ quiet = 0 /\ failback.candidate = NoPod
    BY <1>1 DEF AuditInit, Init, NoFailback
  <1>7. CountsHonest  BY <1>6 DEF CountsHonest
  <1>8. QED  BY <1>2, <1>3, <1>5, <1>7 DEF AuditInv

LEMMA StepKeepsAuditInv == AuditInv /\ [AuditNext]_<<vars, auditVars>> => AuditInv'
  <1> SUFFICES ASSUME AuditInv, [AuditNext]_<<vars, auditVars>>  PROVE AuditInv'
    OBVIOUS
  <1>1. ElectionInv'  BY AuditStepIsStep, StepKeepsElectionInv DEF AuditInv
  <1>2. CASE AuditNext
    <2>1. AuditTypeOK'  BY <1>2, AuditStepTyped, TypeParts DEF AuditInv, ElectionInv
    <2>2. PromotionsKnown'  BY <1>2, PromotionsStayKnown
    <2>3. CountsHonest'
      BY <1>2, ClockStaysBehind, StreakStaysHonest DEF CountsHonest, ClockBehind
    <2>4. QED  BY <1>1, <2>1, <2>2, <2>3 DEF AuditInv
  <1>3. CASE UNCHANGED <<vars, auditVars>>
    <2>1. UNCHANGED <<role, restarts, phase, obs, seen, rpc, streak, failback>>
          /\ UNCHANGED <<quiet, fit, unexpected>>
      BY <1>3 DEF vars, auditVars
    <2>2. NoRound' = NoRound  BY DEF NoRound
    <2>3. AuditTypeOK' /\ CountsHonest'
      BY <2>1 DEF AuditInv, AuditTypeOK, CountsHonest
    <2>4. PromotionsKnown'
      BY <2>1, <2>2 DEF AuditInv, PromotionsKnown, Promoting
    <2>5. QED  BY <1>1, <2>3, <2>4 DEF AuditInv
  <1>4. QED  BY <1>2, <1>3

\* A promotion starts where the round is acted on, and nowhere else.
LEMMA PromotionStartsInRound ==
  ASSUME AuditNext, NEW p \in Pod, PromotionStarts(p)
  PROVE  /\ AuditAct /\ mayPromote /\ ~anyTransitioning(obs)
         /\ \/ ActLeaderless /\ streak' = PromoteDebounce
            \/ /\ ActLed
               /\ \E leader \in Pod : BestFailbackCandidate(obs, leader, p)
               /\ failbackDue(nextFailback(obs, failback, p))
               /\ failback' = [nextFailback(obs, failback, p) EXCEPT !.age = 0]
  <1> DEFINE call == [pod |-> p, stage |-> "dial"]
  <1>1. rpc = NoCall /\ rpc' = call /\ rpc.stage = "none" /\ rpc' # rpc
    BY DEF PromotionStarts, NoCall
  <1>2. \A r \in Pod : StartPromote(r) => r = p  BY <1>1 DEF StartPromote
  <1>3. ~(RoundStep \/ DiscoverFails \/ (\E r \in Pod : StrayPromote(r)) \/ DemoteStep)
    BY <1>1 DEF RoundStep, Discover, Remember, Poll, DiscoverFails, StrayPromote, DemoteStep,
                DemoteHandled, DemoteFails, LateDemote, demoteFrame, callVars
  <1>4. ~PromoteStep
    BY <1>1 DEF PromoteStep, PromoteUnsent, PromoteWritten, PromoteHandled, PromoteReplied,
                PromoteLost
  <1>5. ~ReplicaStep
    BY <1>1 DEF ReplicaStep, ReplicaRuns, ReplicaFails, ReplicaStops, callVars
  <1>6. ~ControllerCrash  BY <1>1 DEF ControllerCrash
  <1>7. AuditAct  BY <1>3, <1>4, <1>5, <1>6 DEF AuditNext
  <1>8. CASE ActLeaderless
    <2>1. Replace  BY <1>1, <1>8 DEF ActLeaderless, Retain
    <2>2. QED  BY <1>1, <1>7, <1>8, <2>1 DEF Replace
  <1>9. CASE ActLed
    BY <1>1, <1>2, <1>7, <1>9 DEF ActLed
  <1>10. ~ActEmpty  BY <1>1 DEF ActEmpty
  <1>11. QED  BY <1>7, <1>8, <1>9, <1>10 DEF AuditAct, Act

\* What the audited behaviours keep: the controller knows of the promotions it asked
\* for, and its counts are not ahead of the rounds there were.
THEOREM AuditInvariance == AuditSpec => []AuditInv
  BY AuditInvInitially, StepKeepsAuditInv, PTL DEF AuditSpec

\* At no interleaving of polls, calls that are late or lost and restarts does the
\* controller start a promotion while one it asked for, and could have seen, is under
\* way (rememberTransitions, tryAcquirePromote).
THEOREM PromotesOneAtATime == AuditSpec => NoSecondPromotion
  <1>1. ASSUME AuditInv, [AuditNext]_<<vars, auditVars>>
        PROVE  [\A p \in Pod : PromotionStarts(p) =>
                  \A q \in Promoting \ {p} :
                    q \in unexpected \/ q \notin DOMAIN obs \/ ~obs[q].reach]_<<vars, auditVars>>
    <2> SUFFICES ASSUME AuditNext, NEW p \in Pod, PromotionStarts(p),
                        NEW q \in Promoting \ {p}, q \notin unexpected, q \in DOMAIN obs, obs[q].reach
                 PROVE  FALSE
      BY <1>1
    <2>1. mayPromote /\ ~anyTransitioning(obs)  BY PromotionStartsInRound
    <2>2. q \in Pod  BY DEF Promoting
    <2>3. rpc # [pod |-> q, stage |-> "replied"] /\ seen[q] # 0
      BY <2>1, <2>2 DEF mayPromote, NoCall
    <2>4. obs[q].promoting /\ ~obs[q].isLeader
      BY <1>1, <2>3 DEF AuditInv, PromotionsKnown
    <2>5. isTransitioning(obs[q])  BY <2>4 DEF isTransitioning
    <2>6. QED  BY <2>1, <2>5 DEF anyTransitioning
  <1>2. QED  BY <1>1, AuditInvariance, PTL DEF AuditSpec, NoSecondPromotion

\* No promotion starts before its rounds are full (commitState, actLeaderless,
\* evaluateFailback), for every debounce and stability window.
THEOREM PromotesAfterFullRounds == AuditSpec => RoundsCounted
  <1>1. ASSUME AuditInv, [AuditNext]_<<vars, auditVars>>
        PROVE  [\A p \in Pod : PromotionStarts(p) =>
                  IF claimedLeaders(obs) = {} THEN quiet' >= PromoteDebounce
                  ELSE fit'[p].rounds > StabilityTicks]_<<vars, auditVars>>
    <2> SUFFICES ASSUME AuditNext, NEW p \in Pod, PromotionStarts(p)
                 PROVE  IF claimedLeaders(obs) = {} THEN quiet' >= PromoteDebounce
                        ELSE fit'[p].rounds > StabilityTicks
      BY <1>1
    <2>1. CASE ActLeaderless /\ streak' = PromoteDebounce
      <3>1. quiet' >= PromoteDebounce
        <4>1. streak' <= quiet'  BY <1>1, StreakStaysHonest
        <4>2. quiet' \in Nat
          BY <1>1, AuditStepTyped, TypeParts DEF AuditInv, ElectionInv, AuditTypeOK
        <4>3. QED  BY <2>1, <4>1, <4>2, Bounds
      <3>2. QED  BY <2>1, <3>1 DEF ActLeaderless
    <2>2. CASE /\ ActLed
               /\ \E leader \in Pod : BestFailbackCandidate(obs, leader, p)
               /\ failbackDue(nextFailback(obs, failback, p))
               /\ failback' = [nextFailback(obs, failback, p) EXCEPT !.age = 0]
      <3>1. p \in promotable(obs)
        BY <2>2 DEF BestFailbackCandidate, failbackCandidates
      <3>2. AuditAct  BY PromotionStartsInRound
      <3>3. fit'[p].rounds > nextFailback(obs, failback, p).age
        BY <1>1, <2>2, <3>1, <3>2, NextClockBehind DEF ActLed
      <3>4. nextFailback(obs, failback, p).age >= StabilityTicks
        BY <2>2 DEF failbackDue
      <3>5. nextFailback(obs, failback, p).age \in Nat
        BY <1>1, TypeParts DEF AuditInv, ElectionInv, MemoryTypeOK, nextFailback
      <3>6. fit'[p].rounds \in Nat
        BY <1>1, AuditStepTyped, TypeParts DEF AuditInv, ElectionInv, AuditTypeOK
      <3>7. fit'[p].rounds > StabilityTicks  BY <3>3, <3>4, <3>5, <3>6, Bounds
      <3>8. QED  BY <2>2, <3>7 DEF ActLed
    <2>3. QED  BY <2>1, <2>2, PromotionStartsInRound
  <1>2. QED  BY <1>1, AuditInvariance, PTL DEF AuditSpec, RoundsCounted
===============================================================================
