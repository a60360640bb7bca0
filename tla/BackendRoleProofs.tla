-------------------------- MODULE BackendRoleProofs --------------------------
(***************************************************************************)
(* Proofs about the backend role machine, for every set of replicas, every *)
(* set of clock readings and every bound.                                  *)
(***************************************************************************)
EXTENDS BackendRole, TLAPS

\* An acquired lease is above the row, whatever the clock read (lease_acquire).
LEMMA AcquiredAbove ==
  ASSUME lease \in Nat, NEW now \in Clock
  PROVE  AcquiredTs(now) \in Nat /\ AcquiredTs(now) > lease
  BY ClockAssumption DEF AcquiredTs, Greatest

\* The initial state satisfies the inductive invariant.
LEMMA RoleInvInit == RoleInit => RoleInv
  BY BoundAssumption
     DEF RoleInit, RoleInv, RoleTypeOK, LeasesDistinct, TaskShape, Roles, Tasks

\* Boot, exit and crash preserve the inductive invariant.
LEMMA LifecycleKeepsInv ==
  ASSUME RoleInv, NEW p \in Pod, Lifecycle(p)
  PROVE  RoleInv'
  <1> USE DEF RoleInv, RoleTypeOK, LeasesDistinct, TaskShape, Roles, Tasks
  <1>1. CASE BootFollower(p)  BY <1>1 DEF BootFollower
  <1>2. CASE FollowerReady(p)  BY <1>2 DEF FollowerReady
  <1>3. CASE BootLeader(p)  BY <1>3 DEF BootLeader
  <1>4. CASE Exit(p) \/ Crash(p)
    <2>1. Down(p) /\ lease' = lease  BY <1>4 DEF Exit, Crash
    <2>2. RoleTypeOK'  BY <2>1, BoundAssumption DEF Down
    <2>3. LeasesDistinct'  BY <2>1 DEF Down
    <2>4. TaskShape'  BY <2>1, BoundAssumption DEF Down
    <2>5. QED  BY <2>2, <2>3, <2>4
  <1>5. QED  BY <1>1, <1>2, <1>3, <1>4 DEF Lifecycle

\* The promotion task preserves it: the acquired lease is new.
LEMMA TaskStepKeepsInv ==
  ASSUME RoleInv, NEW p \in Pod, TaskStep(p)
  PROVE  RoleInv'
  <1> USE DEF RoleInv, RoleTypeOK, TaskShape, Roles, Tasks
  <1>1. CASE AcquireLease(p)
    <2>1. PICK now \in Clock : /\ lease' = AcquiredTs(now)
                               /\ held' = [held EXCEPT ![p] = AcquiredTs(now)]
      BY <1>1 DEF AcquireLease
    <2>2. lease' \in Nat /\ lease' > lease
      BY <2>1, AcquiredAbove
    <2>3. RoleTypeOK' /\ TaskShape'
      BY <1>1, <2>1, <2>2 DEF AcquireLease
    <2>4. LeasesDistinct'
      BY <2>1, <2>2 DEF LeasesDistinct
    <2>5. QED  BY <2>3, <2>4
  <1>2. CASE LoadedAsLeader(p)  BY <1>2 DEF LoadedAsLeader, LeasesDistinct
  <1>3. CASE BootedAsLeader(p)
    BY <1>3, BoundAssumption DEF BootedAsLeader, LeasesDistinct
  <1>4. CASE LeaseAcquired(p)  BY <1>4 DEF LeaseAcquired, LeasesDistinct
  <1>5. CASE InstallCommitter(p)
    BY <1>5, BoundAssumption DEF InstallCommitter, LeasesDistinct
  <1>6. CASE FinishPromotion(p)  BY <1>6 DEF FinishPromotion, LeasesDistinct
  <1>7. QED  BY <1>1, <1>2, <1>3, <1>4, <1>5, <1>6 DEF TaskStep

\* The faults of the promotion task preserve it, the lost answer of an UPDATE
\* that moved the row included.
LEMMA TaskFaultKeepsInv ==
  ASSUME RoleInv, NEW p \in Pod, TaskFault(p)
  PROVE  RoleInv'
  <1> USE DEF RoleInv, RoleTypeOK, TaskShape, Roles, Tasks
  <1>1. CASE ConnectFails(p)
    BY <1>1 DEF ConnectFails, GiveUpConnecting, LeasesDistinct
  <1>2. CASE AcquireReplyLost(p)
    <2>1. PICK now \in Clock : lease' = AcquiredTs(now)
      BY <1>2 DEF AcquireReplyLost
    <2>2. lease' \in Nat /\ lease' > lease
      BY <2>1, AcquiredAbove
    <2>3. UNCHANGED <<preempt, probes, verified>>
      BY <1>2 DEF AcquireReplyLost
    <2>4. CASE GiveUpConnecting(p)
      BY <2>2, <2>3, <2>4 DEF GiveUpConnecting, LeasesDistinct
    <2>5. CASE UNCHANGED <<role, task, held>>
      BY <2>2, <2>3, <2>5 DEF LeasesDistinct
    <2>6. QED  BY <1>2, <2>4, <2>5 DEF AcquireReplyLost
  <1>3. CASE VerifyFails(p)
    BY <1>3 DEF VerifyFails, GiveUpConnecting, LeasesDistinct
  <1>4. CASE BecomeLeaderFails(p)
    BY <1>4 DEF BecomeLeaderFails, Abandon, Preempt, LeasesDistinct
  <1>5. CASE PromotionDeadline(p)
    <2>1. held' \in [Pod -> Nat] /\ \A q \in Pod : held'[q] \in {0, held[q]}
      BY <1>5 DEF PromotionDeadline, ReportedLease
    <2>2. LeasesDistinct'
      BY <1>5, <2>1 DEF PromotionDeadline, LeasesDistinct
    <2>3. RoleTypeOK' /\ TaskShape'
      BY <1>5, <2>1 DEF PromotionDeadline, ReportedLease, Abandon, Preempt
    <2>4. QED  BY <2>2, <2>3
  <1>6. QED  BY <1>1, <1>2, <1>3, <1>4, <1>5 DEF TaskFault

\* The lease watch, a fenced commit and a demotion touch no lease and no role.
LEMMA WatchKeepsInv ==
  ASSUME RoleInv, NEW p \in Pod,
         WatchStep(p) \/ CommitFenced(p) \/ \E expected \in 0..MaxLease : Demote(p, expected)
  PROVE  RoleInv'
  <1> USE DEF RoleInv, RoleTypeOK, LeasesDistinct, TaskShape
  <1>1. CASE WatchHeld(p) \/ WatchTransient(p)
    <2>1. /\ probes' = [probes EXCEPT ![p] = 0]
          /\ \E b \in BOOLEAN : verified' = [verified EXCEPT ![p] = b]
          /\ UNCHANGED <<lease, role, task, held, preempt>>
      BY <1>1 DEF WatchHeld, WatchTransient
    <2>2. QED  BY <2>1, BoundAssumption
  <1>2. CASE WatchLost(p) \/ CommitFenced(p)
    BY <1>2 DEF WatchLost, CommitFenced, Preempt
  <1>3. CASE WatchNonTransient(p)
    <2>1. probes[p] + 1 \in 0..MaxProbeFailures
      BY <1>3, BoundAssumption DEF WatchNonTransient, Watching
    <2>2. RoleTypeOK' /\ LeasesDistinct'
      BY <1>3, <2>1 DEF WatchNonTransient
    <2>3. preempt'[p] = (probes[p] + 1 >= MaxProbeFailures)
      BY <1>3 DEF WatchNonTransient
    <2>4. ASSUME probes[p] + 1 = MaxProbeFailures  PROVE preempt'[p]
      <3>1. probes[p] + 1 >= MaxProbeFailures  BY <2>4, BoundAssumption
      <3>2. QED  BY <3>1, <2>3, Zenon
    <2>5. /\ probes'[p] = probes[p] + 1
          /\ \A q \in Pod \ {p} : probes'[q] = probes[q] /\ preempt'[q] = preempt[q]
          /\ UNCHANGED <<lease, role, task, held>>
      BY <1>3 DEF WatchNonTransient
    <2>6. TaskShape'
      BY <2>4, <2>5
    <2>7. QED  BY <2>2, <2>6
  <1>4. CASE \E expected \in 0..MaxLease : Demote(p, expected)
    BY <1>4 DEF Demote, Preempt
  <1>5. QED  BY <1>1, <1>2, <1>3, <1>4 DEF WatchStep

\* Every step of the role machine preserves the inductive invariant.
LEMMA RoleInvStep == RoleInv /\ [RoleNext]_roleVars => RoleInv'
  <1> SUFFICES ASSUME RoleInv, [RoleNext]_roleVars  PROVE RoleInv'
    OBVIOUS
  <1>1. CASE UNCHANGED roleVars
    BY <1>1 DEF roleVars, RoleInv, RoleTypeOK, LeasesDistinct, TaskShape
  <1>2. ASSUME NEW p \in Pod, BeginPromotion(p)  PROVE RoleInv'
    BY <1>2 DEF BeginPromotion, RoleInv, RoleTypeOK, LeasesDistinct, TaskShape, Roles, Tasks
  <1>3. QED
    BY <1>1, <1>2, LifecycleKeepsInv, TaskStepKeepsInv, TaskFaultKeepsInv, WatchKeepsInv
       DEF RoleNext

\* What one step does to the row and to the leases held: the row only rises,
\* and a process either keeps its lease, drops it, or acquires the row's.
LEMMA LeaseStep ==
  ASSUME RoleInv, [RoleNext]_roleVars
  PROVE  /\ lease' \in Nat /\ lease' >= lease
         /\ \A p \in Pod :
              \/ held'[p] \in {0, held[p]}
              \/ task[p] = "connect" /\ held'[p] = lease' /\ lease' > lease
  <1> USE DEF RoleInv, RoleTypeOK, TaskShape
  <1>1. CASE UNCHANGED roleVars  BY <1>1 DEF roleVars
  <1>2. ASSUME NEW p \in Pod,
               \/ AcquireLease(p)
               \/ AcquireReplyLost(p)
        PROVE  /\ lease' \in Nat /\ lease' >= lease
               /\ \A q \in Pod :
                    \/ held'[q] \in {0, held[q]}
                    \/ task[q] = "connect" /\ held'[q] = lease' /\ lease' > lease
    <2>1. PICK now \in Clock : lease' = AcquiredTs(now)
      BY <1>2 DEF AcquireLease, AcquireReplyLost
    <2>2. lease' \in Nat /\ lease' > lease  BY <2>1, AcquiredAbove
    <2>3. CASE AcquireLease(p)  BY <2>2, <2>3 DEF AcquireLease
    <2>4. CASE AcquireReplyLost(p)
      BY <2>2, <2>4 DEF AcquireReplyLost, GiveUpConnecting
    <2>5. QED  BY <1>2, <2>3, <2>4
  <1>3. ASSUME NEW p \in Pod,
               \/ Lifecycle(p) \/ BeginPromotion(p)
               \/ TaskStep(p) /\ ~AcquireLease(p)
               \/ TaskFault(p) /\ ~AcquireReplyLost(p)
               \/ WatchStep(p) \/ CommitFenced(p)
               \/ \E expected \in 0..MaxLease : Demote(p, expected)
        PROVE  lease' = lease /\ \A q \in Pod : held'[q] \in {0, held[q]}
    <2>1. CASE Lifecycle(p)
      BY <2>1 DEF Lifecycle, BootFollower, FollowerReady, BootLeader, Exit, Crash, Down
    <2>2. CASE BeginPromotion(p)  BY <2>2 DEF BeginPromotion
    <2>3. CASE TaskStep(p) /\ ~AcquireLease(p)
      BY <2>3 DEF TaskStep, LoadedAsLeader, BootedAsLeader, LeaseAcquired,
                  InstallCommitter, FinishPromotion
    <2>4. CASE TaskFault(p) /\ ~AcquireReplyLost(p)
      BY <2>4 DEF TaskFault, ConnectFails, GiveUpConnecting, VerifyFails,
                  BecomeLeaderFails, PromotionDeadline, ReportedLease
    <2>5. CASE \/ WatchStep(p) \/ CommitFenced(p)
               \/ \E expected \in 0..MaxLease : Demote(p, expected)
      BY <2>5 DEF WatchStep, WatchHeld, WatchLost, WatchTransient, WatchNonTransient,
                  CommitFenced, Demote
    <2>6. QED  BY <1>3, <2>1, <2>2, <2>3, <2>4, <2>5
  <1>4. CASE RoleNext
    <2>1. PICK p \in Pod :
            \/ AcquireLease(p) \/ AcquireReplyLost(p)
            \/ Lifecycle(p) \/ BeginPromotion(p)
            \/ TaskStep(p) /\ ~AcquireLease(p)
            \/ TaskFault(p) /\ ~AcquireReplyLost(p)
            \/ WatchStep(p) \/ CommitFenced(p)
            \/ \E expected \in 0..MaxLease : Demote(p, expected)
      BY <1>4, Zenon DEF RoleNext
    <2>2. QED  BY <1>2, <1>3, <2>1
  <1>5. QED  BY <1>1, <1>4

\* The role machine is type correct and its processes are consistent.
THEOREM RoleInvariance == RoleSpec => []RoleInv
  BY RoleInvInit, RoleInvStep, PTL DEF RoleSpec

\* Whatever the clocks read and whichever UPDATE answers are lost, no two
\* processes hold one lease (Lease::acquire).
THEOREM LeaseUniqueness == RoleSpec => []LeasesDistinct
  <1>1. RoleInv => LeasesDistinct  BY DEF RoleInv
  <1>2. QED  BY <1>1, RoleInvariance, PTL

\* The highest lease reported is the only one that can be the row's, which is
\* what betterLeader assumes of the claims it compares.
THEOREM HighestReport == RoleSpec => []HighestReportWins
  <1>1. RoleInv => HighestReportWins
    BY DEF RoleInv, RoleTypeOK, LeasesDistinct, HighestReportWins, ReportedLease, HoldsLease
  <1>2. QED  BY <1>1, RoleInvariance, PTL

\* A lease that was stolen is lost to its holder for good: it cannot come to
\* match the row again (Lease::acquire, spawn_lease_watch).
THEOREM StolenForGood == RoleSpec => StolenStaysStolen
  <1>1. RoleInv /\ [RoleNext]_roleVars =>
          [\A p \in Pod : held[p] # 0 /\ ~HoldsLease(p) =>
             held'[p] \in {0, held[p]} /\ ~HoldsLease(p)']_roleVars
    <2> SUFFICES ASSUME RoleInv, [RoleNext]_roleVars,
                        NEW p \in Pod, held[p] # 0, ~HoldsLease(p)
                 PROVE  held'[p] \in {0, held[p]} /\ ~HoldsLease(p)'
      OBVIOUS
    <2>1. held[p] < lease /\ task[p] # "connect"
      BY DEF RoleInv, RoleTypeOK, LeasesDistinct, TaskShape, HoldsLease
    <2>2. lease' >= lease /\ held'[p] \in {0, held[p]}
      BY <2>1, LeaseStep
    <2>3. lease \in Nat /\ lease' \in Nat /\ held[p] \in Nat
      BY LeaseStep DEF RoleInv, RoleTypeOK
    <2>4. QED  BY <2>1, <2>2, <2>3 DEF HoldsLease
  <1>2. QED  BY <1>1, RoleInvariance, PTL DEF RoleSpec, StolenStaysStolen
=============================================================================
