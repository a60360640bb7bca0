----------------------------- MODULE ReplicaProofs -----------------------------
(***************************************************************************)
(* Proofs about the replicas and the log they share, for every set of      *)
(* replicas and every bound: the inductive invariant of Replica, and that  *)
(* the replicas implement FencedLog.                                       *)
(***************************************************************************)
EXTENDS Replica, BackendRoleProofs

\* A step of the replicas is a step of their roles, or leaves those alone.
LEMMA StepIsRoleStep ==
  ASSUME [Next]_vars
  PROVE  [RoleNext]_roleVars
  <1>1. CASE UNCHANGED vars  BY <1>1 DEF vars, roleVars
  <1>2. ASSUME NEW p \in Pod, BootStep(p)  PROVE RoleNext
    BY <1>2 DEF BootStep, StartFollower, StartedFollower, StartLeader, LoadLeader, Stop,
                RoleNext, Lifecycle, TaskStep
  <1>3. ASSUME NEW p \in Pod, PromotionStep(p)  PROVE RoleNext
    BY <1>3 DEF PromotionStep, RoleNext, TaskStep
  <1>4. ASSUME NEW p \in Pod, TailStep(p) \/ CommitStep(p)  PROVE UNCHANGED roleVars
    BY <1>4 DEF TailStep, TailRecent, TailDemand, ColdReload, Reloaded, ApplyTransaction,
                FastForwarded, TailFails, FinalFastForward, FastForward,
                CommitStep, AssignTs, PersistCommit, BumpMaxRepeatable
  <1>5. ASSUME NEW p \in Pod, BecomeLeader(p)  PROVE RoleNext
    BY <1>5 DEF BecomeLeader, RoleNext, TaskStep
  <1>6. QED  BY <1>1, <1>2, <1>3, <1>4, <1>5 DEF Next

\* The initial state satisfies the inductive invariant.
LEMMA ReplicaInvInit == Init => ReplicaInv
  BY RoleInvInit, TsAssumption
     DEF Init, ReplicaInv, RoleInit, DataTypeOK, StageShape, StageFits, LogShape, TailShape, EpochsInOrder,
         LeaderMissesNothing, PromotedTailerWithinLog, Settled, Writer, CommitterOn,
         HoldsLease, Tailing, Txn, Ts, Stages

\* The row's holder is one process (LeasesDistinct).
LEMMA OneHolder ==
  ASSUME RoleInv, NEW p \in Pod, NEW q \in Pod, HoldsLease(p), HoldsLease(q)
  PROVE  p = q
  BY DEF RoleInv, LeasesDistinct, HoldsLease

\* A timestamp of the log belongs to one transaction: those of different leases
\* are apart, and one lease commits each timestamp once.
LEMMA OneTxnPerTs ==
  ASSUME DataTypeOK, EpochsInOrder, NEW d \in log, NEW e \in log, d.ts = e.ts
  PROVE  d = e
  <1>1. d \in Txn /\ e \in Txn  BY DEF DataTypeOK
  <1>2. d.ts \in Nat /\ d.lease \in Nat /\ e.lease \in Nat  BY <1>1, TsAssumption DEF Txn, Ts
  <1>3. d.lease = e.lease  BY <1>2 DEF EpochsInOrder
  <1>4. QED  BY <1>1, <1>3 DEF Txn

-----------------------------------------------------------------------------
(* What a step may do without disturbing the invariant. *)

\* The writer goes on: it kept its lease, and what it adds is past its last commit.
WriterGoesOn(q) ==
  /\ Writer(q) /\ held'[q] = held[q] /\ last'[q] >= last[q]
  /\ \A u \in pending'[q] : u \in pending[q] \/ u > last[q]

\* A writer starts, past the log and the repeatable timestamp.
WriterStarts(q) ==
  /\ last'[q] >= maxRep /\ pending'[q] = {}
  /\ \A d \in log : d.ts <= last'[q]

WritersInOrder == \A q \in Pod : Writer(q)' => WriterGoesOn(q) \/ WriterStarts(q)

\* The tailer of q ends where no commit will land any more.
TailerLands(q) ==
  /\ snap'[q] = UpTo(tailed'[q]) /\ Settled(tailed'[q]) /\ Settled(target'[q])
  /\ stage'[q] = "load" => tailed'[q] <= target'[q]
  /\ stage'[q] = "final" => \A d \in log : d.ts <= tailed'[q] \/ d.ts <= target'[q]
  /\ stage'[q] = "handed" => \A d \in log : d.ts <= tailed'[q]

TailerStays(q) ==
  /\ Tailing(q) /\ (HoldsLease(q)' => HoldsLease(q))
  /\ stage'[q] = stage[q] /\ tailed'[q] = tailed[q]
  /\ target'[q] = target[q] /\ snap'[q] = snap[q]

TailersInOrder == \A q \in Pod : Tailing(q)' => TailerStays(q) \/ TailerLands(q)

\* A committer keeps what it loaded, or starts with the whole log.
CommittersInOrder ==
  \A q \in Pod : CommitterOn(q)' =>
    \/ CommitterOn(q) /\ held'[q] \in {0, held[q]} /\ snap'[q] = snap[q]
    \/ log \subseteq snap'[q]

\* t is settled once the step is done.
SettledAfter(t) ==
  /\ \A q \in Pod : Writer(q)' => last'[q] >= t /\ \A u \in pending'[q] : u > t
  /\ t <= maxRep' \/ \E d \in log' : t <= d.ts

\* The types, unfolded.
LEMMA DataTyped ==
  ASSUME DataTypeOK
  PROVE  /\ MaxTs \in Nat /\ maxRep \in Nat /\ maxRep <= MaxTs
         /\ \A d \in log : d \in Txn /\ d.ts \in Ts /\ d.ts \in Nat /\ d.lease \in Nat
         /\ \A q \in Pod : /\ tailed[q] \in Nat /\ target[q] \in Nat /\ last[q] \in Nat
                           /\ tailed[q] <= MaxTs /\ target[q] <= MaxTs /\ last[q] <= MaxTs
                           /\ \A u \in pending[q] : u \in Ts /\ u \in Nat
  BY TsAssumption DEF DataTypeOK, Txn, Ts

\* A settled timestamp stays settled: no writer falls back behind it.
LEMMA SettledStays ==
  ASSUME DataTypeOK, DataTypeOK', log \subseteq log', maxRep' >= maxRep, WritersInOrder,
         NEW t \in Nat, Settled(t)
  PROVE  SettledAfter(t)
  <1>1. \A q \in Pod : Writer(q)' => last'[q] >= t /\ \A u \in pending'[q] : u > t
    <2> SUFFICES ASSUME NEW q \in Pod, Writer(q)'
                 PROVE  last'[q] >= t /\ \A u \in pending'[q] : u > t
      OBVIOUS
    <2>1. last[q] \in Nat /\ last'[q] \in Nat /\ maxRep \in Nat
          /\ (\A u \in pending'[q] : u \in Nat) /\ (\A d \in log : d.ts \in Nat)
      BY DataTyped DEF DataTypeOK, Ts
    <2>2. CASE WriterGoesOn(q)  BY <2>1, <2>2 DEF WriterGoesOn, Settled
    <2>3. CASE WriterStarts(q)  BY <2>1, <2>3 DEF WriterStarts, Settled
    <2>4. QED  BY <2>2, <2>3 DEF WritersInOrder
  <1>2. t <= maxRep' \/ \E d \in log' : t <= d.ts
    <2>1. maxRep \in Nat /\ maxRep' \in Nat  BY DataTyped DEF DataTypeOK
    <2>2. QED  BY <2>1 DEF Settled
  <1>3. QED  BY <1>1, <1>2 DEF SettledAfter

\* A step that leaves the log alone keeps the log's part of the invariant.
LEMMA LogShapeKept ==
  ASSUME ReplicaInv, DataTypeOK', log' = log, lease' \in Nat, lease' >= lease, WritersInOrder,
         Settled(maxRep)', \A q \in Pod : Writer(q)' => held'[q] \in Nat
  PROVE  LogShape' /\ EpochsInOrder'
  <1>1. \A d \in log : d.ts \in Nat /\ d.lease \in Nat /\ d.lease <= lease /\ lease \in Nat
    BY DataTyped DEF ReplicaInv, LogShape, RoleInv, RoleTypeOK
  <1>2. \A q \in Pod : Writer(q)' =>
          \A d \in log : /\ d.ts <= last'[q]
                         /\ d.lease < held'[q] => \A u \in pending'[q] : d.ts < u
    <2> SUFFICES ASSUME NEW q \in Pod, Writer(q)', NEW d \in log
                 PROVE  /\ d.ts <= last'[q]
                        /\ d.lease < held'[q] => \A u \in pending'[q] : d.ts < u
      OBVIOUS
    <2>1. last[q] \in Nat /\ last'[q] \in Nat /\ \A u \in pending'[q] : u \in Nat
      BY DataTyped DEF ReplicaInv, DataTypeOK, Ts
    <2>2. CASE WriterGoesOn(q)
      BY <1>1, <2>1, <2>2 DEF WriterGoesOn, ReplicaInv, LogShape
    <2>3. CASE WriterStarts(q)  BY <2>3 DEF WriterStarts
    <2>4. QED  BY <2>2, <2>3 DEF WritersInOrder
  <1>3. \A d \in log' : d.lease <= lease'
    BY <1>1
  <1>4. EpochsInOrder'  BY DEF ReplicaInv, EpochsInOrder
  <1>5. QED  BY <1>2, <1>3, <1>4 DEF LogShape

\* A step that leaves the log alone keeps the tailers' part.
LEMMA TailShapeKept ==
  ASSUME ReplicaInv, DataTypeOK', log' = log, maxRep' >= maxRep, WritersInOrder,
         TailersInOrder
  PROVE  TailShape' /\ PromotedTailerWithinLog'
  <1>1. ASSUME NEW q \in Pod, Tailing(q)'
        PROVE  /\ (snap[q] = UpTo(tailed[q]) /\ Settled(tailed[q]) /\ Settled(target[q]))'
               /\ stage'[q] = "load" => tailed'[q] <= target'[q]
               /\ stage'[q] = "final" /\ HoldsLease(q)' =>
                    \A d \in log' : d.ts <= tailed'[q] \/ d.ts <= target'[q]
               /\ stage'[q] = "handed" /\ HoldsLease(q)' => \A d \in log' : d.ts <= tailed'[q]
    <2>1. tailed'[q] \in Nat /\ target'[q] \in Nat
      BY TsAssumption DEF DataTypeOK
    <2>2. /\ snap'[q] = UpTo(tailed'[q]) /\ Settled(tailed'[q]) /\ Settled(target'[q])
          /\ stage'[q] = "load" => tailed'[q] <= target'[q]
          /\ stage'[q] = "final" /\ HoldsLease(q)' =>
               \A d \in log : d.ts <= tailed'[q] \/ d.ts <= target'[q]
          /\ stage'[q] = "handed" /\ HoldsLease(q)' => \A d \in log : d.ts <= tailed'[q]
      <3>1. CASE TailerLands(q)  BY <3>1 DEF TailerLands
      <3>2. CASE TailerStays(q)  BY <3>2 DEF TailerStays, ReplicaInv, TailShape
      <3>3. QED  BY <1>1, <3>1, <3>2 DEF TailersInOrder
    <2>3. SettledAfter(tailed'[q]) /\ SettledAfter(target'[q])
      BY <2>1, <2>2, SettledStays DEF ReplicaInv
    <2>4. (snap[q] = UpTo(tailed[q]) /\ Settled(tailed[q]) /\ Settled(target[q]))'
      BY <2>2, <2>3 DEF UpTo, Settled, SettledAfter
    <2>5. QED  BY <2>2, <2>4
  <1>2. \A q \in Pod : (stage'[q] = "load" => Tailing(q)')
                       /\ (stage'[q] \in {"final", "handed"} /\ HoldsLease(q)' => Tailing(q)')
    BY DEF Tailing
  <1>3. TailShape'
    BY <1>1, <1>2 DEF TailShape
  <1>4. PromotedTailerWithinLog'
    BY <1>1, <1>2 DEF PromotedTailerWithinLog, Settled
  <1>5. QED  BY <1>3, <1>4

\* Every step but a commit keeps the invariant if writers, tailers and committers
\* are in order.
LEMMA InOrderKeepsInv ==
  ASSUME ReplicaInv, [RoleNext]_roleVars, DataTypeOK', StageShape',
         log' = log, maxRep' = maxRep \/ (maxRep' >= maxRep /\ Settled(maxRep)'),
         WritersInOrder, TailersInOrder, CommittersInOrder
  PROVE  ReplicaInv'
  <1>1. RoleInv'  BY RoleInvStep DEF ReplicaInv
  <1>2. lease' \in Nat /\ lease' >= lease  BY LeaseStep DEF ReplicaInv
  <1> maxRep \in Nat /\ maxRep' >= maxRep  BY DataTyped DEF ReplicaInv
  <1> Settled(maxRep)'
    BY SettledStays DEF ReplicaInv, LogShape, Settled, SettledAfter
  <1>3. LogShape' /\ EpochsInOrder'
    BY <1>1, <1>2, LogShapeKept DEF RoleInv, RoleTypeOK
  <1>4. TailShape' /\ PromotedTailerWithinLog'  BY TailShapeKept
  <1>5. LeaderMissesNothing'
    <2> SUFFICES ASSUME NEW q \in Pod, CommitterOn(q)', NEW d \in log, d.lease < held'[q]
                 PROVE  d \in snap'[q]
      BY DEF LeaderMissesNothing
    <2>1. d.lease \in Nat  BY DataTyped DEF ReplicaInv
    <2>2. QED  BY <2>1 DEF CommittersInOrder, ReplicaInv, LeaderMissesNothing
  <1>6. QED  BY <1>1, <1>3, <1>4, <1>5 DEF ReplicaInv

-----------------------------------------------------------------------------
(* The replicas a step is not about. *)

Untouched(q) ==
  /\ role'[q] = role[q] /\ task'[q] = task[q] /\ held'[q] = held[q]
  /\ stage'[q] = stage[q] /\ tailed'[q] = tailed[q] /\ target'[q] = target[q]
  /\ snap'[q] = snap[q] /\ last'[q] = last[q] /\ pending'[q] = pending[q]

\* One step is a step of one replica.
LEMMA OneReplicaMoves ==
  ASSUME ReplicaInv, NEW p \in Pod, NEW q \in Pod \ {p},
         \/ BootStep(p) \/ PromotionStep(p) \/ TailStep(p) \/ BecomeLeader(p) \/ CommitStep(p)
  PROVE  Untouched(q)
  <1> USE DEF Untouched, ReplicaInv, RoleInv, RoleTypeOK, DataTypeOK, roleVars
  <1>1. CASE BootStep(p)
    <2>1. CASE StartFollower(p)  BY <2>1 DEF StartFollower, BootFollower
    <2>2. CASE StartedFollower(p)  BY <2>2 DEF StartedFollower, FollowerReady, LoadSnapshot
    <2>3. CASE StartLeader(p)  BY <2>3 DEF StartLeader, BootLeader
    <2>4. CASE LoadLeader(p)
      BY <2>4 DEF LoadLeader, LoadedAsLeader, PersistIdleTs, StartCommitter
    <2>5. CASE Stop(p)  BY <2>5 DEF Stop, Exit, Crash, Down, LoseMemory
    <2>6. QED  BY <1>1, <2>1, <2>2, <2>3, <2>4, <2>5 DEF BootStep
  <1>2. CASE PromotionStep(p)
    <2>1. UNCHANGED dataVars  BY <1>2 DEF PromotionStep
    <2>2. CASE AcquireLease(p)  BY <2>1, <2>2 DEF AcquireLease, dataVars
    <2>3. CASE BeginPromotion(p) \/ LeaseAcquired(p) \/ FinishPromotion(p) \/ BootedAsLeader(p)
      BY <2>1, <2>3 DEF BeginPromotion, LeaseAcquired, FinishPromotion, BootedAsLeader, dataVars
    <2>4. CASE TaskFault(p)
      BY <2>1, <2>4 DEF TaskFault, ConnectFails, AcquireReplyLost, VerifyFails, BecomeLeaderFails,
                        PromotionDeadline, GiveUpConnecting, Abandon, dataVars
    <2>5. CASE \/ WatchStep(p) \/ CommitFenced(p)
               \/ \E expected \in 0..MaxLease : Demote(p, expected)
      BY <2>1, <2>5 DEF WatchStep, WatchHeld, WatchLost, WatchTransient, WatchNonTransient,
                        CommitFenced, Demote, dataVars
    <2>6. QED  BY <1>2, <2>2, <2>3, <2>4, <2>5 DEF PromotionStep
  <1>3. CASE TailStep(p)
    BY <1>3 DEF TailStep, TailRecent, TailDemand, ColdReload, Reloaded, LoadSnapshot,
                ApplyTransaction, FastForwarded, TailFails, FinalFastForward, FastForward
  <1>4. CASE BecomeLeader(p)
    BY <1>4 DEF BecomeLeader, InstallCommitter, PersistIdleTs, StartCommitter
  <1>5. CASE CommitStep(p)
    BY <1>5 DEF CommitStep, AssignTs, PersistCommit, BumpMaxRepeatable
  <1>6. QED  BY <1>1, <1>2, <1>3, <1>4, <1>5

\* A replica the step is not about stays in order: the row may have been stolen
\* from it, never given back to it.
LEMMA UntouchedInOrder ==
  ASSUME ReplicaInv, lease' \in Nat, lease' >= lease, NEW q \in Pod, Untouched(q)
  PROVE  /\ StageFits(q)'
         /\ CommitterOn(q)' = CommitterOn(q) /\ (HoldsLease(q)' => HoldsLease(q))
         /\ Writer(q)' => WriterGoesOn(q)
         /\ Tailing(q)' => TailerStays(q)
         /\ CommitterOn(q)' => CommitterOn(q) /\ held'[q] \in {0, held[q]} /\ snap'[q] = snap[q]
  <1>1. /\ lease \in Nat /\ held[q] \in Nat /\ held[q] <= lease /\ last[q] \in Nat
    BY DataTyped DEF ReplicaInv, RoleInv, RoleTypeOK, LeasesDistinct
  <1>2. HoldsLease(q)' => HoldsLease(q)
    BY <1>1 DEF HoldsLease, Untouched
  <1>3. CommitterOn(q)' = CommitterOn(q)
    BY DEF CommitterOn, Untouched
  <1>4. StageFits(q)'
    BY <1>3 DEF ReplicaInv, StageShape, StageFits, Untouched
  <1>5. Writer(q)' => WriterGoesOn(q)
    BY <1>1, <1>2, <1>3 DEF Writer, WriterGoesOn, Untouched
  <1>6. Tailing(q)' => TailerStays(q)
    BY <1>2 DEF Tailing, TailerStays, Untouched
  <1>7. QED  BY <1>2, <1>3, <1>4, <1>5, <1>6 DEF Untouched

\* So a step but a commit keeps the invariant if its own replica is in order.
LEMMA OneInOrderKeepsInv ==
  ASSUME ReplicaInv, [RoleNext]_roleVars, DataTypeOK', log' = log,
         maxRep' = maxRep \/ (maxRep' >= maxRep /\ Settled(maxRep)'),
         NEW p \in Pod,
         BootStep(p) \/ PromotionStep(p) \/ TailStep(p) \/ BecomeLeader(p) \/ CommitStep(p),
         StageFits(p)',
         Writer(p)' => WriterGoesOn(p) \/ WriterStarts(p),
         Tailing(p)' => TailerStays(p) \/ TailerLands(p),
         CommitterOn(p)' => \/ CommitterOn(p) /\ held'[p] \in {0, held[p]} /\ snap'[p] = snap[p]
                            \/ log \subseteq snap'[p]
  PROVE  ReplicaInv'
  <1>1. lease' \in Nat /\ lease' >= lease  BY LeaseStep DEF ReplicaInv
  <1>2. \A q \in Pod \ {p} : Untouched(q)  BY OneReplicaMoves
  <1>3. WritersInOrder  BY <1>1, <1>2, UntouchedInOrder DEF WritersInOrder
  <1>4. TailersInOrder  BY <1>1, <1>2, UntouchedInOrder DEF TailersInOrder
  <1>5. CommittersInOrder  BY <1>1, <1>2, UntouchedInOrder DEF CommittersInOrder
  <1>6. StageShape'  BY <1>1, <1>2, UntouchedInOrder DEF StageShape
  <1>7. QED  BY <1>3, <1>4, <1>5, <1>6, InOrderKeepsInv

-----------------------------------------------------------------------------
(* The steps of a replica. *)

\* The promotion's steps on the lease and the role: no committer appears, and no
\* tailer but that of a replica that had one.
LEMMA PromotionKeepsInv ==
  ASSUME ReplicaInv, NEW p \in Pod, PromotionStep(p)
  PROVE  ReplicaInv'
  <1>1. UNCHANGED dataVars  BY DEF PromotionStep
  <1>2. [RoleNext]_roleVars  BY StepIsRoleStep DEF Next
  <1>3. DataTypeOK'  BY <1>1 DEF dataVars, ReplicaInv, DataTypeOK
  <1>4. StageFits(p)' /\ (CommitterOn(p)' => CommitterOn(p))
    <2> USE <1>1 DEF dataVars, ReplicaInv, RoleInv, RoleTypeOK, TaskShape, StageShape, StageFits,
                     CommitterOn, Roles
    <2>1. CASE BeginPromotion(p)  BY <2>1 DEF BeginPromotion
    <2>2. CASE AcquireLease(p)  BY <2>2 DEF AcquireLease
    <2>3. CASE LeaseAcquired(p)  BY <2>3 DEF LeaseAcquired
    <2>4. CASE FinishPromotion(p)  BY <2>4 DEF FinishPromotion
    <2>5. CASE BootedAsLeader(p)  BY <2>5 DEF BootedAsLeader
    <2>6. CASE ConnectFails(p) \/ VerifyFails(p)
      BY <2>6 DEF ConnectFails, VerifyFails, GiveUpConnecting
    <2>7. CASE AcquireReplyLost(p)  BY <2>7 DEF AcquireReplyLost, GiveUpConnecting
    <2>8. CASE BecomeLeaderFails(p)  BY <2>8 DEF BecomeLeaderFails, Abandon
    <2>9. CASE PromotionDeadline(p)  BY <2>9 DEF PromotionDeadline, Abandon, ReportedLease
    <2>10. CASE \/ WatchStep(p) \/ CommitFenced(p)
                \/ \E expected \in 0..MaxLease : Demote(p, expected)
      BY <2>10 DEF WatchStep, WatchHeld, WatchLost, WatchTransient, WatchNonTransient,
                   CommitFenced, Demote
    <2>11. QED
      BY <2>1, <2>2, <2>3, <2>4, <2>5, <2>6, <2>7, <2>8, <2>9, <2>10
         DEF PromotionStep, TaskFault
  <1>5. /\ lease' \in Nat /\ lease' >= lease
        /\ held'[p] \in {0, held[p]} \/ task[p] = "connect"
    BY <1>2, LeaseStep DEF ReplicaInv
  <1>6. lease \in Nat /\ held[p] \in Nat /\ held[p] <= lease
    BY DEF ReplicaInv, RoleInv, RoleTypeOK, LeasesDistinct
  <1>7. task[p] # "connect" => /\ HoldsLease(p)' => HoldsLease(p) /\ held'[p] = held[p]
                               /\ held'[p] \in {0, held[p]}
    BY <1>5, <1>6 DEF HoldsLease
  <1>8. CommitterOn(p) => task[p] # "connect"
    BY DEF ReplicaInv, RoleInv, TaskShape, CommitterOn
  <1>9. Writer(p)' => WriterGoesOn(p)
    BY <1>1, <1>4, <1>7, <1>8, DataTyped DEF Writer, WriterGoesOn, dataVars, ReplicaInv
  <1>10. Tailing(p)' => TailerStays(p) \/ TailerLands(p)
    <2>1. CASE stage[p] \in {"load", "idle", "tail"}
      BY <1>1, <2>1 DEF dataVars, Tailing, TailerLands, ReplicaInv, TailShape
    <2>2. CASE stage[p] \in {"final", "handed"}
      <3>1. task[p] # "connect"  BY <2>2 DEF ReplicaInv, StageShape, StageFits
      <3>2. QED  BY <1>1, <1>7, <2>2, <3>1 DEF dataVars, Tailing, TailerStays
    <2>3. QED  BY <1>1, <2>1, <2>2 DEF dataVars, Tailing
  <1>11. QED
    BY <1>1, <1>2, <1>3, <1>4, <1>7, <1>8, <1>9, <1>10, OneInOrderKeepsInv DEF dataVars

\* What is below a settled timestamp is settled.
LEMMA SettledBelow ==
  ASSUME DataTypeOK, NEW t \in Nat, Settled(t), NEW s \in Nat, s <= t
  PROVE  Settled(s)
  BY DataTyped DEF Settled

\* Starting a committer at idle under the lease: the holder is the only writer, and
\* what it may still commit is past all there is.
LEMMA CommitterStarts ==
  ASSUME ReplicaInv, NEW p \in Pod, LoadLeader(p) \/ BecomeLeader(p)
  PROVE  /\ DataTypeOK' /\ log' = log
         /\ maxRep' >= maxRep /\ Settled(maxRep)'
         /\ Writer(p)' => WriterStarts(p)
         /\ stage'[p] = "off" /\ pending'[p] = {} /\ CommitterOn(p)'
  <1>1. PICK idle \in 0..MaxTs : PersistIdleTs(p, idle) /\ StartCommitter(p, idle)
    BY DEF LoadLeader, BecomeLeader
  <1>2. ~CommitterOn(p) /\ CommitterOn(p)' /\ UNCHANGED <<lease, held>>
    BY DEF LoadLeader, LoadedAsLeader, BecomeLeader, InstallCommitter, CommitterOn,
           ReplicaInv, RoleInv, RoleTypeOK, TaskShape
  <1>3. pending[p] = {}  BY <1>2 DEF ReplicaInv, StageShape, StageFits
  <1>4. /\ log' = log /\ maxRep' = idle /\ maxRep' >= maxRep
        /\ stage' = [stage EXCEPT ![p] = "off"] /\ tailed' = [tailed EXCEPT ![p] = idle]
        /\ last' = [last EXCEPT ![p] = idle] /\ UNCHANGED <<target, pending>>
        /\ \A d \in log : d.ts <= idle
    BY <1>1 DEF PersistIdleTs, StartCommitter
  <1>5. snap' \in [Pod -> SUBSET Txn]
    BY DEF LoadLeader, BecomeLeader, ReplicaInv, DataTypeOK
  <1>6. DataTypeOK'
    BY <1>4, <1>5 DEF ReplicaInv, DataTypeOK, Stages
  <1>7. last'[p] = idle /\ stage'[p] = "off" /\ pending'[p] = {}
    BY <1>3, <1>4 DEF ReplicaInv, DataTypeOK
  <1>8. WriterStarts(p)
    BY <1>4, <1>7 DEF WriterStarts
  <1>9. Settled(maxRep)'
    <2>1. ASSUME NEW q \in Pod, Writer(q)'  PROVE q = p
      <3>1. HoldsLease(q) /\ HoldsLease(p)
        BY <1>1, <1>2, <2>1 DEF Writer, HoldsLease, PersistIdleTs
      <3>2. QED  BY <3>1, OneHolder DEF ReplicaInv
    <2>2. idle \in Nat  BY TsAssumption
    <2>3. QED  BY <1>4, <1>7, <2>1, <2>2 DEF Settled
  <1>10. QED  BY <1>2, <1>4, <1>6, <1>7, <1>8, <1>9

\* Boot and exit.
LEMMA BootKeepsInv ==
  ASSUME ReplicaInv, NEW p \in Pod, BootStep(p)
  PROVE  ReplicaInv'
  <1>1. [RoleNext]_roleVars  BY StepIsRoleStep DEF Next
  <1> USE DEF ReplicaInv, RoleInv, RoleTypeOK, TaskShape, StageShape
  <1>2. CASE StartFollower(p)
    <2>1. /\ role[p] = "down" /\ role'[p] = "booting" /\ task'[p] = "none" /\ task[p] = "none"
          /\ stage'[p] = "load" /\ target'[p] = maxRep /\ tailed'[p] = 0 /\ snap'[p] = {}
          /\ pending'[p] = {} /\ UNCHANGED <<log, maxRep>>
      BY <1>2 DEF StartFollower, BootFollower, DataTypeOK, StageFits, CommitterOn
    <2>2. DataTypeOK'  BY <1>2 DEF StartFollower, DataTypeOK, Stages
    <2>3. StageFits(p)' /\ ~CommitterOn(p)'  BY <2>1 DEF StageFits, CommitterOn
    <2>4. TailerLands(p)
      <3>1. UpTo(0) = {}  BY DataTyped DEF UpTo, Ts
      <3>2. Settled(maxRep) /\ Settled(0)
        BY DataTyped, SettledBelow DEF LogShape
      <3>3. QED  BY <2>1, <3>1, <3>2, DataTyped DEF TailerLands
    <2>5. QED  BY <1>1, <1>2, <2>1, <2>2, <2>3, <2>4, OneInOrderKeepsInv DEF Writer
  <1>3. CASE StartedFollower(p)
    <2>1. /\ role[p] = "booting" /\ task[p] = "none" /\ role'[p] = "follower" /\ task'[p] = "none"
          /\ stage'[p] = "idle" /\ tailed'[p] = target[p] /\ target'[p] = target[p]
          /\ snap'[p] = UpTo(target[p]) /\ pending' = pending /\ UNCHANGED <<log, maxRep>>
      BY <1>3 DEF StartedFollower, FollowerReady, LoadSnapshot, DataTypeOK
    <2>2. DataTypeOK'  BY <1>3 DEF StartedFollower, LoadSnapshot, DataTypeOK, UpTo, Stages
    <2>3. StageFits(p)' /\ ~CommitterOn(p)'  BY <2>1 DEF StageFits, CommitterOn
    <2>4. TailerLands(p)
      <3>1. Tailing(p)  BY <2>1 DEF StageFits, Tailing
      <3>2. QED  BY <2>1, <3>1 DEF TailShape, TailerLands
    <2>5. QED  BY <1>1, <1>3, <2>1, <2>2, <2>3, <2>4, OneInOrderKeepsInv DEF Writer
  <1>4. CASE StartLeader(p)
    <2>1. /\ role[p] \in {"down", "booting"} /\ task[p] = "none"
          /\ role'[p] = "booting" /\ task'[p] = "connect" /\ stage'[p] = "off"
          /\ UNCHANGED <<log, maxRep, tailed, snap, pending>>
      BY <1>4 DEF StartLeader, BootLeader, DataTypeOK
    <2>2. DataTypeOK'  BY <1>4 DEF StartLeader, DataTypeOK, Stages
    <2>3. StageFits(p)' /\ ~CommitterOn(p)' /\ ~Tailing(p)'
      BY <2>1 DEF StageFits, CommitterOn, Tailing
    <2>4. QED  BY <1>1, <1>4, <2>1, <2>2, <2>3, OneInOrderKeepsInv DEF Writer
  <1>5. CASE LoadLeader(p)
    <2>1. role'[p] = "booting" /\ task'[p] = "workers" /\ snap'[p] = log
      BY <1>5 DEF LoadLeader, LoadedAsLeader, DataTypeOK
    <2>2. /\ DataTypeOK' /\ log' = log /\ maxRep' >= maxRep /\ Settled(maxRep)'
          /\ Writer(p)' => WriterStarts(p)
          /\ stage'[p] = "off" /\ pending'[p] = {} /\ CommitterOn(p)'
      BY <1>5, CommitterStarts
    <2>3. StageFits(p)' /\ ~Tailing(p)'  BY <2>1, <2>2 DEF StageFits, Tailing
    <2>4. QED  BY <1>1, <1>5, <2>1, <2>2, <2>3, OneInOrderKeepsInv
  <1>6. CASE Stop(p)
    <2>1. /\ role'[p] = "down" /\ task'[p] = "none" /\ stage'[p] = "off"
          /\ tailed'[p] = 0 /\ snap'[p] = {} /\ pending'[p] = {} /\ UNCHANGED <<log, maxRep>>
      BY <1>6 DEF Stop, Exit, Crash, Down, LoseMemory, DataTypeOK
    <2>2. DataTypeOK'  BY <1>6, TsAssumption DEF Stop, LoseMemory, DataTypeOK, Stages
    <2>3. StageFits(p)' /\ ~CommitterOn(p)' /\ ~Tailing(p)'
      BY <2>1 DEF StageFits, CommitterOn, Tailing
    <2>4. QED  BY <1>1, <1>6, <2>1, <2>2, <2>3, OneInOrderKeepsInv DEF Writer, BootStep
  <1>7. QED  BY <1>2, <1>3, <1>4, <1>5, <1>6 DEF BootStep

\* A promoted tailer hands over a snapshot with the whole log.
LEMMA HandoverKeepsInv ==
  ASSUME ReplicaInv, NEW p \in Pod, BecomeLeader(p)
  PROVE  ReplicaInv'
  <1>1. [RoleNext]_roleVars  BY StepIsRoleStep DEF Next
  <1>2. /\ DataTypeOK' /\ log' = log /\ maxRep' >= maxRep /\ Settled(maxRep)'
        /\ Writer(p)' => WriterStarts(p)
        /\ stage'[p] = "off" /\ pending'[p] = {} /\ CommitterOn(p)'
    BY CommitterStarts
  <1>3. task'[p] = "workers" /\ role' = role /\ task[p] = "install"
    BY DEF BecomeLeader, InstallCommitter, ReplicaInv, RoleInv, RoleTypeOK
  <1>4. StageFits(p)' /\ ~Tailing(p)'
    BY <1>2, <1>3 DEF StageFits, Tailing, ReplicaInv, RoleInv, TaskShape
  <1>5. log \subseteq snap'[p]
    <2>1. Tailing(p) /\ stage[p] = "handed" /\ HoldsLease(p) /\ snap' = snap
      BY DEF BecomeLeader, PersistIdleTs, Tailing
    <2>2. snap[p] = UpTo(tailed[p]) /\ \A d \in log : d.ts <= tailed[p]
      BY <2>1 DEF ReplicaInv, TailShape
    <2>3. QED  BY <2>1, <2>2 DEF UpTo
  <1>6. QED  BY <1>1, <1>2, <1>4, <1>5, OneInOrderKeepsInv

\* A step of the tailer keeps the invariant if the tailer lands.
LEMMA TailerStepKeepsInv ==
  ASSUME ReplicaInv, NEW p \in Pod, TailStep(p), DataTypeOK', ~CommitterOn(p),
         UNCHANGED <<roleVars, log, maxRep, pending>>,
         StageFits(p)', Tailing(p)' => TailerLands(p)
  PROVE  ReplicaInv'
  <1>1. ~CommitterOn(p)'  BY DEF CommitterOn, roleVars
  <1>2. QED  BY <1>1, OneInOrderKeepsInv DEF Writer

\* A goal no commit will land below is a goal the tailer may go to.
LEMMA FastForwardKeepsInv ==
  ASSUME ReplicaInv, NEW p \in Pod, TailStep(p), TailerIdle(p),
         NEW goal \in 0..MaxTs, NEW as \in {"tail", "load", "final"}, FastForward(p, goal, as),
         as # "final" \/ HoldsLease(p) => Settled(goal),
         as = "load" => tailed[p] <= goal,
         as = "final" => task[p] = "install" /\ \A d \in log : d.ts <= goal
  PROVE  ReplicaInv'
  <1>1. /\ stage'[p] = as /\ target'[p] = goal /\ stage[p] = "idle"
        /\ tailed' = tailed /\ snap' = snap
        /\ UNCHANGED <<roleVars, log, maxRep, last, pending>>
    BY DEF FastForward, TailerIdle, ReplicaInv, DataTypeOK
  <1>2. DataTypeOK'
    BY <1>1 DEF FastForward, ReplicaInv, DataTypeOK, Stages
  <1>3. StageFits(p)' /\ ~CommitterOn(p)
    BY <1>1 DEF TailerIdle, Serving, StageFits, CommitterOn, roleVars,
                ReplicaInv, StageShape, RoleInv, TaskShape
  <1>4. Tailing(p)' => TailerLands(p)
    <2>1. snap[p] = UpTo(tailed[p]) /\ Settled(tailed[p])
      BY <1>1 DEF Tailing, ReplicaInv, TailShape
    <2>2. Tailing(p)' => Settled(goal)
      BY <1>1 DEF Tailing, HoldsLease, roleVars
    <2>3. QED  BY <1>1, <2>1, <2>2 DEF TailerLands
  <1>5. QED  BY <1>1, <1>2, <1>3, <1>4, TailerStepKeepsInv

\* The goals of the tailer, before and in a promotion.
LEMMA GoalKeepsInv ==
  ASSUME ReplicaInv, NEW p \in Pod,
         TailRecent(p) \/ TailDemand(p) \/ ColdReload(p) \/ FinalFastForward(p)
  PROVE  ReplicaInv'
  <1> TailStep(p)  BY DEF TailStep
  <1> USE DataTyped DEF ReplicaInv
  <1>1. CASE TailRecent(p)
    BY <1>1, FastForwardKeepsInv DEF TailRecent, LogShape
  <1>2. CASE TailDemand(p)
    <2>1. PICK d \in log : /\ \A q \in Pod : HoldsLease(q) => \A t \in pending[q] : t > d.ts
                           /\ FastForward(p, d.ts, "tail")
      BY <1>2 DEF TailDemand
    <2>2. Settled(d.ts)
      BY <2>1 DEF Settled, Writer, LogShape
    <2>3. QED  BY <1>2, <2>1, <2>2, FastForwardKeepsInv DEF TailDemand, Ts
  <1>3. CASE ColdReload(p)
    <2>1. Tailing(p)  BY <1>3 DEF ColdReload, TailerIdle, Tailing
    <2>2. Settled(maxRep) /\ Settled(tailed[p])
      BY <2>1 DEF LogShape, TailShape
    <2>3. Settled(Greatest(maxRep, tailed[p])) /\ tailed[p] <= Greatest(maxRep, tailed[p])
          /\ Greatest(maxRep, tailed[p]) \in 0..MaxTs
      BY <2>2 DEF Greatest
    <2>4. QED  BY <1>3, <2>3, FastForwardKeepsInv DEF ColdReload
  <1>4. CASE FinalFastForward(p)
    <2>1. PICK t \in 0..MaxTs : IsMaxTs(t) /\ FastForward(p, t, "final")
      BY <1>4 DEF FinalFastForward
    <2>2. ASSUME HoldsLease(p)  PROVE Settled(t)
      <3>1. \A q \in Pod : ~Writer(q)
        <4> SUFFICES ASSUME NEW q \in Pod, Writer(q)  PROVE FALSE
          OBVIOUS
        <4>1. q = p  BY <2>2, OneHolder DEF Writer
        <4>2. QED
          BY <1>4, <4>1 DEF FinalFastForward, Writer, CommitterOn, RoleInv, TaskShape
      <3>2. QED  BY <2>1, <3>1 DEF Settled, IsMaxTs
    <2>3. \A d \in log : d.ts <= t  BY <2>1 DEF IsMaxTs
    <2>4. QED  BY <1>4, <2>1, <2>2, <2>3, FastForwardKeepsInv DEF FinalFastForward
  <1>5. QED  BY <1>1, <1>2, <1>3, <1>4

\* Applying the next transaction extends the snapshot by just that one: no other
\* has its timestamp, and none lies between.
LEMMA ApplyKeepsInv ==
  ASSUME ReplicaInv, NEW p \in Pod, ApplyTransaction(p)
  PROVE  ReplicaInv'
  <1>1. PICK d \in Ahead(p) : /\ \A e \in Ahead(p) : d.ts <= e.ts
                              /\ snap' = [snap EXCEPT ![p] = @ \union {d}]
                              /\ tailed' = [tailed EXCEPT ![p] = d.ts]
    BY DEF ApplyTransaction
  <1>2. /\ stage[p] \in {"tail", "final"} /\ UNCHANGED <<roleVars, log, maxRep, stage, target, last, pending>>
        /\ d \in log /\ tailed[p] < d.ts /\ d.ts <= target[p]
    BY DEF ApplyTransaction, Ahead
  <1>3. snap'[p] = snap[p] \union {d} /\ tailed'[p] = d.ts
    BY <1>1 DEF ReplicaInv, DataTypeOK
  <1>4. d \in Txn /\ d.ts \in 0..MaxTs
    BY <1>2, TsAssumption DEF ReplicaInv, DataTypeOK, Txn, Ts
  <1>5. DataTypeOK'
    BY <1>1, <1>2, <1>4 DEF ReplicaInv, DataTypeOK
  <1>6. StageFits(p)' /\ ~CommitterOn(p)
    BY <1>2 DEF ReplicaInv, StageShape, StageFits, CommitterOn, roleVars
  <1>7. ASSUME Tailing(p)'  PROVE TailerLands(p)
    <2>1. Tailing(p)  BY <1>2, <1>7 DEF Tailing, HoldsLease, roleVars
    <2>2. /\ snap[p] = UpTo(tailed[p]) /\ Settled(target[p])
          /\ stage[p] = "final" => \A e \in log : e.ts <= tailed[p] \/ e.ts <= target[p]
      BY <2>1 DEF ReplicaInv, TailShape, Tailing
    <2>3. snap'[p] = UpTo(d.ts)
      <3>1. ASSUME NEW e \in log, e.ts <= d.ts, e.ts > tailed[p]  PROVE e = d
        <4>1. e \in Ahead(p)
          BY <1>2, <3>1, DataTyped DEF Ahead, ReplicaInv
        <4>2. e.ts = d.ts  BY <1>1, <1>2, <3>1, <4>1, DataTyped DEF ReplicaInv
        <4>3. QED  BY <1>2, <4>2, OneTxnPerTs DEF ReplicaInv
      <3>2. \A e \in log : e.ts <= d.ts <=> e.ts <= tailed[p] \/ e = d
        BY <1>2, <3>1, DataTyped DEF ReplicaInv
      <3>3. QED  BY <1>2, <1>3, <2>2, <3>2 DEF UpTo
    <2>4. Settled(d.ts)
      BY <1>2, <2>2, SettledBelow, DataTyped DEF ReplicaInv
    <2>5. \A e \in log : e.ts <= tailed[p] => e.ts <= d.ts
      BY <1>2, DataTyped DEF ReplicaInv
    <2>6. QED  BY <1>2, <1>3, <2>2, <2>3, <2>4, <2>5 DEF TailerLands
  <1>8. QED  BY <1>2, <1>5, <1>6, <1>7, TailerStepKeepsInv DEF TailStep

\* The rest of the tailer's steps end a fast-forward or a load.
LEMMA TailKeepsInv ==
  ASSUME ReplicaInv, NEW p \in Pod, TailStep(p)
  PROVE  ReplicaInv'
  <1> USE DEF ReplicaInv
  <1>1. CASE Reloaded(p)
    <2>1. /\ Serving(p) /\ stage[p] = "load"
          /\ stage'[p] = "idle" /\ tailed'[p] = target[p] /\ target'[p] = target[p]
          /\ snap'[p] = UpTo(target[p]) /\ UNCHANGED <<roleVars, log, maxRep, pending, last>>
      BY <1>1 DEF Reloaded, LoadSnapshot, DataTypeOK
    <2>2. DataTypeOK'  BY <1>1 DEF Reloaded, LoadSnapshot, DataTypeOK, UpTo, Stages
    <2>3. StageFits(p)' /\ ~CommitterOn(p)
      BY <2>1 DEF Serving, StageShape, StageFits, CommitterOn, roleVars
    <2>4. TailerLands(p)  BY <2>1 DEF TailerLands, Tailing, TailShape
    <2>5. QED  BY <2>1, <2>2, <2>3, <2>4, TailerStepKeepsInv
  <1>2. CASE FastForwarded(p)
    <2> DEFINE end == Greatest(tailed[p], target[p])
    <2>1. /\ stage[p] \in {"tail", "final"} /\ Ahead(p) = {}
          /\ stage'[p] = IF stage[p] = "final" THEN "handed" ELSE "idle"
          /\ tailed'[p] = end /\ target'[p] = target[p] /\ snap'[p] = snap[p]
          /\ UNCHANGED <<roleVars, log, maxRep, pending, last>>
      BY <1>2 DEF FastForwarded, DataTypeOK
    <2>2. tailed[p] \in 0..MaxTs /\ target[p] \in 0..MaxTs /\ end \in 0..MaxTs
          /\ tailed[p] <= end /\ target[p] <= end
      BY DataTyped DEF DataTypeOK, Greatest
    <2>3. DataTypeOK'  BY <1>2, <2>2 DEF FastForwarded, DataTypeOK, Stages
    <2>4. StageFits(p)' /\ ~CommitterOn(p)
      BY <2>1 DEF StageShape, StageFits, CommitterOn, roleVars
    <2>5. ASSUME Tailing(p)'  PROVE TailerLands(p)
      <3>1. Tailing(p)  BY <2>1, <2>5 DEF Tailing, HoldsLease, roleVars
      <3>2. /\ snap[p] = UpTo(tailed[p]) /\ Settled(tailed[p]) /\ Settled(target[p])
            /\ stage[p] = "final" => \A d \in log : d.ts <= tailed[p] \/ d.ts <= target[p]
        BY <3>1 DEF TailShape, Tailing
      <3>3. Settled(end)  BY <3>2 DEF Greatest
      <3>4. \A d \in log : d.ts <= end <=> d.ts <= tailed[p]
        BY <2>1, <2>2, DataTyped DEF Ahead, Greatest
      <3>5. snap[p] = UpTo(end)  BY <3>2, <3>4 DEF UpTo
      <3>6. stage[p] = "final" => \A d \in log : d.ts <= end
        BY <2>2, <3>2, DataTyped
      <3> HIDE DEF end
      <3>7. QED  BY <2>1, <3>2, <3>3, <3>5, <3>6 DEF TailerLands
    <2>6. QED  BY <2>1, <2>3, <2>4, <2>5, TailerStepKeepsInv
  <1>3. CASE TailFails(p)
    <2>1. /\ Serving(p) /\ stage[p] \in {"tail", "load"} /\ stage'[p] = "idle"
          /\ UNCHANGED <<roleVars, log, maxRep, tailed, target, snap, pending, last>>
      BY <1>3 DEF TailFails, DataTypeOK
    <2>2. DataTypeOK'  BY <1>3 DEF TailFails, DataTypeOK, Stages
    <2>3. StageFits(p)' /\ ~CommitterOn(p)
      BY <2>1 DEF Serving, StageShape, StageFits, CommitterOn, roleVars
    <2>4. TailerLands(p)  BY <2>1 DEF TailerLands, Tailing, TailShape
    <2>5. QED  BY <2>1, <2>2, <2>3, <2>4, TailerStepKeepsInv
  <1>4. QED  BY <1>1, <1>2, <1>3, GoalKeepsInv, ApplyKeepsInv DEF TailStep

-----------------------------------------------------------------------------
(* The commits. *)

\* The holder that has a committer is the only writer.
LEMMA OneWriter ==
  ASSUME ReplicaInv, NEW p \in Pod, CommitterOn(p), HoldsLease(p), UNCHANGED roleVars,
         NEW q \in Pod, Writer(q)'
  PROVE  q = p /\ Writer(p)
  BY OneHolder DEF ReplicaInv, Writer, HoldsLease, CommitterOn, roleVars

\* A write lands above the snapshot of every tailer and above every earlier lease.
LEMMA PersistKeepsInv ==
  ASSUME ReplicaInv, NEW p \in Pod, PersistCommit(p)
  PROVE  ReplicaInv'
  <1>1. PICK t \in pending[p] : /\ log' = log \union {[ts |-> t, lease |-> held[p]]}
                                /\ pending' = [pending EXCEPT ![p] = @ \ {t}]
    BY DEF PersistCommit
  <1> DEFINE x == [ts |-> t, lease |-> held[p]]
  <1>2. /\ Writer(p) /\ held[p] = lease /\ lease \in Nat
        /\ UNCHANGED <<roleVars, maxRep, stage, tailed, target, snap, last>>
    BY DEF PersistCommit, Writer, HoldsLease, ReplicaInv, RoleInv, RoleTypeOK
  <1>3. /\ t \in Ts /\ t \in Nat /\ x \in Txn /\ x.ts = t /\ x.lease = held[p]
        /\ t <= last[p] /\ \A d \in log : d.lease < held[p] => d.ts < t
    BY <1>2, DataTyped DEF ReplicaInv, Txn, StageShape, StageFits, LogShape
  <1> HIDE DEF x
  <1>4. /\ log' = log \union {x}
        /\ \A q \in Pod : pending'[q] \subseteq pending[q]
        /\ \A q \in Pod : HoldsLease(q)' = HoldsLease(q) /\ CommitterOn(q)' = CommitterOn(q)
        /\ \A q \in Pod : Writer(q)' => q = p
    BY <1>1, <1>2, OneWriter DEF x, ReplicaInv, DataTypeOK, Writer, HoldsLease, CommitterOn, roleVars
  <1>5. DataTypeOK'
    BY <1>1, <1>2, <1>3, <1>4 DEF ReplicaInv, DataTypeOK
  <1>6. WritersInOrder
    BY <1>2, <1>4, DataTyped DEF WritersInOrder, WriterGoesOn, roleVars, ReplicaInv
  <1>7. StageShape'
    BY <1>2, <1>4 DEF ReplicaInv, StageShape, StageFits, roleVars
  <1>8. LogShape'
    <2>1. Settled(maxRep)'
      BY <1>2, <1>4, <1>5, <1>6, SettledStays, DataTyped
         DEF ReplicaInv, LogShape, Settled, SettledAfter
    <2>2. \A d \in log' : d.lease <= lease /\ d.ts <= last[p]
      BY <1>2, <1>3, <1>4 DEF ReplicaInv, LogShape
    <2>3. \A d \in log' : d.lease < held[p] => \A u \in pending'[p] : d.ts < u
      BY <1>2, <1>3, <1>4 DEF ReplicaInv, LogShape
    <2>4. QED  BY <1>2, <1>4, <2>1, <2>2, <2>3 DEF LogShape, roleVars
  <1>9. TailShape' /\ PromotedTailerWithinLog'
    <2>1. \A q \in Pod : Tailing(q)' = Tailing(q)
      BY <1>2, <1>4 DEF Tailing
    <2>2. ASSUME NEW q \in Pod, Tailing(q)
          PROVE  (snap[q] = UpTo(tailed[q]) /\ Settled(tailed[q]) /\ Settled(target[q]))'
      <3>1. snap[q] = UpTo(tailed[q]) /\ Settled(tailed[q]) /\ Settled(target[q])
        BY <2>2 DEF ReplicaInv, TailShape
      <3>2. t > tailed[q] /\ tailed[q] \in Nat /\ target[q] \in Nat
        BY <1>2, <3>1, DataTyped DEF Settled, ReplicaInv
      <3>3. UpTo(tailed[q])' = UpTo(tailed[q])
        BY <1>2, <1>3, <1>4, <3>2 DEF UpTo
      <3>4. SettledAfter(tailed[q]) /\ SettledAfter(target[q])
        <4>1. log \subseteq log' /\ maxRep' >= maxRep
          BY <1>2, <1>4, DataTyped DEF ReplicaInv
        <4>2. QED  BY <1>5, <1>6, <3>1, <3>2, <4>1, SettledStays DEF ReplicaInv
      <3>5. QED  BY <1>2, <3>1, <3>3, <3>4 DEF Settled, SettledAfter
    <2>3. \A q \in Pod : ~(stage[q] \in {"final", "handed"} /\ HoldsLease(q))
      BY <1>2, OneHolder DEF Writer, ReplicaInv, StageShape, StageFits
    <2>4. TailShape'
      BY <1>2, <1>4, <2>1, <2>2, <2>3 DEF TailShape, ReplicaInv
    <2>5. QED  BY <1>2, <1>4, <2>3, <2>4 DEF PromotedTailerWithinLog
  <1>10. EpochsInOrder'
    <2>1. \A d \in log : d.lease \in Nat /\ d.lease <= held[p]
      BY <1>2, DataTyped DEF ReplicaInv, LogShape
    <2>2. QED  BY <1>2, <1>3, <1>4, <2>1 DEF ReplicaInv, EpochsInOrder
  <1>11. LeaderMissesNothing'
    <2>1. \A q \in Pod : held[q] <= lease /\ held[q] \in Nat
      BY DEF ReplicaInv, RoleInv, RoleTypeOK, LeasesDistinct
    <2>2. QED
      BY <1>2, <1>3, <1>4, <2>1 DEF ReplicaInv, LeaderMissesNothing, roleVars
  <1>12. RoleInv'
    BY <1>2, RoleInvStep DEF ReplicaInv
  <1>13. QED
    BY <1>5, <1>7, <1>8, <1>9, <1>10, <1>11, <1>12 DEF ReplicaInv

\* Timestamps are assigned, and max_repeatable_ts is advanced, past one another.
LEMMA CommitKeepsInv ==
  ASSUME ReplicaInv, NEW p \in Pod, CommitStep(p)
  PROVE  ReplicaInv'
  <1>1. UNCHANGED <<roleVars, stage, tailed, target, snap>>
    BY DEF CommitStep, AssignTs, PersistCommit, BumpMaxRepeatable
  <1>2. CommitterOn(p)
    BY DEF CommitStep, AssignTs, PersistCommit, BumpMaxRepeatable
  <1>3. stage[p] = "off" /\ ~Tailing(p)' /\ CommitterOn(p)' /\ (HoldsLease(p)' => HoldsLease(p))
    BY <1>1, <1>2 DEF ReplicaInv, StageShape, StageFits, Tailing, CommitterOn, HoldsLease, roleVars
  <1>4. CASE AssignTs(p)
    <2>1. PICK t \in Ts : /\ t > last[p]
                          /\ last' = [last EXCEPT ![p] = t]
                          /\ pending' = [pending EXCEPT ![p] = @ \union {t}]
      BY <1>4 DEF AssignTs
    <2>2. /\ last'[p] = t /\ pending'[p] = pending[p] \union {t} /\ t \in Nat /\ t \in 0..MaxTs
      BY <2>1, TsAssumption DEF ReplicaInv, DataTypeOK, Ts
    <2>3. UNCHANGED <<log, maxRep>>  BY <1>4 DEF AssignTs
    <2>4. DataTypeOK'
      BY <1>1, <2>1, <2>2, <2>3 DEF ReplicaInv, DataTypeOK
    <2>5. StageFits(p)'
      BY <1>1, <1>3, <2>1, <2>2, DataTyped DEF ReplicaInv, StageShape, StageFits, roleVars
    <2>6. Writer(p)' => WriterGoesOn(p)
      BY <1>1, <1>2, <1>3, <2>1, <2>2, DataTyped DEF Writer, WriterGoesOn, roleVars, ReplicaInv
    <2>7. QED
      BY <1>1, <1>2, <1>3, <2>3, <2>4, <2>5, <2>6, OneInOrderKeepsInv DEF roleVars
  <1>5. CASE BumpMaxRepeatable(p)
    <2>1. PICK t \in Ts : /\ t > maxRep /\ \A u \in pending[p] : t < u
                          /\ maxRep' = t
                          /\ last' = [last EXCEPT ![p] = Greatest(@, t)]
      BY <1>5 DEF BumpMaxRepeatable
    <2>2. /\ last'[p] = Greatest(last[p], t) /\ t \in Nat /\ t \in 0..MaxTs
          /\ maxRep \in Nat /\ maxRep' >= maxRep
      BY <2>1, TsAssumption, DataTyped DEF ReplicaInv, DataTypeOK, Ts
    <2>3. last'[p] >= last[p] /\ last'[p] >= t /\ last'[p] \in 0..MaxTs
      BY <2>2, DataTyped DEF Greatest, ReplicaInv, DataTypeOK
    <2>4. UNCHANGED <<log, pending>> /\ HoldsLease(p)  BY <1>5 DEF BumpMaxRepeatable
    <2>5. DataTypeOK'
      BY <1>1, <2>1, <2>2, <2>3, <2>4 DEF ReplicaInv, DataTypeOK
    <2>6. StageFits(p)'
      BY <1>1, <1>3, <2>3, <2>4, DataTyped DEF ReplicaInv, StageShape, StageFits, roleVars
    <2>7. Writer(p)' => WriterGoesOn(p)
      BY <1>1, <1>2, <1>3, <2>3, <2>4 DEF Writer, WriterGoesOn, roleVars
    <2>8. Settled(maxRep)'
      <3>1. \A q \in Pod : Writer(q)' => q = p
        BY <1>1, <1>2, <2>4, OneWriter
      <3>2. \A u \in pending'[p] : u > t
        BY <2>1, <2>2, <2>4, DataTyped DEF ReplicaInv
      <3>3. QED  BY <2>1, <2>2, <2>3, <3>1, <3>2 DEF Settled
    <2>9. QED
      BY <1>1, <1>2, <1>3, <2>2, <2>4, <2>5, <2>6, <2>7, <2>8, OneInOrderKeepsInv DEF roleVars
  <1>6. QED  BY <1>4, <1>5, PersistKeepsInv DEF CommitStep

\* Every step preserves the inductive invariant.
LEMMA ReplicaInvStep == ReplicaInv /\ [Next]_vars => ReplicaInv'
  <1> SUFFICES ASSUME ReplicaInv, [Next]_vars  PROVE ReplicaInv'
    OBVIOUS
  <1>1. CASE UNCHANGED vars
    <2>1. RoleInv'  BY <1>1, RoleInvStep DEF vars, roleVars, ReplicaInv
    <2>2. QED
      BY <1>1, <2>1
         DEF vars, ReplicaInv, DataTypeOK, StageShape, StageFits, LogShape, TailShape, EpochsInOrder,
             LeaderMissesNothing, PromotedTailerWithinLog, Settled, Writer, Tailing, CommitterOn,
             HoldsLease, UpTo
  <1>2. CASE Next
    BY <1>2, BootKeepsInv, PromotionKeepsInv, TailKeepsInv, HandoverKeepsInv, CommitKeepsInv DEF Next
  <1>3. QED  BY <1>1, <1>2

-----------------------------------------------------------------------------
(* The results. *)

\* Whatever is stolen, lost, late or restarted, the log stays in epochs, a leader
\* starts with all that earlier ones committed, and a promoted tailer ends within
\* the log (become_leader, handle_promote).
THEOREM ReplicaInvariance == Spec => []ReplicaInv
  BY ReplicaInvInit, ReplicaInvStep, PTL DEF Spec

\* The commits of a later lease are above those of every earlier one.
THEOREM LogInEpochs == Spec => []EpochsInOrder
  <1>1. ReplicaInv => EpochsInOrder  BY DEF ReplicaInv
  <1>2. QED  BY <1>1, ReplicaInvariance, PTL

\* A leader, promoted or booted, has every commit of every earlier leader.
THEOREM NewLeaderComplete == Spec => []LeaderMissesNothing
  <1>1. ReplicaInv => LeaderMissesNothing  BY DEF ReplicaInv
  <1>2. QED  BY <1>1, ReplicaInvariance, PTL

\* What a follower reads is the log up to its tailed_ts, and stays so.
THEOREM FollowersRepeatable == Spec => []FollowerSnapshotRepeatable
  <1>1. ReplicaInv => FollowerSnapshotRepeatable
    BY DEF ReplicaInv, StageShape, StageFits, TailShape, Tailing, FollowerSnapshotRepeatable
  <1>2. QED  BY <1>1, ReplicaInvariance, PTL

-----------------------------------------------------------------------------
(* The refinement of FencedLog. *)

\* The readers but p see what they saw.
LEMMA OtherReaders ==
  ASSUME ReplicaInv, ReplicaInv', NEW p \in Pod, \A q \in Pod \ {p} : Untouched(q)
  PROVE  /\ Readers' = IF Reads(p)' THEN Readers \union {p} ELSE Readers \ {p}
         /\ ReadUpTo' = [ReadUpTo EXCEPT ![p] = IF Reads(p)' THEN tailed'[p] ELSE 0]
         /\ ReadSnap' = [ReadSnap EXCEPT ![p] = IF Reads(p)' THEN snap'[p] ELSE {}]
  <1>1. \A q \in Pod \ {p} : /\ Reads(q)' = Reads(q)
                             /\ tailed'[q] = tailed[q] /\ snap'[q] = snap[q]
    BY DEF Untouched, Reads, Serving
  <1>2. QED  BY <1>1 DEF Readers, ReadUpTo, ReadSnap

\* A step of p that leaves the log and the row alone is a step of p as a reader:
\* it reads on, and no less than before, or it does not read.
LEMMA ReaderStep ==
  ASSUME ReplicaInv, ReplicaInv', NEW p \in Pod, \A q \in Pod \ {p} : Untouched(q),
         log' = log, lease' = lease, Reads(p) /\ Reads(p)' => tailed'[p] >= tailed[p]
  PROVE  Fenced!FencedNext
  <1>1. CASE Reads(p)'
    <2>1. tailed'[p] \in Ts \union {0}
      BY TsAssumption DEF ReplicaInv, DataTypeOK, Ts
    <2>2. snap'[p] = {d \in log : d.ts <= tailed'[p]}
      BY <1>1 DEF Reads, Tailing, ReplicaInv, TailShape, UpTo
    <2>3. p \in Readers => tailed'[p] >= ReadUpTo[p]
      BY <1>1 DEF Readers, ReadUpTo
    <2>4. Fenced!Read(p)
      BY <1>1, <2>1, <2>2, <2>3, OtherReaders DEF Fenced!Read
    <2>5. QED  BY <2>4 DEF Fenced!FencedNext
  <1>2. CASE ~Reads(p)'
    <2>1. Fenced!Leave(p)  BY <1>2, OtherReaders DEF Fenced!Leave
    <2>2. QED  BY <2>1 DEF Fenced!FencedNext
  <1>3. QED  BY <1>1, <1>2

\* The promotion's steps move the row at most, and no reader comes or goes.
LEMMA PromotionRefines ==
  ASSUME ReplicaInv, ReplicaInv', NEW p \in Pod, PromotionStep(p)
  PROVE  Fenced!FencedNext
  <1>1. UNCHANGED dataVars  BY DEF PromotionStep
  <1>2. \A q \in Pod \ {p} : Untouched(q)  BY OneReplicaMoves
  <1>3. CASE lease' = lease
    BY <1>1, <1>2, <1>3, ReaderStep, DataTyped DEF dataVars, ReplicaInv
  <1>4. CASE lease' # lease
    <2>1. lease' \in Nat /\ lease' > lease
      BY <1>4, LeaseStep, StepIsRoleStep DEF Next, ReplicaInv, RoleInv, RoleTypeOK
    <2>2. AcquireLease(p) \/ AcquireReplyLost(p)
      BY <1>4 DEF PromotionStep, BeginPromotion, LeaseAcquired, FinishPromotion, BootedAsLeader,
                  TaskFault, ConnectFails, VerifyFails, BecomeLeaderFails, PromotionDeadline,
                  WatchStep, WatchHeld, WatchLost, WatchTransient, WatchNonTransient,
                  CommitFenced, Demote
    <2>3. /\ task[p] = "connect" /\ stage' = stage
          /\ \/ role' = role
             \/ role'[p] = IF role[p] = "promoting" THEN "follower" ELSE "down"
      BY <1>1, <2>2 DEF dataVars, AcquireLease, AcquireReplyLost, GiveUpConnecting,
                        ReplicaInv, RoleInv, RoleTypeOK
    <2>4. Reads(p)' = Reads(p)
      BY <2>3 DEF Reads, Serving, ReplicaInv, RoleInv, RoleTypeOK, TaskShape, Roles
    <2>5. Readers' = Readers /\ ReadUpTo' = ReadUpTo /\ ReadSnap' = ReadSnap
      BY <1>1, <1>2, <2>4, OtherReaders DEF Readers, ReadUpTo, ReadSnap, dataVars
    <2>6. Fenced!NewEpoch  BY <1>1, <2>1, <2>5 DEF Fenced!NewEpoch, dataVars
    <2>7. QED  BY <2>6 DEF Fenced!FencedNext
  <1>5. QED  BY <1>3, <1>4

\* A write that passes the lease check is an append of the newest epoch.
LEMMA PersistRefines ==
  ASSUME ReplicaInv, NEW p \in Pod, PersistCommit(p)
  PROVE  Fenced!FencedNext
  <1>1. PICK t \in pending[p] : log' = log \union {[ts |-> t, lease |-> held[p]]}
    BY DEF PersistCommit
  <1>2. /\ Writer(p) /\ held[p] = lease
        /\ UNCHANGED <<roleVars, maxRep, stage, tailed, target, snap, last>>
    BY DEF PersistCommit, Writer, HoldsLease
  <1>3. t \in Ts /\ \A d \in log : d.lease < lease => d.ts < t
    BY <1>2, DataTyped DEF ReplicaInv, LogShape
  <1>4. ASSUME NEW q \in Readers  PROVE ReadUpTo[q] < t
    <2>1. q \in Pod /\ Reads(q) /\ ReadUpTo[q] = tailed[q]  BY DEF Readers, ReadUpTo
    <2>2. Settled(tailed[q])  BY <2>1 DEF Reads, Tailing, ReplicaInv, TailShape
    <2>3. QED  BY <1>2, <2>1, <2>2, DataTyped DEF Settled, ReplicaInv
  <1>5. UNCHANGED <<lease, Readers, ReadUpTo, ReadSnap>>
    BY <1>2 DEF roleVars, Readers, ReadUpTo, ReadSnap, Reads, Serving
  <1>6. Fenced!Append  BY <1>1, <1>2, <1>3, <1>4, <1>5 DEF Fenced!Append
  <1>7. QED  BY <1>6 DEF Fenced!FencedNext

\* The tailer and the committer, otherwise, move one reader forward at most.
LEMMA TailRefines ==
  ASSUME ReplicaInv, ReplicaInv', NEW p \in Pod, TailStep(p) \/ AssignTs(p) \/ BumpMaxRepeatable(p)
  PROVE  Fenced!FencedNext
  <1>1. \A q \in Pod \ {p} : Untouched(q)  BY OneReplicaMoves DEF CommitStep
  <1>2. log' = log /\ lease' = lease
    BY DEF TailStep, TailRecent, TailDemand, ColdReload, Reloaded, LoadSnapshot, ApplyTransaction,
           FastForwarded, TailFails, FinalFastForward, FastForward, AssignTs, BumpMaxRepeatable,
           roleVars
  <1>3. tailed'[p] >= tailed[p]
    <2>1. CASE Reloaded(p)
      BY <2>1, DataTyped DEF Reloaded, LoadSnapshot, ReplicaInv, DataTypeOK, TailShape
    <2>2. CASE ApplyTransaction(p)
      BY <2>2, DataTyped DEF ApplyTransaction, Ahead, ReplicaInv, DataTypeOK
    <2>3. CASE FastForwarded(p)
      BY <2>3, DataTyped DEF FastForwarded, Greatest, ReplicaInv, DataTypeOK
    <2>4. CASE \/ TailRecent(p) \/ TailDemand(p) \/ ColdReload(p) \/ TailFails(p)
               \/ FinalFastForward(p) \/ AssignTs(p) \/ BumpMaxRepeatable(p)
      BY <2>4, DataTyped
         DEF TailRecent, TailDemand, ColdReload, TailFails, FinalFastForward, FastForward,
             AssignTs, BumpMaxRepeatable, ReplicaInv
    <2>5. QED  BY <2>1, <2>2, <2>3, <2>4 DEF TailStep
  <1>4. QED  BY <1>1, <1>2, <1>3, ReaderStep

\* A boot as follower starts a reader, an exit ends it, a handover changes none.
LEMMA BootRefines ==
  ASSUME ReplicaInv, ReplicaInv', NEW p \in Pod, BootStep(p) \/ BecomeLeader(p)
  PROVE  Fenced!FencedNext
  <1>1. \A q \in Pod \ {p} : Untouched(q)  BY OneReplicaMoves
  <1>2. log' = log /\ lease' = lease
    BY DEF BootStep, StartFollower, BootFollower, StartedFollower, FollowerReady, StartLeader,
           BootLeader, LoadLeader, LoadedAsLeader, PersistIdleTs, StartCommitter, Stop, Exit, Crash,
           BecomeLeader, InstallCommitter
  <1>3. ~(Reads(p) /\ Reads(p)')
    <2>1. CASE BootStep(p) /\ ~Stop(p)
      BY <2>1 DEF BootStep, StartFollower, BootFollower, StartedFollower, FollowerReady, StartLeader,
                  BootLeader, LoadLeader, LoadedAsLeader, Reads, Serving
    <2>2. CASE Stop(p)
      BY <2>2 DEF Stop, Exit, Crash, Down, Reads, Serving, ReplicaInv, RoleInv, RoleTypeOK
    <2>3. CASE BecomeLeader(p)  BY <2>3 DEF BecomeLeader, Reads
    <2>4. QED  BY <2>1, <2>2, <2>3
  <1>4. QED  BY <1>1, <1>2, <1>3, ReaderStep

\* The initial state of the replicas is an empty log without readers.
LEMMA InitRefines == Init => Fenced!FencedInit
  BY DEF Init, RoleInit, Fenced!FencedInit, Readers, ReadUpTo, ReadSnap, Reads, Serving

LEMMA StepRefines ==
  ASSUME ReplicaInv, ReplicaInv', [Next]_vars
  PROVE  [Fenced!FencedNext]_Fenced!FencedVars
  <1>1. CASE UNCHANGED vars
    BY <1>1 DEF vars, Fenced!FencedVars, Readers, ReadUpTo, ReadSnap, Reads, Serving
  <1>2. CASE Next
    BY <1>2, PromotionRefines, PersistRefines, TailRefines, BootRefines DEF Next, CommitStep
  <1>3. QED  BY <1>1, <1>2

\* The lease check of a commit, the idle timestamp of a promotion and the repeatable
\* timestamps of the tailers implement a log written by one epoch after another, of
\* which every reader sees a prefix that no later commit changes.
THEOREM FencedRefined == Spec => FencedImplemented
  <1>1. Init => Fenced!FencedInit  BY InitRefines
  <1>2. ReplicaInv /\ ReplicaInv' /\ [Next]_vars => [Fenced!FencedNext]_Fenced!FencedVars
    BY StepRefines
  <1>3. QED
    BY <1>1, <1>2, ReplicaInvariance, PTL DEF Spec, FencedImplemented, Fenced!FencedSpec
================================================================================
