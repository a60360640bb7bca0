------------------------------- MODULE Replica -------------------------------
(***************************************************************************)
(* The replicas of BackendRole with the data they replicate: the documents *)
(* log in Postgres, the max_repeatable_ts global, the follower's log       *)
(* tailer and the leader's committer.                                      *)
(*                                                                         *)
(* A follower keeps a snapshot and advances it along the log up to a       *)
(* "repeatable" timestamp, one below which no commit will ever land.  A    *)
(* promotion takes the lease, fast-forwards the tailer a last time to the  *)
(* end of the log, persists a new repeatable timestamp under the lease and *)
(* hands the snapshot to a committer.  Nothing but the commit-time lease   *)
(* check and that order protects the followers, and the new leader, from   *)
(* a commit below the timestamp they have already read up to.              *)
(*                                                                         *)
(* Abstracted: a transaction is its timestamp and the lease it was         *)
(* committed under.  The committer, the persistence layer and              *)
(* Database::load are code outside this repository, modelled from how the  *)
(* patches use them: commits get increasing timestamps, are written        *)
(* concurrently (so they may land out of order), and every write checks    *)
(* the lease row in its transaction.                                       *)
(***************************************************************************)
EXTENDS BackendRole, FiniteSets

CONSTANT MaxTs  \* bound on commit timestamps

ASSUME TsAssumption == MaxTs \in Nat

Ts == 1..MaxTs
Txn == [ts : Ts, lease : Nat]

VARIABLES
  log,     \* the documents log: the transactions durably committed
  maxRep,  \* the MaxRepeatableTimestamp global
  stage,   \* what the tailer of a replica does
  tailed,  \* tailed_ts, the timestamp its snapshot is repeatable at
  target,  \* the timestamp a fast-forward or a load goes to
  snap,    \* the transactions in its snapshot
  last,    \* its committer's last assigned timestamp
  pending  \* commits with a timestamp whose write has not landed

dataVars == <<log, maxRep, stage, tailed, target, snap, last, pending>>
vars == <<lease, role, task, held, preempt, probes, verified,
          log, maxRep, stage, tailed, target, snap, last, pending>>

\* "load": a snapshot is loaded at target.  "tail": fast_forward_to(target).
\* "final": the same inside handle_promote.  "handed": the promoted tailer
\* state was handed to become_leader.
Stages == {"off", "load", "idle", "tail", "final", "handed"}

DataTypeOK ==
  /\ log \subseteq Txn
  /\ maxRep \in 0..MaxTs
  /\ stage \in [Pod -> Stages]
  /\ tailed \in [Pod -> 0..MaxTs]
  /\ target \in [Pod -> 0..MaxTs]
  /\ snap \in [Pod -> SUBSET Txn]
  /\ last \in [Pod -> 0..MaxTs]
  /\ pending \in [Pod -> SUBSET Ts]

Init ==
  /\ RoleInit
  /\ log = {}
  /\ maxRep = 0
  /\ stage = [p \in Pod |-> "off"]
  /\ tailed = [p \in Pod |-> 0]
  /\ target = [p \in Pod |-> 0]
  /\ snap = [p \in Pod |-> {}]
  /\ last = [p \in Pod |-> 0]
  /\ pending = [p \in Pod |-> {}]

UpTo(t) == {d \in log : d.ts <= t}

-----------------------------------------------------------------------------
(* Boot and exit. *)

\* load_follower picks new_static_repeatable_recent, then loads the snapshot.
StartFollower(p) ==
  /\ BootFollower(p)
  /\ stage' = [stage EXCEPT ![p] = "load"]
  /\ target' = [target EXCEPT ![p] = maxRep]
  /\ UNCHANGED <<log, maxRep, tailed, snap, last, pending>>

\* The snapshot at target is loaded, and the tailer is there.
LoadSnapshot(p) ==
  /\ stage' = [stage EXCEPT ![p] = "idle"]
  /\ tailed' = [tailed EXCEPT ![p] = target[p]]
  /\ snap' = [snap EXCEPT ![p] = UpTo(target[p])]

StartedFollower(p) ==
  /\ FollowerReady(p)
  /\ LoadSnapshot(p)
  /\ UNCHANGED <<log, maxRep, target, last, pending>>

\* What a boot as follower had loaded is dropped.
StartLeader(p) ==
  /\ BootLeader(p)
  /\ stage' = [stage EXCEPT ![p] = "off"]
  /\ UNCHANGED <<log, maxRep, tailed, target, snap, last, pending>>

LoseMemory(p) ==
  /\ stage' = [stage EXCEPT ![p] = "off"]
  /\ tailed' = [tailed EXCEPT ![p] = 0]
  /\ target' = [target EXCEPT ![p] = 0]
  /\ snap' = [snap EXCEPT ![p] = {}]
  /\ last' = [last EXCEPT ![p] = 0]
  /\ pending' = [pending EXCEPT ![p] = {}]

\* A commit in flight when the process dies may still land in Postgres, if the
\* lease is still its own: that is PersistCommit before the crash.
Stop(p) ==
  /\ Exit(p) \/ Crash(p)
  /\ LoseMemory(p)
  /\ UNCHANGED <<log, maxRep>>

-----------------------------------------------------------------------------
(* The follower log tailer. *)

TailerIdle(p) == Serving(p) /\ stage[p] = "idle"

FastForward(p, goal, as) ==
  /\ stage' = [stage EXCEPT ![p] = as]
  /\ target' = [target EXCEPT ![p] = goal]
  /\ UNCHANGED <<roleVars, log, maxRep, tailed, snap, last, pending>>

\* Mutant: the target is the end of the log, which no one declared repeatable.
TailRecent_ToLogEnd(p) ==
  TailerIdle(p) /\ \E d \in log : d.ts > tailed[p] /\ FastForward(p, d.ts, "tail")

\* tail_once without a demand: up to new_static_repeatable_recent.
TailRecent(p) == TailerIdle(p) /\ FastForward(p, maxRep, "tail")

\* tail_once with a demand: up to the timestamp a reader asked to wait for, the
\* published commit timestamp of some leader, hence below none of its writes
\* still in flight.
TailDemand(p) ==
  /\ TailerIdle(p)
  /\ \E d \in log :
       /\ d.ts > tailed[p]
       /\ \A q \in Pod : HoldsLease(q) => \A t \in pending[q] : t > d.ts
       /\ FastForward(p, d.ts, "tail")

\* cold_reload: max(new_static_repeatable_recent, minimum_ts).
ColdReload(p) ==
  TailerIdle(p) /\ FastForward(p, Greatest(maxRep, tailed[p]), "load")

Reloaded(p) ==
  /\ Serving(p) /\ stage[p] = "load"
  /\ LoadSnapshot(p)
  /\ UNCHANGED <<roleVars, log, maxRep, target, last, pending>>

Ahead(p) == {d \in log : tailed[p] < d.ts /\ d.ts <= target[p]}

\* fast_forward_to: apply_transaction on the next transaction of the stream.
ApplyTransaction(p) ==
  /\ stage[p] \in {"tail", "final"}
  /\ \E d \in Ahead(p) :
       /\ \A e \in Ahead(p) : d.ts <= e.ts
       /\ snap' = [snap EXCEPT ![p] = @ \union {d}]
       /\ tailed' = [tailed EXCEPT ![p] = d.ts]
  /\ UNCHANGED <<roleVars, log, maxRep, stage, target, last, pending>>

\* The stream is exhausted: bump_persisted_max_repeatable_ts(target).
FastForwarded(p) ==
  /\ stage[p] \in {"tail", "final"} /\ Ahead(p) = {}
  /\ tailed' = [tailed EXCEPT ![p] = Greatest(@, target[p])]
  /\ stage' = [stage EXCEPT ![p] = IF @ = "final" THEN "handed" ELSE "idle"]
  /\ UNCHANGED <<roleVars, log, maxRep, target, snap, last, pending>>

\* A step of the tail loop fails: what was applied stays applied.
TailFails(p) ==
  /\ Serving(p) /\ stage[p] \in {"tail", "load"}
  /\ stage' = [stage EXCEPT ![p] = "idle"]
  /\ UNCHANGED <<roleVars, log, maxRep, tailed, target, snap, last, pending>>

-----------------------------------------------------------------------------
(* Promotion. *)

\* The last timestamp in the log, that of DatabaseSnapshot::max_ts.
IsMaxTs(t) ==
  /\ t = 0 \/ \E d \in log : d.ts = t
  /\ \A d \in log : d.ts <= t

\* Mutant: the final fast-forward stops at the recent repeatable timestamp.
FinalFastForward_ToRecent(p) ==
  task[p] = "install" /\ TailerIdle(p) /\ FastForward(p, maxRep, "final")

\* handle_promote: the tailer answers the handshake between two of its steps.
FinalFastForward(p) ==
  /\ task[p] = "install" /\ TailerIdle(p)
  /\ \E t \in 0..MaxTs : IsMaxTs(t) /\ FastForward(p, t, "final")

\* new_idle_repeatable_ts: a timestamp no commit or repeatable timestamp is
\* above, persisted as the new max_repeatable_ts under the lease.
PersistIdleTs(p, idle) ==
  /\ HoldsLease(p)
  /\ idle >= maxRep /\ \A d \in log : d.ts <= idle
  /\ maxRep' = idle

StartCommitter(p, idle) ==
  /\ stage' = [stage EXCEPT ![p] = "off"]
  /\ tailed' = [tailed EXCEPT ![p] = idle]
  /\ last' = [last EXCEPT ![p] = idle]
  /\ UNCHANGED <<log, target, pending>>

\* become_leader ensures idle_ts >= tailed_ts before it bumps the snapshot.
BecomeLeader(p) ==
  /\ InstallCommitter(p)
  /\ stage[p] = "handed"
  /\ \E idle \in 0..MaxTs :
       /\ PersistIdleTs(p, idle)
       /\ idle >= tailed[p]
       /\ StartCommitter(p, idle)
  /\ UNCHANGED snap

\* make_app as leader: Database::load reads the whole log under the lease.
LoadLeader(p) ==
  /\ LoadedAsLeader(p)
  /\ \E idle \in 0..MaxTs : PersistIdleTs(p, idle) /\ StartCommitter(p, idle)
  /\ snap' = [snap EXCEPT ![p] = log]

\* The steps of the promotion that touch the lease and the role only.
PromotionStep(p) ==
  /\ \/ BeginPromotion(p)
     \/ AcquireLease(p) \/ LeaseAcquired(p)
     \/ FinishPromotion(p) \/ BootedAsLeader(p)
     \/ TaskFault(p)
     \/ WatchStep(p) \/ CommitFenced(p)
     \/ \E expected \in 0..MaxLease : Demote(p, expected)
  /\ UNCHANGED dataVars

-----------------------------------------------------------------------------
(* The committer. *)

AssignTs(p) ==
  /\ CommitterOn(p)
  /\ \E t \in Ts :
       /\ t > last[p]
       /\ last' = [last EXCEPT ![p] = t]
       /\ pending' = [pending EXCEPT ![p] = @ \union {t}]
  /\ UNCHANGED <<roleVars, log, maxRep, stage, tailed, target, snap>>

\* Mutant: the write does not check the lease row.
PersistCommit_Unfenced(p) ==
  /\ CommitterOn(p)
  /\ \E t \in pending[p] :
       /\ log' = log \union {[ts |-> t, lease |-> held[p]]}
       /\ pending' = [pending EXCEPT ![p] = @ \ {t}]
  /\ UNCHANGED <<roleVars, maxRep, stage, tailed, target, snap, last>>

\* The write lands: its transaction found the lease row at its own lease.
PersistCommit(p) ==
  /\ CommitterOn(p) /\ HoldsLease(p)
  /\ \E t \in pending[p] :
       /\ log' = log \union {[ts |-> t, lease |-> held[p]]}
       /\ pending' = [pending EXCEPT ![p] = @ \ {t}]
  /\ UNCHANGED <<roleVars, maxRep, stage, tailed, target, snap, last>>

\* The leader advances max_repeatable_ts below its pending commits, and will
\* commit above it.
BumpMaxRepeatable(p) ==
  /\ CommitterOn(p) /\ HoldsLease(p)
  /\ \E t \in Ts :
       /\ t > maxRep /\ \A u \in pending[p] : t < u
       /\ maxRep' = t
       /\ last' = [last EXCEPT ![p] = Greatest(@, t)]
  /\ UNCHANGED <<roleVars, log, stage, tailed, target, snap, pending>>

-----------------------------------------------------------------------------

BootStep(p) ==
  StartFollower(p) \/ StartedFollower(p) \/ StartLeader(p) \/ LoadLeader(p) \/ Stop(p)

TailStep(p) ==
  \/ TailRecent(p) \/ TailDemand(p) \/ ColdReload(p) \/ Reloaded(p)
  \/ ApplyTransaction(p) \/ FastForwarded(p) \/ TailFails(p)
  \/ FinalFastForward(p)

CommitStep(p) == AssignTs(p) \/ PersistCommit(p) \/ BumpMaxRepeatable(p)

Next ==
  \E p \in Pod :
    BootStep(p) \/ PromotionStep(p) \/ TailStep(p) \/ BecomeLeader(p) \/ CommitStep(p)

Spec == Init /\ [][Next]_vars

-----------------------------------------------------------------------------
(* Properties. *)

\* The writer that the lease row lets through.
Writer(p) == CommitterOn(p) /\ HoldsLease(p)

\* No commit will ever land at or below t: the writer is past t, and the next
\* one will start past t.
Settled(t) ==
  /\ \A p \in Pod : Writer(p) => last[p] >= t /\ \A u \in pending[p] : u > t
  /\ t <= maxRep \/ \E d \in log : t <= d.ts

\* The tailer of p, its own or the one a promotion is finishing under its lease.
Tailing(p) ==
  \/ stage[p] \in {"load", "idle", "tail"}
  \/ stage[p] \in {"final", "handed"} /\ HoldsLease(p)

\* How the tailer and the committer of a replica go with its role.
StageFits(p) ==
  /\ CommitterOn(p) => stage[p] = "off"
  /\ ~CommitterOn(p) => pending[p] = {}
  /\ stage[p] \in {"final", "handed"} => held[p] # 0 /\ task[p] \in {"install", "failed"}
  /\ role[p] = "follower" => stage[p] \in {"load", "idle", "tail"}
  /\ role[p] = "booting" /\ task[p] = "none" => stage[p] = "load"
  /\ role[p] = "booting" /\ task[p] # "none" => stage[p] = "off"
  /\ role[p] = "down" => stage[p] = "off"
  /\ role[p] = "promoting" /\ task[p] \in {"connect", "verify"} =>
       stage[p] \in {"load", "idle", "tail"}
  /\ role[p] \in {"down", "booting"} /\ task[p] # "workers" => tailed[p] = 0 /\ snap[p] = {}
  /\ \A u \in pending[p] : u <= last[p]

StageShape == \A p \in Pod : StageFits(p)

LogShape ==
  /\ \A d \in log : d.lease <= lease
  /\ Settled(maxRep)
  /\ \A p \in Pod : Writer(p) =>
       \A d \in log :
         /\ d.ts <= last[p]
         /\ d.lease < held[p] => \A u \in pending[p] : d.ts < u

TailShape ==
  \A p \in Pod :
    /\ Tailing(p) => /\ snap[p] = UpTo(tailed[p])
                     /\ Settled(tailed[p]) /\ Settled(target[p])
    /\ stage[p] = "load" => tailed[p] <= target[p]
    /\ stage[p] = "final" /\ HoldsLease(p) =>
         \A d \in log : d.ts <= tailed[p] \/ d.ts <= target[p]
    /\ stage[p] = "handed" /\ HoldsLease(p) => \A d \in log : d.ts <= tailed[p]

\* The leases of the log are epochs: every commit of a later lease has a later
\* timestamp than every commit of an earlier one, although a deposed leader
\* may still have writes in flight.  This is what the lease check of a commit
\* and the idle timestamp of a promotion (become_leader) buy.
EpochsInOrder ==
  \A d, e \in log : d.lease < e.lease => d.ts < e.ts

\* A new leader starts from a snapshot with every commit of every earlier
\* leader: handle_promote reads the end of the log after the lease fenced them.
LeaderMissesNothing ==
  \A p \in Pod : CommitterOn(p) =>
    \A d \in log : d.lease < held[p] => d \in snap[p]

\* The snapshot of a follower is the log up to its tailed_ts, exactly, and for
\* good: no commit lands below a timestamp a tailer was told is repeatable.
FollowerSnapshotRepeatable ==
  \A p \in Pod : role[p] = "follower" => snap[p] = UpTo(tailed[p])

\* The ensure in become_leader, "promotion invariant violated ... impossible
\* while we hold the lease": with the lease in hand, a promoted tailer is never
\* beyond the end of the log and the repeatable timestamp.
PromotedTailerWithinLog ==
  \A p \in Pod : stage[p] = "handed" /\ HoldsLease(p) =>
    tailed[p] <= maxRep \/ \E d \in log : tailed[p] <= d.ts

\* The inductive invariant: the leases are epochs of the log, and a new leader has
\* what every earlier one committed (become_leader, handle_promote).
ReplicaInv ==
  /\ RoleInv /\ DataTypeOK
  /\ StageShape /\ LogShape /\ TailShape
  /\ EpochsInOrder /\ LeaderMissesNothing /\ PromotedTailerWithinLog

\* The readers of the log: a replica that tails it as followers do, until a
\* promotion takes its tailer over.
Reads(p) == Serving(p) /\ stage[p] \in {"load", "idle", "tail"}

Readers == {p \in Pod : Reads(p)}
ReadUpTo == [p \in Pod |-> IF Reads(p) THEN tailed[p] ELSE 0]
ReadSnap == [p \in Pod |-> IF Reads(p) THEN snap[p] ELSE {}]

Fenced == INSTANCE FencedLog WITH
            Reader <- Pod, entries <- log, epoch <- lease,
            reading <- Readers, upTo <- ReadUpTo, seen <- ReadSnap

\* The replicas implement FencedLog: whatever is in flight when the lease moves, the
\* log is written by the newest lease only and above all that was read, and what a
\* follower serves is a prefix of it that moves forward one whole step at a time.
FencedImplemented == Fenced!FencedSpec

=============================================================================
