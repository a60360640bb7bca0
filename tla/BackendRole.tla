----------------------------- MODULE BackendRole -----------------------------
(***************************************************************************)
(* The role of every backend replica of one deployment, and the Postgres   *)
(* lease row they contend for.                                             *)
(*                                                                         *)
(* A replica is a process that boots (as a follower once the database is   *)
(* initialised, as the leader before that), is promoted in place by a      *)
(* POST /instance/promote, and leaves the leader role only by exiting: a   *)
(* demotion, a lost lease or a failed promotion fires the preempt signal   *)
(* and the process exits and restarts.  Taking the lease steals it: the    *)
(* UPDATE raises the row above every earlier lease and never waits for the *)
(* holder, so at any time several replicas may believe that they lead and  *)
(* only the row says which one does.                                       *)
(*                                                                         *)
(* Abstracted: a lease timestamp is a number of 1..MaxLease, a clock       *)
(* reading a member of Clock (clocks of different replicas are not         *)
(* related), and the time since the last successful lease probe is one     *)
(* bit, "verified".                                                        *)
(***************************************************************************)
EXTENDS Naturals

CONSTANTS
  Pod,          \* the backend replicas
  BootLeaders,  \* replicas that may boot as the leader (uninitialised
                \* database, or a configured leader without dynamic roles)
  Clock,        \* what a replica's wall clock may read when it acquires
  MaxLease,     \* bound on the lease row
  MaxProbeFailures  \* MAX_NON_TRANSIENT_PROBE_FAILURES

ASSUME PodAssumption == BootLeaders \subseteq Pod
ASSUME ClockAssumption == Clock \subseteq Nat
ASSUME BoundAssumption == MaxLease \in Nat /\ MaxProbeFailures \in Nat \ {0}

VARIABLES
  lease,    \* the ts column of the leases row
  role,     \* what the process is
  task,     \* where its promotion (or boot as leader) stands
  held,     \* lease_ts of its read-write persistence, 0 for none
  preempt,  \* its preempt_signal has fired
  probes,   \* consecutive non-transient failures of its lease watch
  verified  \* its lease watch succeeded within LeaseUnverifiedGrace

roleVars == <<lease, role, task, held, preempt, probes, verified>>
localVars == <<role, task, held, preempt, probes, verified>>

Roles == {"down", "booting", "follower", "promoting", "leader"}

\* "connect": persistence_factory runs, no lease yet.  "verify": the UPDATE
\* returned a lease, check_newly_created is still to run.  "install":
\* lease_acquired, Database::become_leader runs.  "workers": the committer is
\* up (a promoted one's lease watch too), the rest of Application::become_leader
\* or of make_app runs.
\* "failed", "stranded": the promotion task ended without a result, before or
\* after the committer was installed; the process is about to exit.
Tasks == {"none", "connect", "verify", "install", "workers", "failed", "stranded"}

RoleTypeOK ==
  /\ lease \in Nat
  /\ role \in [Pod -> Roles]
  /\ task \in [Pod -> Tasks]
  /\ held \in [Pod -> Nat]
  /\ preempt \in [Pod -> BOOLEAN]
  /\ probes \in [Pod -> 0..MaxProbeFailures]
  /\ verified \in [Pod -> BOOLEAN]

RoleInit ==
  /\ lease = 0
  /\ role = [p \in Pod |-> "down"]
  /\ task = [p \in Pod |-> "none"]
  /\ held = [p \in Pod |-> 0]
  /\ preempt = [p \in Pod |-> FALSE]
  /\ probes = [p \in Pod |-> 0]
  /\ verified = [p \in Pod |-> TRUE]

-----------------------------------------------------------------------------
(* What the process reports of itself. *)

Serving(p) == role[p] \in {"follower", "promoting", "leader"}

\* RoleState::snapshot: lease_ts is there once lease_acquired has run.
ReportedLease(p) ==
  IF role[p] \in {"promoting", "leader"} /\ task[p] # "verify" THEN held[p] ELSE 0

\* The committer is installed: writes are attempted under the lease.
CommitterOn(p) == role[p] = "leader" \/ task[p] \in {"workers", "stranded"}

HoldsLease(p) == held[p] # 0 /\ held[p] = lease

-----------------------------------------------------------------------------
(* Boot, crash and exit. *)

BootFollower(p) ==
  /\ role[p] = "down"
  /\ role' = [role EXCEPT ![p] = "booting"]
  /\ UNCHANGED <<lease, task, held, preempt, probes, verified>>

FollowerReady(p) ==
  /\ role[p] = "booting" /\ task[p] = "none"
  /\ role' = [role EXCEPT ![p] = "follower"]
  /\ UNCHANGED <<lease, task, held, preempt, probes, verified>>

\* Directly, or after a boot as follower that found documents but no storage
\* tag (an initialisation that was interrupted).
BootLeader(p) ==
  /\ p \in BootLeaders
  /\ role[p] \in {"down", "booting"} /\ task[p] = "none"
  /\ role' = [role EXCEPT ![p] = "booting"]
  /\ task' = [task EXCEPT ![p] = "connect"]
  /\ UNCHANGED <<lease, held, preempt, probes, verified>>

\* make_app: Database::load started a committer, and the system tables and the
\* storage tag are still to be written with it.
LoadedAsLeader(p) ==
  /\ role[p] = "booting" /\ task[p] = "verify"
  /\ task' = [task EXCEPT ![p] = "workers"]
  /\ UNCHANGED <<lease, role, held, preempt, probes, verified>>

\* make_app built the leader and install_boot_lease_watch started its watch.
BootedAsLeader(p) ==
  /\ role[p] = "booting" /\ task[p] = "workers"
  /\ role' = [role EXCEPT ![p] = "leader"]
  /\ task' = [task EXCEPT ![p] = "none"]
  /\ probes' = [probes EXCEPT ![p] = 0]
  /\ verified' = [verified EXCEPT ![p] = TRUE]
  /\ UNCHANGED <<lease, held, preempt>>

Down(p) ==
  /\ role' = [role EXCEPT ![p] = "down"]
  /\ task' = [task EXCEPT ![p] = "none"]
  /\ held' = [held EXCEPT ![p] = 0]
  /\ preempt' = [preempt EXCEPT ![p] = FALSE]
  /\ probes' = [probes EXCEPT ![p] = 0]
  /\ verified' = [verified EXCEPT ![p] = TRUE]

\* run_server_inner: the preempt signal makes the process exit at once.
Exit(p) ==
  /\ preempt[p]
  /\ Down(p)
  /\ UNCHANGED lease

Crash(p) ==
  /\ role[p] # "down"
  /\ Down(p)
  /\ UNCHANGED lease

Preempt(p) == preempt' = [preempt EXCEPT ![p] = TRUE]

-----------------------------------------------------------------------------
(* The lease primitive. *)

Greatest(a, b) == IF a >= b THEN a ELSE b

\* Mutants of AcquiredTs: the row set to the clock alone, or not raised.
AcquiredTs_Clock(now) == now
AcquiredTs_NotAbove(now) == Greatest(now, lease)

\* lease_acquire: SET ts = GREATEST($1, ts + 1) ... RETURNING ts.
AcquiredTs(now) == Greatest(now, lease + 1)

\* Lease::acquire: the UPDATE runs, stealing the lease from any holder.
AcquireLease(p) ==
  /\ task[p] = "connect"
  /\ \E now \in Clock :
       /\ AcquiredTs(now) <= MaxLease
       /\ lease' = AcquiredTs(now)
       /\ held' = [held EXCEPT ![p] = AcquiredTs(now)]
  /\ task' = [task EXCEPT ![p] = "verify"]
  /\ UNCHANGED <<role, preempt, probes, verified>>

\* The factory failed: a promotion is aborted (back to follower), a boot as
\* leader ends the process.
GiveUpConnecting(p) ==
  /\ task' = [task EXCEPT ![p] = "none"]
  /\ role' = [role EXCEPT ![p] = IF role[p] = "promoting" THEN "follower" ELSE "down"]
  /\ held' = [held EXCEPT ![p] = 0]

\* The factory fails before the UPDATE reached the database.
ConnectFails(p) ==
  /\ task[p] = "connect"
  /\ GiveUpConnecting(p)
  /\ UNCHANGED <<lease, preempt, probes, verified>>

\* The UPDATE committed but its answer was lost: the row moved and nobody holds
\* it.  with_retry sends it again, or the factory fails.
AcquireReplyLost(p) ==
  /\ task[p] = "connect"
  /\ \E now \in Clock :
       /\ AcquiredTs(now) <= MaxLease
       /\ lease' = AcquiredTs(now)
  /\ GiveUpConnecting(p) \/ UNCHANGED <<role, task, held>>
  /\ UNCHANGED <<preempt, probes, verified>>

\* fatal_on_err: check_newly_created failed after the lease was acquired.
VerifyFails(p) ==
  /\ task[p] = "verify"
  /\ GiveUpConnecting(p)
  /\ preempt' = [preempt EXCEPT ![p] = @ \/ role[p] = "promoting"]
  /\ UNCHANGED <<lease, probes, verified>>

-----------------------------------------------------------------------------
(* Promotion in place. *)

\* POST /instance/promote on a follower: RoleState::begin_promotion.  On any
\* other role the handler changes nothing.
BeginPromotion(p) ==
  /\ role[p] = "follower"
  /\ role' = [role EXCEPT ![p] = "promoting"]
  /\ task' = [task EXCEPT ![p] = "connect"]
  /\ UNCHANGED <<lease, held, preempt, probes, verified>>

LeaseAcquired(p) ==
  /\ role[p] = "promoting" /\ task[p] = "verify"
  /\ task' = [task EXCEPT ![p] = "install"]
  /\ UNCHANGED <<lease, role, held, preempt, probes, verified>>

\* Database::become_leader ends: the committer is installed and the lease
\* watch started, while the role is still Promoting.
InstallCommitter(p) ==
  /\ task[p] = "install"
  /\ task' = [task EXCEPT ![p] = "workers"]
  /\ probes' = [probes EXCEPT ![p] = 0]
  /\ verified' = [verified EXCEPT ![p] = TRUE]
  /\ UNCHANGED <<lease, role, held, preempt>>

\* The promotion task ends; a committer it installed stays.
Abandon(p) ==
  task' = [task EXCEPT ![p] = IF @ = "workers" THEN "stranded" ELSE "failed"]

BecomeLeaderFails(p) ==
  /\ role[p] = "promoting" /\ task[p] \in {"install", "workers"}
  /\ Abandon(p)
  /\ Preempt(p)
  /\ UNCHANGED <<lease, role, held, probes, verified>>

FinishPromotion(p) ==
  /\ role[p] = "promoting" /\ task[p] = "workers"
  /\ role' = [role EXCEPT ![p] = "leader"]
  /\ task' = [task EXCEPT ![p] = "none"]
  /\ UNCHANGED <<lease, held, preempt, probes, verified>>

\* PROMOTION_TIMEOUT: the deadline wins the select and drops the promotion.
PromotionDeadline(p) ==
  /\ role[p] = "promoting" /\ task[p] \notin {"failed", "stranded"}
  /\ held' = [held EXCEPT ![p] = ReportedLease(p)]
  /\ Abandon(p)
  /\ Preempt(p)
  /\ UNCHANGED <<lease, role, probes, verified>>

\* RoleState::check_demotion; expected = 0 when the request names no lease.
DemotionApplies(p, expected) ==
  role[p] = "leader" /\ (expected = 0 \/ held[p] = expected)

Demote(p, expected) ==
  /\ DemotionApplies(p, expected)
  /\ Preempt(p)
  /\ UNCHANGED <<lease, role, task, held, probes, verified>>

-----------------------------------------------------------------------------
(* The lease watch: that of a promoted replica starts with its committer, that
   of one that booted as the leader at the end of make_app. *)

Watching(p) == CommitterOn(p) /\ role[p] # "booting" /\ ~preempt[p]

WatchHeld(p) ==
  /\ Watching(p) /\ HoldsLease(p)
  /\ probes' = [probes EXCEPT ![p] = 0]
  /\ verified' = [verified EXCEPT ![p] = TRUE]
  /\ UNCHANGED <<lease, role, task, held, preempt>>

\* Mutant: the watch notes the loss and keeps polling.
WatchLost_NoPreempt(p) ==
  /\ Watching(p) /\ ~HoldsLease(p)
  /\ verified' = [verified EXCEPT ![p] = TRUE]
  /\ UNCHANGED <<lease, role, task, held, preempt, probes>>

WatchLost(p) ==
  /\ Watching(p) /\ ~HoldsLease(p)
  /\ verified' = [verified EXCEPT ![p] = TRUE]
  /\ Preempt(p)
  /\ UNCHANGED <<lease, role, task, held, probes>>

\* A transient error restarts the count of non-transient ones and never
\* preempts; enough of them in a row leave the lease unverified.
WatchTransient(p) ==
  /\ Watching(p)
  /\ probes' = [probes EXCEPT ![p] = 0]
  /\ verified' = [verified EXCEPT ![p] = FALSE]
  /\ UNCHANGED <<lease, role, task, held, preempt>>

WatchNonTransient(p) ==
  /\ Watching(p)
  /\ probes' = [probes EXCEPT ![p] = @ + 1]
  /\ preempt' = [preempt EXCEPT ![p] = probes[p] + 1 >= MaxProbeFailures]
  /\ verified' = [verified EXCEPT ![p] = FALSE]
  /\ UNCHANGED <<lease, role, task, held>>

\* A commit whose lease precondition fails fires lease_lost_shutdown.
CommitFenced(p) ==
  /\ CommitterOn(p) /\ ~HoldsLease(p)
  /\ Preempt(p)
  /\ UNCHANGED <<lease, role, task, held, probes, verified>>

-----------------------------------------------------------------------------

\* What the promotion task of p does on its own, once started.
TaskStep(p) ==
  \/ AcquireLease(p) \/ LoadedAsLeader(p) \/ BootedAsLeader(p)
  \/ LeaseAcquired(p) \/ InstallCommitter(p) \/ FinishPromotion(p)

TaskFault(p) ==
  \/ ConnectFails(p) \/ AcquireReplyLost(p) \/ VerifyFails(p)
  \/ BecomeLeaderFails(p) \/ PromotionDeadline(p)

WatchStep(p) ==
  \/ WatchHeld(p) \/ WatchLost(p) \/ WatchTransient(p) \/ WatchNonTransient(p)

Lifecycle(p) ==
  \/ BootFollower(p) \/ FollowerReady(p) \/ BootLeader(p)
  \/ Exit(p) \/ Crash(p)

RoleNext ==
  \E p \in Pod :
    \/ Lifecycle(p)
    \/ BeginPromotion(p) \/ TaskStep(p) \/ TaskFault(p)
    \/ WatchStep(p) \/ CommitFenced(p)
    \/ \E expected \in 0..MaxLease : Demote(p, expected)

RoleSpec == RoleInit /\ [][RoleNext]_roleVars

\* The process exits once preempted, a probe gets through in the end, and the
\* deadline timer of a promotion fires.
RoleFairness ==
  \A p \in Pod :
    /\ WF_roleVars(Exit(p))
    /\ WF_roleVars(WatchLost(p))
    /\ WF_roleVars(PromotionDeadline(p))

FairRoleSpec == RoleSpec /\ RoleFairness

-----------------------------------------------------------------------------
(* Properties. *)

\* Two processes never hold the same lease, however their clocks run, whatever
\* UPDATE answers are lost and whoever steals from whom (Lease::acquire), and
\* no process holds a lease that the row has not reached.
LeasesDistinct ==
  /\ \A p \in Pod : held[p] <= lease
  /\ \A p, q \in Pod : p # q /\ held[p] # 0 => held[p] # held[q]

\* Of several replicas that report a lease, only the one with the highest can
\* hold the row: what the control plane's choice among several claims
\* (betterLeader) and its demotion of the others rest on.
HighestReportWins ==
  \A p, q \in Pod :
    ReportedLease(q) # 0 /\ ReportedLease(q) < ReportedLease(p) => ~HoldsLease(q)

\* How role, task and lease of one process go together.
TaskShape ==
  \A p \in Pod :
    /\ role[p] \in {"down", "follower"} => task[p] = "none" /\ held[p] = 0
    /\ role[p] = "booting" => task[p] \in {"none", "connect", "verify", "workers"}
    /\ role[p] = "promoting" => task[p] # "none"
    /\ role[p] = "leader" => task[p] = "none" /\ held[p] # 0
    /\ task[p] \in {"verify", "install", "workers", "stranded"} => held[p] # 0
    /\ task[p] = "connect" => held[p] = 0
    /\ role[p] = "booting" /\ task[p] = "none" => held[p] = 0
    /\ probes[p] = MaxProbeFailures => preempt[p]

\* The inductive invariant behind LeasesDistinct and HighestReportWins.
RoleInv == RoleTypeOK /\ LeasesDistinct /\ TaskShape

\* A stolen lease never comes back to the process it was stolen from: from the
\* moment the row passes it, that process can only exit or acquire anew.
StolenStaysStolen ==
  [][\A p \in Pod :
       held[p] # 0 /\ ~HoldsLease(p) => held'[p] \in {0, held[p]} /\ ~HoldsLease(p)']_roleVars

\* A deposed leader does not serve for ever: its lease watch sees the loss and
\* the process restarts (spawn_lease_watch), although transient probe errors
\* alone never preempt it.
DeposedLeaderExits ==
  \A p \in Pod : (role[p] = "leader" /\ ~HoldsLease(p)) ~> (role[p] # "leader")

\* No promotion hangs: a promoting replica becomes the leader, falls back to
\* follower or restarts (promote's PROMOTION_TIMEOUT and the preempt signal).
PromotionsEnd == \A p \in Pod : (role[p] = "promoting") ~> (role[p] # "promoting")

\* What a replica is in the middle of comes to an end: it neither leads without the
\* lease (spawn_lease_watch) nor promotes (promote) for ever.
RolesSettle == DeposedLeaderExits /\ PromotionsEnd
=============================================================================
