-------------------------------- MODULE Boot --------------------------------
(***************************************************************************)
(* How the replicas of a deployment start and stop, and how their database *)
(* comes to be initialised.  A replica that is configured as leader looks  *)
(* whether the database has been initialised before it takes the lease; it *)
(* starts as a follower if it has.  Initialisation is three writes, each   *)
(* under the lease, and a crash may fall between any two.                  *)
(*                                                                         *)
(* Abstracted: the lease is a counter (BackendRole has the rows and the    *)
(* clocks), and a promotion is one step.  What Database::load and          *)
(* initialize_storage write is upstream code, modelled by what the patches *)
(* ask of it.                                                              *)
(***************************************************************************)
EXTENDS Naturals, FiniteSets

CONSTANTS
  Replica,
  LeaderSets,    \* which replicas may be the ones configured as leader
  Tokens,        \* pods with a control plane token
  Postgres,      \* the database is Postgres
  None,
  MaxLease,      \* bound on the lease, for starting replicas
  MaxPromotions, \* bound on the promotions
  MaxFaults,     \* bound on the failures that end a process
  MaxSignals     \* bound on the signals

ASSUME BootAssumption ==
  /\ IsFiniteSet(Replica) /\ LeaderSets \subseteq SUBSET Replica /\ Tokens \subseteq Replica
  /\ Postgres \in BOOLEAN /\ None \notin Replica
  /\ MaxLease \in Nat /\ MaxPromotions \in Nat /\ MaxFaults \in Nat /\ MaxSignals \in Nat

VARIABLES
  leaders,    \* the replicas configured as leader
  lease,      \* the lease row
  db,         \* how far the database is initialised
  repeatable, \* how far it is at the MaxRepeatableTimestamp global, where followers read
  tag,        \* the storage tag: who wrote it
  stage,      \* where run_server_inner is
  asFollower, \* boot_as_follower
  leads,      \* its role is Leader
  taken,       \* the lease of its persistence
  snap,       \* how far initialised the database is, as the process knows it
  preempt,    \* the preempt signal was sent
  promotions, faults, signals

databaseVars == <<lease, db, repeatable, tag>>
processVars == <<stage, asFollower, leads, taken, snap, preempt>>
bounds == <<promotions, faults, signals>>
bootVars == <<leaders, databaseVars, processVars, bounds>>

Stages == {"down", "probe", "read", "connect", "load", "tables", "storage", "workers",
           "serving", "draining"}

\* Nothing; the documents of Database::load; the application's system tables; the
\* storage tag.
Empty == 0
Documents == 1
Tables == 2
Tagged == 3

BootInit ==
  /\ leaders \in LeaderSets /\ lease = 0 /\ db = Empty /\ repeatable = Empty /\ tag = None
  /\ stage = [p \in Replica |-> "down"] /\ asFollower = [p \in Replica |-> FALSE]
  /\ leads = [p \in Replica |-> FALSE] /\ taken = [p \in Replica |-> 0]
  /\ snap = [p \in Replica |-> Empty] /\ preempt = [p \in Replica |-> FALSE]
  /\ promotions = 0 /\ faults = 0 /\ signals = 0

-----------------------------------------------------------------------------
(* run_server_inner, up to make_app. *)

dynamicRoles(p) == p \notin leaders \/ p \in Tokens

\* Followers need Postgres, and somebody who can promote them.
mayStart(p) == (dynamicRoles(p) => Postgres) /\ (p \in Tokens \/ p \in leaders)

Goto(p, s) == stage' = [stage EXCEPT ![p] = s]

Launch(p) ==
  /\ stage[p] = "down" /\ mayStart(p)
  /\ Goto(p, IF p \notin leaders THEN "read" ELSE IF dynamicRoles(p) THEN "probe" ELSE "connect")
  /\ UNCHANGED <<databaseVars, asFollower, leads, taken, snap, preempt, bounds>>

\* Mutant: a pod configured as leader starts as leader.
Probe_Configured(p) ==
  /\ stage[p] = "probe"
  /\ Goto(p, "connect")
  /\ UNCHANGED <<databaseVars, asFollower, leads, taken, snap, preempt, bounds>>

\* postgres_database_initialized: there are documents.
Probe(p) ==
  /\ stage[p] = "probe"
  /\ asFollower' = [asFollower EXCEPT ![p] = db # Empty]
  /\ Goto(p, IF db # Empty THEN "read" ELSE "connect")
  /\ UNCHANGED <<databaseVars, leads, taken, snap, preempt, bounds>>

\* The process is gone, and all it knew.
Down(p) ==
  /\ Goto(p, "down")
  /\ asFollower' = [asFollower EXCEPT ![p] = FALSE] /\ leads' = [leads EXCEPT ![p] = FALSE]
  /\ taken' = [taken EXCEPT ![p] = 0] /\ snap' = [snap EXCEPT ![p] = Empty]
  /\ preempt' = [preempt EXCEPT ![p] = FALSE]
  /\ UNCHANGED <<databaseVars, promotions, signals>>

-----------------------------------------------------------------------------
(* make_app as a follower, which reads at the last repeatable timestamp: what is     *)
(* committed above it is not there yet.                                              *)

LoadFollower(p) ==
  /\ stage[p] = "read" /\ repeatable = Tagged
  /\ Goto(p, "serving")
  /\ UNCHANGED <<databaseVars, asFollower, leads, taken, snap, preempt, bounds>>

\* Mutant: whoever waits for the tag, waits for others to write it.
Untagged_Fails(p) == stage[p] = "read" /\ repeatable # Tagged /\ Down(p) /\ UNCHANGED faults

\* There is no storage tag, or nothing at all: the leader has not finished, or what it
\* wrote is not repeatable yet.  A pod that is configured as leader is the one to finish.
Untagged(p) ==
  /\ stage[p] = "read" /\ repeatable # Tagged
  /\ IF asFollower[p] /\ repeatable # Empty
     THEN Goto(p, "connect") /\ UNCHANGED <<databaseVars, asFollower, leads, taken, snap, preempt, promotions, signals>>
     ELSE Down(p)
  /\ UNCHANGED faults

\* Loading fails for another reason.
LoadFails(p) ==
  /\ stage[p] = "read" /\ faults < MaxFaults
  /\ faults' = faults + 1 /\ Down(p)

-----------------------------------------------------------------------------
(* leader_persistence, and make_app as a leader. *)

Connect(p) ==
  /\ stage[p] = "connect" /\ lease < MaxLease
  /\ lease' = lease + 1 /\ taken' = [taken EXCEPT ![p] = lease + 1]
  /\ Goto(p, "load")
  /\ UNCHANGED <<db, repeatable, tag, asFollower, leads, snap, preempt, bounds>>

\* Mutant: a write does not look at the lease.
canWrite_Unfenced(p) == taken[p] # 0

canWrite(p) == taken[p] = lease

\* Database::load writes the documents, if there are none, and the idle timestamp it
\* reads at, the first repeatable one after all that is committed.
LoadLeader(p) ==
  /\ stage[p] = "load" /\ canWrite(p)
  /\ db' = (IF db = Empty THEN Documents ELSE db) /\ repeatable' = db'
  /\ snap' = [snap EXCEPT ![p] = db']
  /\ Goto(p, "tables")
  /\ UNCHANGED <<lease, tag, asFollower, leads, taken, preempt, bounds>>

\* One write of the initialisation: done, if it is not there yet.
Initialise(p, to) ==
  IF snap[p] >= to THEN UNCHANGED <<db, snap>>
  ELSE canWrite(p) /\ db' = to /\ snap' = [snap EXCEPT ![p] = to]

InitTables(p) ==
  /\ stage[p] = "tables"
  /\ Initialise(p, Tables)
  /\ Goto(p, "storage")
  /\ UNCHANGED <<lease, repeatable, tag, asFollower, leads, taken, preempt, bounds>>

InitStorage(p) ==
  /\ stage[p] = "storage"
  /\ Initialise(p, Tagged)
  /\ tag' = IF snap[p] >= Tagged THEN tag ELSE p
  /\ Goto(p, "workers")
  /\ UNCHANGED <<lease, repeatable, asFollower, leads, taken, preempt, bounds>>

\* A write finds that the lease is another's: make_app fails.
Fenced(p) ==
  /\ \/ stage[p] = "load"
     \/ stage[p] = "tables" /\ snap[p] < Tables
     \/ stage[p] = "storage" /\ snap[p] < Tagged
  /\ ~canWrite(p)
  /\ Down(p) /\ UNCHANGED faults

\* The workers are started, the routes served, the lease watched.
StartWorkers(p) ==
  /\ stage[p] = "workers"
  /\ Goto(p, "serving") /\ leads' = [leads EXCEPT ![p] = TRUE]
  /\ UNCHANGED <<databaseVars, asFollower, taken, snap, preempt, bounds>>

BootStep(p) ==
  \/ Launch(p) \/ Probe(p) \/ LoadFollower(p) \/ Untagged(p) \/ Connect(p)
  \/ LoadLeader(p) \/ InitTables(p) \/ InitStorage(p) \/ Fenced(p) \/ StartWorkers(p)

-----------------------------------------------------------------------------
(* Serving, and the end. *)

\* Once there is a committer, it makes what is committed repeatable from time to time,
\* under the lease.
BumpMaxRepeatable(p) ==
  /\ stage[p] \in {"tables", "storage", "workers"} \/ leads[p]
  /\ canWrite(p) /\ repeatable # db
  /\ repeatable' = db
  /\ UNCHANGED <<lease, db, tag, processVars, bounds>>

\* bigbrain promotes a follower, which takes the lease and persists the idle timestamp.
Promote(p) ==
  /\ stage[p] = "serving" /\ ~leads[p] /\ promotions < MaxPromotions
  /\ promotions' = promotions + 1
  /\ lease' = lease + 1 /\ taken' = [taken EXCEPT ![p] = lease + 1]
  /\ leads' = [leads EXCEPT ![p] = TRUE] /\ repeatable' = db
  /\ UNCHANGED <<db, tag, stage, asFollower, snap, preempt, faults, signals>>

\* The lease watch, or a commit, finds that the lease is another's.
LeaseLost(p) ==
  /\ leads[p] /\ taken[p] # lease /\ ~preempt[p]
  /\ preempt' = [preempt EXCEPT ![p] = TRUE]
  /\ UNCHANGED <<databaseVars, stage, asFollower, leads, taken, snap, bounds>>

Signal(p) ==
  /\ stage[p] = "serving" /\ signals < MaxSignals
  /\ signals' = signals + 1 /\ Goto(p, "draining")
  /\ UNCHANGED <<databaseVars, asFollower, leads, taken, snap, preempt, promotions, faults>>

\* A fatal error ends the process at once, also while it drains.
PreemptedExit(p) == stage[p] \in {"serving", "draining"} /\ preempt[p] /\ Down(p) /\ UNCHANGED faults

\* Requests and workers have ended, or a second signal has come.
Drained(p) == stage[p] = "draining" /\ Down(p) /\ UNCHANGED faults

Crash(p) == stage[p] # "down" /\ faults < MaxFaults /\ faults' = faults + 1 /\ Down(p)

ServeStep(p) ==
  BumpMaxRepeatable(p) \/ Promote(p) \/ LeaseLost(p) \/ PreemptedExit(p) \/ Drained(p)
FaultStep(p) == LoadFails(p) \/ Signal(p) \/ Crash(p)

BootNext == (\E p \in Replica : BootStep(p) \/ ServeStep(p) \/ FaultStep(p)) /\ UNCHANGED leaders

BootSpec == BootInit /\ [][BootNext]_bootVars

\* A process that is gone is started again, its boot gets on, the committer advances the
\* repeatable timestamp, the lease watch finds what is lost, and the signals are
\* selected on.  A drain may hang.
BootFairness ==
  \A p \in Replica :
    /\ WF_bootVars(BootStep(p) /\ UNCHANGED leaders) /\ WF_bootVars(LeaseLost(p) /\ UNCHANGED leaders)
    /\ WF_bootVars(PreemptedExit(p) /\ UNCHANGED leaders)
    /\ WF_bootVars(BumpMaxRepeatable(p) /\ UNCHANGED leaders)

FairBootSpec == BootSpec /\ BootFairness

-----------------------------------------------------------------------------
(* Properties. *)

\* Also: whoever serves has found the database initialised.
BootTypeOK ==
  /\ leaders \in LeaderSets
  /\ lease \in Nat /\ db \in Empty..Tagged /\ repeatable \in Empty..db /\ tag \in Replica \union {None}
  /\ stage \in [Replica -> Stages]
  /\ taken \in [Replica -> Nat] /\ snap \in [Replica -> Empty..Tagged]
  /\ \A f \in {asFollower, leads, preempt} : f \in [Replica -> BOOLEAN]
  /\ \A p \in Replica :
       /\ taken[p] <= lease
       /\ stage[p] \in {"workers", "serving", "draining"} => tag # None

\* The storage tag is written once, however many replicas initialise the database at
\* the same time and whichever of them is deposed on the way: files stay where the
\* first tag said they are, and nobody serves before it is there.
InitialisedOnce == [][BootTypeOK' /\ (tag # None => tag' = tag)]_bootVars

\* A replica that starts never takes the lease from one that leads: after a failover
\* the replica configured as leader comes back as a follower and waits to be promoted
\* (with one replica configured as leader).
BootSparesLeader ==
  [][Cardinality(leaders) = 1 => \A p, q \in Replica :
       stage[p] = "connect" /\ stage'[p] = "load" => ~(leads[q] /\ taken[q] = lease)]_bootVars

\* Once a replica was launched, the database is initialised in the end and every
\* replica serves, or drains, for good, wherever the crashes fall (with one replica
\* configured as leader; two may take the lease from each other before the tag is read).
AllServe ==
  (Cardinality(leaders) = 1 /\ \E p \in Replica : stage[p] # "down") ~>
    [](\A p \in Replica : stage[p] \in {"serving", "draining"})

\* A process that lost its lease ends, even when it is draining and a request hangs.
PreemptedExits == \A p \in Replica : preempt[p] ~> (stage[p] = "down")

\* Boots come to serve, and processes that lost their lease to an end, for good.
BootSettles == AllServe /\ PreemptedExits

-----------------------------------------------------------------------------
(* What makes them inductive. *)

\* No two processes have the same lease, and one that initialises the database and
\* still has the row's knows how far the database is.
HolderKnows ==
  /\ db = Tagged <=> tag # None
  /\ \A p, q \in Replica : p # q /\ taken[p] = taken[q] => taken[p] = 0
  /\ \A p \in Replica :
       /\ snap[p] <= db
       /\ stage[p] \in {"load", "tables", "storage"} => taken[p] # 0
       /\ stage[p] \in {"tables", "storage"} /\ canWrite(p) => snap[p] = db
       /\ leads[p] => stage[p] \in {"serving", "draining"}

\* None but a replica configured as leader takes the lease at its start, and any other
\* that serves has read the tag.
LeadersBoot ==
  \A p \in Replica :
    /\ asFollower[p] \/ stage[p] \in {"probe", "connect", "load", "tables", "storage", "workers"}
         => p \in leaders
    /\ stage[p] \in {"serving", "draining"} => p \in leaders \/ repeatable = Tagged

BootFits == BootTypeOK /\ HolderKnows /\ LeadersBoot

\* Every replica configured as leader can be demoted, and the one that there is
\* starts as leader only before the storage tag can be read.
AllDynamic == \A ls \in LeaderSets : ls \subseteq Tokens

ConnectsFirst == Cardinality(leaders) = 1 => \A p \in Replica : stage[p] = "connect" => repeatable # Tagged
=============================================================================
