# Concave: a verification development

Concave makes self-hosted Convex backends highly available: several backend
replicas share one Postgres database, one of them leads, the others follow it
and can be promoted in place. This directory models that system in TLA+, checks
the models with TLC and proves some of their properties with TLAPS.

Paths below are relative to the repository (`src/`); `NN` stands for the patch
`src/backend/patches/backend/NN-*.patch`.

## 1. Inventory

| Component | Source | State it keeps | Operations |
|---|---|---|---|
| role machine of a backend | 01, 04 | `Role` (Follower, Promoting, Leader with its persistence), the preempt signal | promote, demote, leadership report, exit on preempt |
| lease | 11 | one row `leases.ts`; in a process the `lease_ts` of its persistence | acquire (steals), lease_held, the precondition of every write |
| lease watch | 02 | counters of failed probes, time of the last good one | probe every 1.5 s, preempt |
| follower tailer | 02 | `tailed_ts`, the snapshot manager, `demand`, `progress` | tail, cold reload, final fast-forward at promotion |
| committer of a leader | 02 (upstream code below it) | last timestamp, pending writes, `max_repeatable_ts` | commit under the lease, advance the repeatable timestamp |
| boot, shutdown | 05, 03 | how far `make_app` is | boot as follower or leader, start workers, restart |
| election controller | `router/bigbrain/election` | per deployment: streaks, incumbent, failback clock, remembered transitions, promote attempts, two in-flight flags | a reconcile round every 2 s; goroutines that promote and demote |
| backend client, discovery | `bigbrain/backend`, `bigbrain/k8sclient` | the "written" flag of a call | list pods, poll leadership, promote, demote |
| registry, server | `bigbrain/registry`, `bigbrain/server` | leader, sequence number, epoch, subscribers' channels | Update, GET leader, SSE leader-stream |
| usher | `router/usher` | per deployment: epoch, last applied sequence number, proxy target | poll, read the stream, proxy requests |
| insights, usage forwarder | `bigbrain/insights`, 06 | a ring of rows; a bounded queue, a carried batch | ingest, query; record, post with retries, drain |
| funrun client | 08, 03 | the set of endpoints; for a call the attempt, what it received | resolve, insert and remove endpoints, wait for the first; send, retry, give up; set a scheduled job back to pending |
| funrun server | 09 | the instance and the last load error, the tailer's and the pool's health, calls in flight | load with retries, report, run a function and stream its lines, drain |
| metrics API | `bigbrain/apiserver` | the samples of the last cycle | scrape all namespaces, replace, serve by name and by selector |
| bigbrain's process | `bigbrain/main.go` | which servers and loops run, what has failed | parse the environment, start, shut down within limits, report in the exit code |
| usher's process | `router/usher` | the table of hosts; for a request the proxy it was given | validate, route, probe, proxy, nudge a poll, shut down |

How they interact. bigbrain polls `GET /instance/leadership` of every pod,
decides, and calls `POST /instance/promote` and `/instance/demote`. A promotion
takes the Postgres lease from whoever holds it; the former leader notices by its
lease watch, by a failed commit, or by a demote call, and restarts as a
follower. The controller publishes the leader in the registry; usher learns it
from the stream and by polling, and proxies to it. Nobody trusts anybody's
memory: the lease row alone decides whose commits land.

What is hard here:

* several replicas can believe that they lead, and only the row knows;
* a promotion can fail, time out or lose an answer at every await, before or
  after the lease moved;
* commits of the old leader are in flight while the new one reads the log;
* followers read at timestamps below which nothing may ever land again;
* the controller decides from polls that are older than its own calls, and a
  call that it gave up may still arrive;
* bigbrain and the backends restart at any time, and keep no state on disk apart
  from the database;
* the leader reaches usher by two channels in no common order;
* a function call may have run although its answer was lost, and an action must
  not run twice;
* the first start of a deployment initialises the database in several writes, and
  any of them may be the last one before a crash;
* every shutdown waits for something that may hang.

The properties that make each part correct are listed with the runs in section
3; `hazards` in `PROJECT.json` has the places in the code where they bite.

## 2. The modules

    BackendRole ---------------------------- BackendRoleProofs
       |      \
    Replica  refines  FencedLog ------------ ReplicaProofs
       |      Election (with Decide), ElectionAudit ---- ElectionProofs
       |                Decide, DecideLoops
    Routing  refines  LeaderFeed; Usher ---- RoutingProofs
    Bigbrain; Metrics ---------------------- BigbrainProofs
    UsageForwarder ------------------------- UsageProofs
    Insights  refines  RecentRows, InsightsQuery ---- ComputationProofs (with DecideLoops)
    FunrunCall, FunrunEndpoints, FunrunPod, Boot ------ BackendProofs

A module with the prefix MC is an instance for TLC; what stands on the right has the
theorems about what stands on its left.

**BackendRole** models every replica of a deployment and the lease row. `role`
and `task` are the position of the process in 04's `promote` and
`perform_promotion` (or in 05's `make_app` for a boot as leader), `held` is the
`lease_ts` of its persistence, `lease` the row. One action per step at which
something may fail or interleave: `AcquireLease` is the UPDATE, `VerifyFails`
what `fatal_on_err` guards, `InstallCommitter` the end of
`Database::become_leader`, `PromotionDeadline` the losing branch of the
`select`. The lease watch has one action per outcome of a probe.

**Replica** extends it with the data: the documents log, the
`MaxRepeatableTimestamp` global, each tailer (`stage`, `tailed`, `target`,
`snap`) and each committer (`last`, `pending`). Commits get timestamps in order
and land out of order. `FinalFastForward` is `handle_promote`; `BecomeLeader`
persists the idle timestamp under the lease and starts the committer.

**FencedLog** is what lease, commits and tailers promise together, without
processes, promotions or repeatable timestamps: a log that only the newest epoch
writes, above all that was read, and readers that hold whole prefixes of it and
move forward. Replica implements it; `Reads` says which replicas are the readers, until a
promotion takes a tailer over.

**Boot** is how replicas start and stop. `stage` is where `run_server_inner` and
`make_app` are: `Probe` reads whether there are documents, `Untagged` is the
fallback of a replica configured as leader that finds no storage tag, `Connect`
takes the lease, `LoadLeader`, `InitTables` and `InitStorage` are the writes of
the initialisation, each under the lease, and `snap` is what the process knows of
them. A follower reads at the last repeatable timestamp (02's `load_follower`), so
`repeatable` is kept apart from `db`: a tag that is committed and not yet repeatable
is not there for `LoadFollower`, and leads to `Untagged`. `LoadLeader` and `Promote`
persist an idle timestamp, and `BumpMaxRepeatable` is the committer's own.
`PreemptedExit` and `Drained` are the branches of the two selects at the end.

**Decide** has the predicates and comparisons of `decide.go` over one round of
observations, choices stated as "the element that beats all others".
**DecideLoops** has the loops and early returns as they are written and shows
that they compute those choices: `list` is the order in which the pods are listed,
`scan` the loop that keeps the best so far, which the three choosing functions share
up to who is eligible and what beats what.

**Election** extends BackendRole and Decide with the controller: `Discover`,
`Poll`, `Remember` (rememberTransitions) and `Act` are one reconcile round;
`ActLeaderless` and `ActLed` are `decide`, `commitState` and `act` in one step.
The polls, `Remember` and `Act` are separate steps because the goroutines of
earlier rounds run between them. `rpc` is the promote call: "dial", "written",
"replied", "broken"; what was given up after it was written stays in `stray`.
`targets` is what is left to the demoting goroutine, `late` the demote requests
given up. **ElectionAudit** adds history variables that no action reads.

**Routing** models registry, leader-stream handler, wire, and usher's tracker,
stream reader and resolve loop; **LeaderFeed** is what they promise together: a
log of published leaders and a view that only moves forward through it.

**UsageForwarder** models the forwarder of 06: `stage` is where the caller of
`record_async` is between its two counts, `worker`, `hand`, `carry` and `attempt`
are the task's locals, `request` the attempt at bigbrain, `stray` attempts whose
sender gave up. Each `try_recv` and each access to a counter is a step, because
callers, worker and `shutdown` share them. **Insights** is bigbrain's store: a
ring for each deployment, pushed row by row under the lock; **RecentRows** is what
it promises, the last rows in their order. **InsightsQuery** is what surrounds it:
tokens, the rows made of the posted events, and the aggregation of a query. A group
of rows is the set of their positions in the ring (`rowsIn`, `aggregateOCC`,
`aggregateRead`); hours and counts are cardinalities; the recent events are those of
any order that `NewestFirst` accepts, because the sort of the code is not stable.

**FunrunCall** is one function call: `client`, `attempt`, `parts` and `held` are the
locals of `run_function_remote` and `run_function_attempt`, `server` has what a pod
does with each request ever sent, `wire` what was sent and not read. Requests may
arrive late or never, pods refuse, fail, panic and die, and a job that asked for the
call may be set back to pending. **FunrunEndpoints** is the task that follows the
DNS (`current`, `unique`, `gone`), the bounded channel to the balancer, and the
callers of `wait_for_endpoints`. **FunrunPod** is one pod from its start to its end:
`warm`, the probes, the signal watcher and the two servers.

**Metrics** is the scraper with all its namespaces and pods at once (`stage`,
`took`, `asking`, `fresh`) and the provider's `cache`; samples carry their age.

**Bigbrain** is `main.go`: Init is the parsing of the environment, then loops,
servers and actuations run and hang, and `CloseServer`, `ServerClosed` and `Exit` are
`shutdown`, against a clock of ticks. **Usher** is `usher/main.go` around the tracker
of Routing: Init is validation and the table of hosts, `Arrive` is `newMux` and
`serveHTTP` up to the proxy, and a request in `inflight` keeps the URL it was given until
`UpstreamAnswers`, `UpstreamFails` or another end; `nudge` (nudgeResolve with its pacing)
and the polls are the tracker's side.

Choices a reader should know:

* The idle timestamp and the start of the committer are one step. Between them
  a thief may take the lease; then the committer starts without it and nothing
  it writes lands, which is also what happens when it loses it a step later.
* The UPDATE of `acquire` takes effect while its sender waits. An UPDATE that
  the server runs after the sender gave up is a move of the row that nobody
  holds, and `AcquireReplyLost` has it.
* `verified` is one bit for "the last good probe is within the grace".
* A process that is exiting still serves, until `Exit`: the code waits for it
  nowhere.
* A pod keeps its name and restarts; a pod that is recreated under a new name is
  a pod that was never listed before.
* In Election time is counted in rounds. `seen` 0 is a mark made after the round
  began to poll, `GraceTicks + 1` no mark. `unreached` v means v - 1 rounds.
* A demote request in flight holds the lease the poll saw; an absent lease is 0.
* A send to the forwarder's channel is one step, as is each receive; tokio's
  internals are not modelled. A select with two ready branches takes either.
  `abort` lets the task run on to a point where it waits.
* A batch recorded after `shutdown` has read the outstanding count, and before
  the aborted task drops the channel, is lost and counted by nobody;
  `NothingLostUnnoticed` speaks of the other batches.
* The steps of Boot that write are those of upstream code, taken from what the
  patches check: documents, system tables, storage tag, each under the lease. The
  documents and the first repeatable timestamp, both of `Database::load`, are one step.
  A deployment may have one replica configured as leader, as in the chart, or, while
  one is being replaced, two (`LeaderSets`). Two may steal the lease from each other
  before either has made the tag repeatable, so `AllServe` and `BootSparesLeader` are
  about one.
* In FunrunCall mutations stand under "query": the backend commits what a delivered
  result holds and nothing else, so that running one twice is harmless.
* In Bigbrain a deployment's promotion and demotion, which may overlap, are one
  actuation; a loop whose context is cancelled ends within a tick.
* In Usher a poll is answered and applied in one step, the published leader leads,
  and others answer with their gate. A request that finds no leader nudges nobody.
* The epoch of a registry is random in the code and a counter in the model; one
  bigbrain runs at a time because its Deployment has one replica and the
  strategy Recreate. Two equal random epochs are left out.

## 3. The runs

| Run | Question | Bounds |
|---|---|---|
| `roles` | Are leases distinct, does a stolen one stay stolen, is the highest reported claim the only one that can hold the row? Does a deposed leader restart, does every promotion end? | 3 replicas, all may boot as leader, lease up to 3, clocks 0, 1, 3 |
| `replica` | Does a new leader miss a commit, does a follower's snapshot change under it, are the leases epochs of the log? Do lease, commits, tailers and promotions together implement FencedLog? | 2 replicas, lease up to 2, timestamps up to 3 |
| `decide` | Do the loops compute what is specified, is a decision consistent? | 3 pods, 10 kinds of answer, every list order |
| `election` | Can stale polls, lost, late or stray calls and restarts make the controller demote the holder, promote twice, or skip a debounce? | 2 replicas, lease up to 3, one fault, grace and stability of one round, debounces of 2 |
| `election_live` | After the last fault, does one published leader hold the lease, and is it the preferred replica? | 2 replicas, lease up to 5, one fault, debounces of 1 |
| `routing` | Does the tracker only move forward through what was published, is a quiet stream current, does the proxy end up at the published leader? Do requests alone take a tracker off a backend that no longer leads, does usher's process end? | 2 backends, 2 bigbrains, 2 changes each, 2 frames, 2 failures; an usher with 1 deployment, 2 changes of leader |
| `usher` | Does a request reach its deployment and a probe usher, does readiness never guess, is no failure swallowed by the pacing? | good and bad configurations of up to 2 deployments, 11 requests, 2 changes of leader, 1 failure |
| `usage` | Is a batch overtaken, lost without being counted, or sent too often; is `outstanding` right; does the pipeline empty and the worker stop? Does a ring hold the last rows in order after it has wrapped? Are conflicts and limits counted as a direct definition says, and is a deployment without a token closed? | 3 batches, one large; channel, post and attempts of 2; 2 failing attempts; a shutdown at any point. 2 deployments, 3 rows, rings of 3, posts of up to 2. Events on both sides of each boundary |
| `usage_help` | Does the counter of dropped batches count what its help text says? (no) | the forwarder of `usage` |
| `backend` | Is an interrupted initialisation finished, is the storage tag written once, does a restart spare the leader, does a deposed leader end while it drains? Is an action started at most once, are the lines heard those of one attempt, does the result come after them, does a call end? Does a call that is let through find an endpoint? Does a funrun pod's report follow the last load, does the pod end? | 2 replicas, one or both configured as leader, 2 crashes, 2 promotions, 1 signal; 3 attempts, 2 runs of a job, 1 line; 3 pods, 2 callers, a channel of 3; 2 calls in flight |
| `bigbrain` | Does a shutdown stay within its time, drain the actuations of one call and report what stopped the process? How old can a sample be that the autoscaler reads, and do the samples of one answer belong together? | 2 deployments, good and bad environments, 1 request, 1 stream; 2 namespaces, 3 pods, interval and timeouts of one tick |
| `bigbrain_demotions` | Does it also drain an actuation that demotes two pods? (no) | the process of `bigbrain` with 2 pods |

`routing`, `usage`, `backend` and `bigbrain` each check several modules that share no
variable. The MC module chooses one of them in its initial state (`part`); that one
steps, under its own fairness, and the others stay as they began. The state space is
the sum of theirs, and a property of one module holds in the behaviours of the others
because nothing it speaks of has happened there.

Why the bounds are enough. Three replicas with unrelated clocks let a lease be
stolen from a thief, by a clock behind and by one ahead. In `replica` two leases
are one hand-over, and three timestamps leave room for a commit of the old
leader, one in flight and one of the new leader. In `election` one fault is one
lost answer, one broken call, one crash of a replica or of bigbrain, or one
failed listing, at any point of two full leaderships; a pod that restarts, loses
a lease it never used or is slow costs no fault. `MaxRestarts` counts restarts
modulo a small number; it is above the number of restarts that lie between two
uses of a count in these runs. In `routing` two channels, two epochs and two
numbers are the smallest instance where a late frame and an overtaken answer
both differ from what they are compared with. In `usage` two small batches share
a post, the large one is carried over, and the three fill a channel of two while a
post is under way; neither the store nor the queries have a bound on the number of
posts. In `backend` two crashes can fall on the first and on the second start, and
the bound on the lease leaves one for every start and promotion of a deployment with
one configured leader; a bound that is hit would show as a violation of `AllServe` in `BootSettles`.
Three attempts let a late request of the first run beside the third, and two runs of
the job let one of the run before. In the metrics of `bigbrain` a cycle may take
longer than the interval, and in `usher` the interval between nudges is longer than a
poll takes.

`usage_help` is a finding: the help text of
`USAGE_FORWARDER_DROPPED_BATCHES_TOTAL` speaks of batches that the channel did
not take, and the code also counts rejected, failed and abandoned ones.

`bigbrain_demotions` is the other one. A demotion calls its pods one after another,
each with the whole actuation timeout, and the drain waits for one timeout and a
slack. With two pods that do not answer the process exits under the actuation,
although the chart holds the grace period to be what a clean shutdown needs. The
requests that were not sent are decided anew by the next bigbrain.

Liveness is checked where the bounds do not get in the way: in `election_live`
the lease bound leaves a promotion for every fault and one for the failback.
A lease bound that is hit would stop promotions and show as a violation.

Fairness. `roles` assumes that a preempted process exits (05 selects on the
signal), that a probe which keeps finding the lease lost is answered once, and
that the deadline timer of a promotion fires. `election_live` assumes that the
reconcile loop's ticker comes round, that a call ends (each has a timeout), that
the demoting goroutine gets on, and that each replica's own task, watch, boot
and exit go on. It assumes nothing of the faults, whose number is bounded.
`routing` assumes the resolve loop's ticker and the end of a request, and nothing of
the stream; of usher, that requests keep coming and that some of them are waited for
(strong fairness, as clients may go away again and again), that a token is taken from
the channel and a poll ends, and nothing of the ticker of 60 s. `usage` assumes that
the worker's task is scheduled and that a request ends (the client has a timeout of
30 s); that shutdown times out is possible and not assumed. `backend` assumes of Boot
that the kubelet starts a process that is gone, that a boot gets on, that the committer
of the lease's holder makes what is committed repeatable, that the lease watch finds
what is lost and that the signals are selected on, while a drain may hang for ever; of a call, the timer of the response header, a caller that reads what is
there, and a pod that gets on with its present request or a connection that breaks
once it does not, while no request needs to arrive; of the callers that wait, the
clock and nothing of the DNS or the refresher; of a pod, that accepted calls end, that
the kubelet sends its signal to an unhealthy one, and the pod's own tasks. `bigbrain`
assumes the clock, the cancelled loops, the timeout of a call and the shutdown's own
steps; requests, streams and the metrics server may hang.

A property of a run often has parts, each with a comment of its own in the module:

| Property | Parts |
|---|---|
| `RoleInv` | `RoleTypeOK`, `LeasesDistinct`, `TaskShape` |
| `RolesSettle` | `DeposedLeaderExits`, `PromotionsEnd` |
| `ReplicaInv` | types and shapes (`StageShape`, `LogShape`, `TailShape`), `EpochsInOrder`, `LeaderMissesNothing`, `PromotedTailerWithinLog` |
| `DecisionsSound` | `LoopsDecide`, `OneActuation` |
| `ElectionInv` | `ElectionTypeOK`, `RoleInv`, `ObservedLeases`, `DemotionsSpareHolder` |
| `RequestsEnd` | `StaleHeals`, `UsherStops` |
| `UsherInv` | `UsherTypeOK`, `RightDeployment`, `ProbesAnswered` |
| `ForwarderInv` | `ForwarderTypeOK`, `OutstandingCounts`, `ShutdownDrains`, `BoundedCopies` |
| `PipelineEnds` | `Emptied`, `WorkerStops` |
| `QueryInv` | `InsightsQueryTypeOK`, `CountedOnce`, `ReadVerdicts`, `RecentAreNewest`, `NoTokenNoData` |
| `CallInv` | `CallFits` (`CallTypeOK`, `AttemptFits`, `ClientFits`, `RequestsFit`), `OneAttemptHeard`, `ResultAfterLines` |
| `EndpointsInv` | `EndpointsTypeOK`, `SentHasEndpoint`, `TaskKnowsBalancer` |
| `PodInv` | `PodTypeOK`, `PodStages`, `ReportFollowsLoad`, `ReadyListens` |
| `BootSettles` | `AllServe`, `PreemptedExits` |
| `BigbrainInv` | `BigbrainTypeOK`, `WithinGrace`, `ActuationsDrained`, `FailureReported` |
| `MetricsInv` | `MetricsTypeOK`, `SamplesAreFresh`, `AnswersOfOneCycle` |

Every property has a mutant, a definition of the model changed as a plausible
bug would change the code, under which TLC finds the property violated.

## 4. What is proved

For every value of the constants under the named assumptions of the modules: sets
and bounds have the kind their declaration says, a clock reads a natural number, the
entries of a configuration have the shape that its parsing gives them, a pod counts
its threads in natural numbers. Where a property is not inductive, its module names
what makes it so ("What makes it inductive"); TLC has checked each of these
strengthenings on the instance of the run before it was proved.

**BackendRoleProofs**

* `RoleInvariance`, `LeaseUniqueness`: the lease handed out by `acquire` is held
  by one process, whatever the clocks read and whichever answers of the UPDATE
  are lost. `LeasesDistinct` is not inductive as a bare statement about the
  leases: a process that is down or a follower must hold none, or a restart or a
  second promotion would start from a lease of the past. `TaskShape` says which
  lease goes with which role and task, and `RoleInv` is its conjunction with the
  types and `LeasesDistinct`. `AcquiredAbove` (the new row is above the old one
  for every clock) is the fact on which the step of the UPDATE rests.
* `HighestReport` follows from `RoleInv`: among the leases that reports carry,
  none but the highest can be the row's. It is what `betterLeader` relies on.
* `StolenForGood`, an action property, uses `LeaseStep`: a step moves the row up
  or not at all, and a process keeps its lease, drops it or acquires the row's.

**ReplicaProofs**

* `ReplicaInvariance`: the log stays in epochs (`EpochsInOrder`), a new leader has
  all that earlier ones committed (`LeaderMissesNothing`) and the `ensure` in
  `become_leader` cannot fail (`PromotedTailerWithinLog`). The argument is about
  settled timestamps: `Settled(t)` says that nothing may land at or below t any
  more. The repeatable timestamp is settled because who writes it holds the lease and
  has nothing pending below it; what a tailer has read is settled because it reads up
  to a repeatable timestamp, or, in the final fast-forward, up to the end of a log
  that its own lease has closed to everybody else. A writer's pending timestamps are
  above all entries of older leases, and that keeps the epochs apart although a deposed leader's
  writes are still in flight: they fail at the lease check. `StageShape` and
  `TailShape` say which stage of a tailer goes with which role and how far it has read.
  `LogInEpochs` and `NewLeaderComplete` state the two properties by themselves.
* `FollowersRepeatable`: what a follower has read stays the whole log up to its
  `tailed_ts`.
* `FencedRefined`: Replica implements FencedLog. A commit is a write of the newest
  epoch above all that the readers hold, a tailer's advance is one read, a promotion
  takes a reader away, and the rest stutters.

**ElectionProofs**

* `ElectionInvariance`: a lease in a poll was granted to that pod and to no other
  (`ObservedLeases`), so that what is decided from it holds however long ago it was
  polled: every demotion decided, queued, in flight or given up names a lease the row
  has passed (`DemotionsSpareHolder`). That rests on `RoleInv` under the controller
  and on the row only moving up.
* `ControlledRolesAreRoles`: every behaviour of Election is one of BackendRole, so
  that all that is proved of the role machine holds under the controller.
* `PromotesOneAtATime` and `PromotesAfterFullRounds`, from `AuditInvariance`.
  `PromotionsKnown` says why an old poll fools nobody: a replica that promotes at the
  controller's request has its call still out, or an entry in `transitioningSeen`
  made after this round began to poll, or a poll of this round that shows it.
  `CountsHonest` compares the streak and the candidate's clock with the rounds that
  history variables count.

**RoutingProofs**

* `RoutingInvariance`: the publications are numbered upwards, also across the
  restarts of bigbrain; what is in the channel, on the wire or in a poll's
  answer was published; so was what the tracker applied; and a poll's answer is
  of no older bigbrain than the one applied. The last part is what makes it
  inductive: without it a poll could take the tracker back to a dead bigbrain,
  and only the resolve loop's one poll at a time excludes that.
* `FeedRefined`: registry and tracker implement LeaderFeed. The refinement maps
  the history of publications to the log and the tracker's epoch and number to
  their place in it. `HistoryGrows` shows that a publication moves no place,
  `ApplyMovesForward` that `applyLeader` takes an event whole, and only one that
  is newer than what it had; `UpdatePublishes` and `ApplyObserves` are the two
  steps of the feed, and every other step of Routing leaves it as it is.

* `QuietStreamTells`, from `StreamInv`: the newest publication is in the one-slot
  channel, or it is the last frame on the wire, or it has been read, and then the
  tracker is current or has reason to ask (`WillBeCurrent`). A disjunct for each place
  where a wake-up may be kept is what makes it inductive.
* `UsherInvariance`: a request is at the backends of its own deployment and a probe
  at usher itself. The table of hosts is a sequence of slots, one for each host of a
  deployment in its order; that no two slots have the same host is what validation
  grants, and then the route of a request is unique. `RequestsByTable` says that a
  request under way carries a route of the table and a URL of that route's deployment.
* `ReadyIsSure`, from `LeadersPublished`: what a tracker has applied was published,
  so a deployment that is resolved without a leader was published without one.
* `FailuresLeadToPolls`, an action property, from `PaceCovered`: while polls are held
  back there is a token in the channel, or the poll that set the pace began within the
  interval.

**UsageProofs**

* `ForwarderInvariance`: `outstanding` is what the pipeline holds and what is between
  two counts, a finished drain leaves nothing behind, and a batch is sent no more
  often than it has attempts. `WorkerShape` says what the worker holds where;
  `AcceptedOnce` that the channel takes a batch once; `SentAtMost` counts a batch's
  copies by its place and attempt.
* `LossesAreCounted`: every batch that is nowhere is in `dropped`. The cases differ
  in when it is counted: `Gone` is what neither the sink nor the pipeline has, a
  cancelled worker leaves its share to be read from `outstanding`, and once that is
  read all that is still on its way counts as lost already (`AtRisk`).

**ComputationProofs**

What the pure computations compute, for inputs of every size. Induction over data is
done with sets: `SetInduction` (a set of numbers that has 0 and with n also n + 1 is
Nat) follows from the library's theorem that every set of naturals has a least
element, and `Recursion` gives the states of a loop of any length, so that what a
recursive function returns can be reasoned about turn by turn.

* `DecisionsAreSound`: whatever the pods answer, however many they are and in
  whatever order they are listed, the scans of `decide.go` find the choices that
  Decide specifies, and a round that promotes promotes one pod and demotes nobody.
  The three comparisons are strict total orders of the observed pods (`LeaderOrder`,
  `PreferenceOrder`, `AttemptOrder`); `ScanFinds` shows of any such order that the
  loop's best so far beats all that were eligible so far. That pods have distinct
  names is what makes them total; Kubernetes grants it in a namespace.
* `ChoicesAreUnique`: in every round there is exactly one pod that `PickLeader`,
  `BestCandidate` and `BestFailbackCandidate` accept, if any is eligible. Election
  acts on such a pod; this shows that it always can, and has no choice.
* `InsightsInvariance`: the position in a ring is 0 until the slice has grown to
  its full size and inside it from then on, so no push and no read is out of
  range.
* `RecentRefined`: Insights implements RecentRows for every ring size. `Wrap` and
  `ReadOutOf` turn the remainder into a case distinction, `ShiftOne` says that a
  push moves each slot one place towards the oldest and overwrites the oldest,
  `PushAdds` puts the pieces together for one ring, and `StepAdds` shows that no
  other ring changes.
* `QueriesAreSound`: after any posts, what a query answers is what the rows say. The
  invariant `QueryIInv` has the types of rows and limits, that a deployment with rows
  has a token and limits in range, and that an answer is the aggregation of the state
  it was made in. The rest is about that aggregation: `DaysAsked` (the rows between
  two midnights are those of the days asked for, the last included), `OccInsights`
  (one insight for each key of a conflict, over all its rows), `DimensionOf` and
  `ReadInsights` (a read insight is there exactly when the peak of the function's
  calls says so, and under the kind it says), and `RecentRanked` (the k-th recent
  event is the k-th newest, however ties are sorted; `Sortable` shows that an order
  of the newest first exists). `ThresholdInRange` is why a threshold is at most its
  limit and so no kind is skipped.

**BackendProofs**

* `CallInvariance`: what is on the wire is at most a header, then lines, then at most
  one ending (`WireIs`), and the lines heard, on the wire and not yet sent are those
  the execution wrote (`AttemptIs`). `RequestsFit` says of the earlier attempts that
  nothing of them was heard.
* `ActionStartsOnce`: of an action's requests at most the present one can still run,
  because a failure is retried only when its request was refused or never arrived,
  and a job is set back only when it was.
* `EndpointsInvariance`, for a channel and a set of pods of any size: what the
  balancer will have after the changes in the channel is what the task believes it
  has (`TaskKnowsBalancer`), and since inserts go before removals it never becomes
  empty again after any prefix of them (`SentHasEndpoint`).
* `PodInvariance`, with `PodStages`, which orders load, server and shutdown.
* `DatabaseInitialisedOnce`: of two replicas that initialise the database, the one that
  was deposed can write nothing more, and the other has loaded what the first wrote.
  `HolderKnows` says so: no two processes have the same lease, and a process past its
  load that still has the row's knows exactly how far the database is. A write under
  the lease by a process whose snapshot is short of the tag therefore finds no tag.
* `BootsSpareLeader`, under the hypothesis `AllDynamic`: who is configured as leader has
  a control plane token and probes before it takes the lease. A static leader takes it
  at its start whatever the database holds, which is what it is configured to do.
  The fallback may run although the tag is committed. But whoever serves without
  being configured as leader has read the tag (`LeadersBoot`), so before the tag is
  repeatable nobody else leads, and while the only replica configured as leader is on
  its way to the lease nobody else can make it repeatable (`ConnectsFirst`).

**BigbrainProofs**

* `ShutdownInTime`: each phase of the shutdown counts its own ticks, and the time
  since the context was done is at most the sum (`ShutdownClock`). What has failed is
  remembered until the exit code is made of it (`FailuresKept`).
* `BigbrainInvariance` adds `ActuationsDrained`, under the hypothesis `DrainSuffices`:
  all calls of an actuation fit into one timeout and the slack. `DrainCovers` measures
  the drain by the calls that an actuation has left. With the defaults of the code, 30 s
  and 5 s, the hypothesis allows one call. That is a promotion, not a demotion of
  two pods, for which the run `bigbrain_demotions` has the counterexample.
* `MetricsInvariance`: `CycleClock` bounds the age of a sample by what its cycle has
  behind it, namespace by namespace (`Under`), and the age of a served one by the
  interval or the length of a cycle and the cycle under way. `SamplesOfLists` gives all samples of
  a namespace the time of its list. A pod's two gauges are natural numbers, and
  nothing is assumed of one against the other: the scraper does not clamp either.

## 5. What is only model-checked, and what is not modelled

Only checked:

* liveness, which the prover does not do: `RolesSettle`, `Recovers`, `PreferredLeads`,
  `Converges`, `RequestsEnd`, `PipelineEnds`, `CallEnds`, `WaitEnds`, `PodStops`,
  `BootSettles`, `Exits`;
* what needs ENABLED, which has no proof rules here: that the processes can go on
  wherever the runs check for deadlock.

Every safety and action property of the passing runs, and every refinement, is the
statement of a theorem. What `total` adds up to is taken from its definition: the
proof knows that it is a number, and compares it with the limits on both sides.

Not modelled: the HTTP role gate of a backend beyond what Usher sees of it, the
control plane tokens, the read-only flag of the lease; search bootstrap in the
tailer; the leader's workers (upstream code) beyond the moment they start; the proxy
for insights queries and the stamping of events; the conversion of arguments and
results between backend and funrun, the isolate pool (upstream code), the updates of
the pod deletion cost and the shared secret; headers, buffers and log throttles in
usher. The protocol messages, dependencies, dashboard and charts keep no state of
this system.

## 6. Plan

Of what the runs check, all that the prover can do is proved. What could still be
added:

1. that `total` is a sum, as a statement about adding one call to a row, and that a
   query's insights are those of the rows that RecentRows keeps, which would join the
   two models of the store;
2. the parts of the system that section 5 lists as not modelled, the search bootstrap
   of the tailer first.
