---------------------------- MODULE UsageForwarder ----------------------------
(***************************************************************************)
(* HttpUsageForwarder: callers of record_async hand batches of Insights    *)
(* events to a bounded channel, one worker coalesces them into posts to    *)
(* bigbrain and retries, shutdown drains for five seconds and then aborts. *)
(* What became of each batch, and what the counters say of it.             *)
(*                                                                         *)
(* Abstracted: a batch is its name and its size; a caller is the batch it  *)
(* records, whose events are Insights (others are filtered out); the sink  *)
(* is bigbrain with whatever lies between.  Each try_recv and each access  *)
(* to a counter is a step; the send to the channel, tokio's, is one.  An   *)
(* aborted task runs on to an await point at which it waits.               *)
(***************************************************************************)
EXTENDS Naturals, Sequences, FiniteSets, SequencesExt

CONSTANTS
  Batch,       \* the batches that may be recorded
  Bytes,       \* the size of each batch
  NoBatch,
  Capacity,    \* USAGE_FORWARDER_CHANNEL_CAPACITY
  MaxBatches,  \* USAGE_FORWARDER_MAX_BATCHES_PER_POST
  MaxBytes,    \* USAGE_FORWARDER_MAX_POST_BYTES
  MaxAttempts, \* 3 in post
  MaxFaults    \* bound on failing attempts

ASSUME ForwarderAssumption ==
  /\ IsFiniteSet(Batch) /\ NoBatch \notin Batch /\ Bytes \in [Batch -> Nat]
  /\ Capacity \in Nat \ {0} /\ MaxBatches \in Nat \ {0} /\ MaxBytes \in Nat
  /\ MaxAttempts \in Nat \ {0} /\ MaxFaults \in Nat

VARIABLES
  stage,       \* record_async of each batch
  queue,       \* the channel
  closed,      \* the channel takes no more
  worker,      \* where the worker is
  hand,        \* the batches coalesced and being posted
  carry,       \* the batch that did not fit
  draining,    \* the worker is in drain
  attempt,     \* of the post
  request,     \* the attempt at the sink
  stray,       \* attempts given up that may still arrive
  arrivals,    \* how often the sink has ingested each batch
  shutdown,    \* the call of shutdown
  outstanding, \* batches counted in and not yet counted out
  dropped,     \* USAGE_FORWARDER_DROPPED_BATCHES_TOTAL
  faults,      \* attempts that may still fail
  accepted,    \* what the channel took, in order; read by no action
  done,        \* what the worker has finished, in order; read by no action
  late         \* what was recorded after outstanding was read; read by no action

recorderVars == <<stage, accepted, late>>
channelVars == <<queue, closed>>
workerVars == <<worker, hand, carry, draining, attempt, done>>
sinkVars == <<request, stray, arrivals>>
counters == <<outstanding, dropped>>
forwarderVars == <<recorderVars, channelVars, workerVars, sinkVars, shutdown, counters, faults>>

Stages == {"new", "counted", "refused", "uncounted", "returned"}
Requests == [batches : Seq(Batch), attempt : 1..MaxAttempts]

ForwarderTypeOK ==
  /\ stage \in [Batch -> Stages]
  /\ queue \in Seq(Batch) /\ Len(queue) <= Capacity /\ closed \in BOOLEAN
  /\ worker \in {"select", "coalesce", "post", "failed", "settle", "ended", "cancelled"}
  /\ hand \in Seq(Batch) /\ Len(hand) <= MaxBatches
  /\ carry \in Batch \union {NoBatch} /\ draining \in BOOLEAN
  /\ attempt \in 1..MaxAttempts
  /\ request \in {"none", "sent", "ingested", "rejected"}
  /\ stray \subseteq Requests /\ arrivals \in [Batch -> Nat]
  /\ shutdown \in {"none", "waiting", "returned", "aborting", "abandoned"}
  /\ outstanding \in Nat /\ dropped \in Nat /\ faults \in 0..MaxFaults
  /\ accepted \in Seq(Batch) /\ done \in Seq(Batch) /\ late \subseteq Batch

ForwarderInit ==
  /\ stage = [b \in Batch |-> "new"]
  /\ queue = <<>> /\ closed = FALSE
  /\ worker = "select" /\ hand = <<>> /\ carry = NoBatch /\ draining = FALSE /\ attempt = 1
  /\ request = "none" /\ stray = {} /\ arrivals = [b \in Batch |-> 0]
  /\ shutdown = "none" /\ outstanding = 0 /\ dropped = 0 /\ faults = MaxFaults
  /\ accepted = <<>> /\ done = <<>> /\ late = {}

Fault == faults > 0 /\ faults' = faults - 1

aborted == shutdown \in {"aborting", "abandoned"}

-----------------------------------------------------------------------------
(* record_async *)

Advance(b, from, to) == stage[b] = from /\ stage' = [stage EXCEPT ![b] = to]

CountIn(b) ==
  /\ Advance(b, "new", "counted")
  /\ outstanding' = outstanding + 1
  /\ UNCHANGED <<accepted, late, channelVars, workerVars, sinkVars, shutdown, dropped, faults>>

hasRoom == ~closed /\ Len(queue) < Capacity

Sent(b) ==
  /\ hasRoom
  /\ Advance(b, "counted", "returned")
  /\ queue' = Append(queue, b) /\ accepted' = Append(accepted, b)
  /\ late' = IF shutdown = "abandoned" THEN late \union {b} ELSE late
  /\ UNCHANGED <<closed, workerVars, sinkVars, shutdown, counters, faults>>

Refused(b) ==
  /\ ~hasRoom
  /\ Advance(b, "counted", "refused")
  /\ UNCHANGED <<accepted, late, channelVars, workerVars, sinkVars, shutdown, counters, faults>>

CountOut(b) ==
  /\ Advance(b, "refused", "uncounted")
  /\ outstanding' = outstanding - 1
  /\ UNCHANGED <<accepted, late, channelVars, workerVars, sinkVars, shutdown, dropped, faults>>

CountDropped(b) ==
  /\ Advance(b, "uncounted", "returned")
  /\ dropped' = dropped + 1
  /\ UNCHANGED <<accepted, late, channelVars, workerVars, sinkVars, shutdown, outstanding, faults>>

-----------------------------------------------------------------------------
(* The worker. *)

bytesOf(s) == FoldLeft(LAMBDA sum, b : sum + Bytes[b], 0, s)

\* Mutant: drain starts without a carried batch and has no place for one.
TakeCarry_NotInDrain ==
  /\ worker = "select" /\ carry # NoBatch /\ ~draining
  /\ hand' = <<carry>> /\ carry' = NoBatch /\ worker' = "coalesce"
  /\ UNCHANGED <<recorderVars, channelVars, draining, attempt, done, sinkVars, shutdown, counters, faults>>

\* The batch that did not fit is taken before the channel is looked at.
TakeCarry ==
  /\ worker = "select" /\ carry # NoBatch
  /\ hand' = <<carry>> /\ carry' = NoBatch /\ worker' = "coalesce"
  /\ UNCHANGED <<recorderVars, channelVars, draining, attempt, done, sinkVars, shutdown, counters, faults>>

Receive ==
  /\ worker = "select" /\ carry = NoBatch /\ queue # <<>>
  /\ hand' = <<Head(queue)>> /\ queue' = Tail(queue) /\ worker' = "coalesce"
  /\ UNCHANGED <<recorderVars, closed, carry, draining, attempt, done, sinkVars, shutdown, counters, faults>>

\* The shutdown branch of the select, which is taken or not when both are ready.
StartDrain ==
  /\ worker = "select" /\ carry = NoBatch /\ ~draining /\ shutdown # "none"
  /\ closed' = TRUE /\ draining' = TRUE
  /\ UNCHANGED <<recorderVars, queue, worker, hand, carry, attempt, done, sinkVars, shutdown, counters, faults>>

DrainEnds ==
  /\ worker = "select" /\ carry = NoBatch /\ draining /\ queue = <<>>
  /\ worker' = "ended"
  /\ UNCHANGED <<recorderVars, channelVars, hand, carry, draining, attempt, done, sinkVars, shutdown, counters, faults>>

\* One try_recv of coalesce_batches that finds a batch.
CoalesceOne ==
  /\ worker = "coalesce" /\ Len(hand) < MaxBatches /\ queue # <<>>
  /\ queue' = Tail(queue)
  /\ IF bytesOf(hand) + Bytes[Head(queue)] > MaxBytes
     THEN /\ carry' = Head(queue) /\ UNCHANGED hand
          /\ worker' = "post" /\ attempt' = 1 /\ request' = "sent"
     ELSE /\ hand' = Append(hand, Head(queue))
          /\ UNCHANGED <<carry, worker, attempt, request>>
  /\ UNCHANGED <<recorderVars, closed, draining, done, stray, arrivals, shutdown, counters, faults>>

CoalesceEnds ==
  /\ worker = "coalesce" /\ (Len(hand) = MaxBatches \/ queue = <<>>)
  /\ worker' = "post" /\ attempt' = 1 /\ request' = "sent"
  /\ UNCHANGED <<recorderVars, channelVars, hand, carry, draining, done, stray, arrivals, shutdown, counters, faults>>

\* The answer of the sink; an error of the client's making ends the post.
Answered ==
  /\ worker = "post" /\ request \in {"ingested", "rejected"} /\ ~aborted
  /\ worker' = IF request = "ingested" THEN "settle" ELSE "failed"
  /\ request' = "none"
  /\ UNCHANGED <<recorderVars, channelVars, hand, carry, draining, attempt, done, stray, arrivals, shutdown, counters, faults>>

\* The attempt under way may arrive after its sender has given it up.
GiveUpRequest ==
  stray' \in {stray, IF request = "sent"
                     THEN stray \union {[batches |-> hand, attempt |-> attempt]} ELSE stray}

\* Any other answer, or none.
AttemptFails ==
  /\ worker = "post" /\ ~aborted /\ Fault
  /\ GiveUpRequest
  /\ IF attempt < MaxAttempts
     THEN attempt' = attempt + 1 /\ request' = "sent" /\ UNCHANGED worker
     ELSE worker' = "failed" /\ request' = "none" /\ UNCHANGED attempt
  /\ UNCHANGED <<recorderVars, channelVars, hand, carry, draining, done, arrivals, shutdown, counters>>

\* Mutant: a post counts as one batch.
CountFailed_One ==
  /\ worker = "failed"
  /\ dropped' = dropped + 1 /\ worker' = "settle"
  /\ UNCHANGED <<recorderVars, channelVars, hand, carry, draining, attempt, done, sinkVars, shutdown, outstanding, faults>>

CountFailed ==
  /\ worker = "failed"
  /\ dropped' = dropped + Len(hand) /\ worker' = "settle"
  /\ UNCHANGED <<recorderVars, channelVars, hand, carry, draining, attempt, done, sinkVars, shutdown, outstanding, faults>>

\* Mutant: the carried batch is counted out with the post it did not fit.
Settle_Carry ==
  /\ worker = "settle"
  /\ outstanding' = outstanding - Len(hand) - (IF carry = NoBatch THEN 0 ELSE 1)
  /\ hand' = <<>> /\ done' = done \o hand /\ worker' = "select"
  /\ UNCHANGED <<recorderVars, channelVars, carry, draining, attempt, sinkVars, shutdown, dropped, faults>>

\* The end of post_coalesced.
Settle ==
  /\ worker = "settle"
  /\ outstanding' = outstanding - Len(hand)
  /\ hand' = <<>> /\ done' = done \o hand /\ worker' = "select"
  /\ UNCHANGED <<recorderVars, channelVars, carry, draining, attempt, sinkVars, shutdown, dropped, faults>>

\* The runtime drops the aborted task, and with it the channel.
Cancelled ==
  /\ aborted /\ (worker = "post" \/ (worker = "select" /\ carry = NoBatch /\ ~draining))
  /\ worker' = "cancelled" /\ closed' = TRUE
  /\ queue' = <<>> /\ hand' = <<>> /\ carry' = NoBatch
  /\ GiveUpRequest /\ request' = "none"
  /\ UNCHANGED <<recorderVars, draining, attempt, done, arrivals, shutdown, counters, faults>>

-----------------------------------------------------------------------------
(* The sink. *)

Ingested(s) == arrivals' = [b \in Batch |-> arrivals[b] + Cardinality({i \in DOMAIN s : s[i] = b})]

SinkIngests ==
  /\ request = "sent"
  /\ request' = "ingested" /\ Ingested(hand)
  /\ UNCHANGED <<recorderVars, channelVars, workerVars, stray, shutdown, counters, faults>>

\* A wrong token, an unknown deployment or limits out of range.
SinkRejects ==
  /\ request = "sent" /\ Fault
  /\ request' = "rejected"
  /\ UNCHANGED <<recorderVars, channelVars, workerVars, stray, arrivals, shutdown, counters>>

StrayArrives ==
  \E r \in stray :
    /\ stray' = stray \ {r} /\ Ingested(r.batches)
    /\ UNCHANGED <<recorderVars, channelVars, workerVars, request, shutdown, counters, faults>>

-----------------------------------------------------------------------------
(* shutdown *)

Shutdown ==
  /\ shutdown = "none"
  /\ shutdown' = "waiting"
  /\ UNCHANGED <<recorderVars, channelVars, workerVars, sinkVars, counters, faults>>

ShutdownReturns ==
  /\ shutdown = "waiting" /\ worker = "ended"
  /\ shutdown' = "returned"
  /\ UNCHANGED <<recorderVars, channelVars, workerVars, sinkVars, counters, faults>>

\* After five seconds: handle.abort(), which does not wait for the task.
ShutdownTimesOut ==
  /\ shutdown = "waiting"
  /\ shutdown' = "aborting"
  /\ UNCHANGED <<recorderVars, channelVars, workerVars, sinkVars, counters, faults>>

CountAbandoned ==
  /\ shutdown = "aborting"
  /\ shutdown' = "abandoned"
  /\ dropped' = dropped + outstanding
  /\ UNCHANGED <<recorderVars, channelVars, workerVars, sinkVars, outstanding, faults>>

-----------------------------------------------------------------------------

RecordStep ==
  \E b \in Batch : CountIn(b) \/ Sent(b) \/ Refused(b) \/ CountOut(b) \/ CountDropped(b)
SelectStep == TakeCarry \/ Receive \/ StartDrain \/ DrainEnds
PostStep == CoalesceOne \/ CoalesceEnds \/ Answered \/ AttemptFails \/ CountFailed \/ Settle
SinkStep == SinkIngests \/ SinkRejects \/ StrayArrives
ShutdownStep == Shutdown \/ ShutdownReturns \/ ShutdownTimesOut \/ CountAbandoned

ForwarderNext == RecordStep \/ SelectStep \/ PostStep \/ Cancelled \/ SinkStep \/ ShutdownStep

ForwarderSpec == ForwarderInit /\ [][ForwarderNext]_forwarderVars

\* The task of the worker is scheduled, or dropped once aborted, and a request ends.
ForwarderFairness ==
  /\ WF_forwarderVars(SelectStep) /\ WF_forwarderVars(CoalesceOne \/ CoalesceEnds)
  /\ WF_forwarderVars(SinkIngests \/ SinkRejects \/ AttemptFails) /\ WF_forwarderVars(Answered \/ AttemptFails)
  /\ WF_forwarderVars(CountFailed) /\ WF_forwarderVars(Settle) /\ WF_forwarderVars(Cancelled)

FairForwarderSpec == ForwarderSpec /\ ForwarderFairness

-----------------------------------------------------------------------------
(* Properties. *)

\* Accepted and not finished, in the order in which it is to be posted.
Waiting == (IF carry = NoBatch THEN <<>> ELSE <<carry>>) \o queue
Pipeline == hand \o Waiting

\* Callers between their two counts.
Counting == {b \in Batch : stage[b] \in {"counted", "refused"}}

\* outstanding is what is on its way, of the callers between their two counts and
\* of the worker: it never wraps below zero, and what shutdown reads from it is no
\* less than what is about to be abandoned (record_async, post_coalesced).
OutstandingCounts ==
  IF worker = "cancelled"
  THEN outstanding >= Cardinality(Counting)
  ELSE outstanding = Cardinality(Counting) + Len(Pipeline)

\* Batches are posted in the order in which they were accepted, the carried one
\* between its post and the channel, and a worker that ends leaves none behind
\* (coalesce_batches, drain).
ShutdownDrains ==
  IF worker = "cancelled" THEN IsPrefix(done, accepted)
  ELSE accepted = done \o Pipeline /\ (worker = "ended" => done = accepted)

\* Recorded before outstanding was read, and not ingested.
Missing == {b \in Batch : stage[b] = "returned" /\ b \notin late /\ arrivals[b] = 0}

\* A batch recorded before outstanding was read is on its way, was ingested, or is
\* counted as dropped, however the sink fails and whenever shutdown times out
\* (post, shutdown).
NothingLostUnnoticed ==
  Cardinality(Missing \ ToSet(Pipeline)) <= dropped + (IF shutdown = "aborting" THEN outstanding ELSE 0)

\* At the sink, and still to arrive there.
Copies(b) == arrivals[b] + Cardinality({r \in stray : b \in ToSet(r.batches)})

\* The sink may see a batch again when an answer is lost, also after the worker has
\* gone on, but no more often than there are attempts (post).
BoundedCopies == \A b \in Batch : Copies(b) <= MaxAttempts

\* The count, the order and the copies of the batches are right at every step of the
\* callers, the worker, the sink and shutdown (record_async, post_coalesced, post).
ForwarderInv == ForwarderTypeOK /\ OutstandingCounts /\ ShutdownDrains /\ BoundedCopies

-----------------------------------------------------------------------------
(* What makes them inductive. *)

\* What the worker holds at each of its places, and what has closed the channel.
WorkerShape ==
  /\ request # "none" <=> worker = "post"
  /\ worker = "select" => hand = <<>>
  /\ worker = "coalesce" => carry = NoBatch
  /\ worker \in {"ended", "cancelled"} => hand = <<>> /\ carry = NoBatch /\ queue = <<>>
  /\ worker = "ended" => draining
  /\ worker = "cancelled" => aborted
  /\ closed <=> draining \/ worker = "cancelled"

\* The channel takes a batch once, from a caller that then returns.
AcceptedOnce ==
  /\ IsInjective(accepted)
  /\ \A b \in ToSet(accepted) : stage[b] = "returned"

\* How often a batch can have been sent: not before it is posted, then by attempt.
SentAtMost(b) ==
  IF b \notin ToSet(accepted) \/ b \in ToSet(Waiting) \/ (worker = "coalesce" /\ b \in ToSet(hand)) THEN 0
  ELSE IF worker # "post" \/ b \notin ToSet(hand) THEN MaxAttempts
  ELSE IF request = "ingested" THEN attempt ELSE attempt - 1

CopiesByAttempt ==
  /\ IsFiniteSet(stray) /\ \A r \in stray : IsInjective(r.batches)
  /\ \A b \in Batch : Copies(b) <= SentAtMost(b)

\* A batch that only the worker can still have sent is not gone before its post is
\* counted.
Gone == Missing \ (ToSet(Waiting) \union IF worker = "settle" THEN {} ELSE ToSet(hand))

\* Once outstanding is read, what is on its way counts as lost already.
AtRisk == Gone \union IF shutdown = "abandoned" THEN ToSet(Pipeline) \ late ELSE {}

\* What is gone is in dropped, or, when the task is aborted, in what shutdown is about
\* to read from outstanding.
LossesCounted ==
  IF worker = "cancelled" /\ shutdown = "aborting"
  THEN Cardinality(Gone) + Cardinality(Counting) <= dropped + outstanding
  ELSE Cardinality(AtRisk) <= dropped

\* An answer that the worker may read is about what the sink has.
IngestedArrived == worker = "post" /\ request = "ingested" => \A b \in ToSet(hand) : arrivals[b] > 0

ForwarderFits ==
  /\ ForwarderTypeOK /\ WorkerShape /\ OutstandingCounts
  /\ ShutdownDrains /\ AcceptedOnce /\ CopiesByAttempt
  /\ IngestedArrived /\ LossesCounted

\* The help text of the counter: it counts what the channel did not take.
DroppedAtTheChannel ==
  dropped <= Cardinality({b \in Batch : stage[b] = "returned" /\ b \notin ToSet(accepted)})

\* Whatever the channel takes leaves the pipeline (the worker's loop).
Emptied == \A b \in Batch : b \in ToSet(Pipeline) ~> b \notin ToSet(Pipeline)

\* Once shutdown is called the worker stops (drain, handle.abort).
WorkerStops == shutdown # "none" ~> worker \in {"ended", "cancelled"}

\* The worker gets through what it takes, and stops when told to.
PipelineEnds == Emptied /\ WorkerStops
==============================================================================
