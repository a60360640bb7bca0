------------------------------- MODULE Routing -------------------------------
(***************************************************************************)
(* How the leader of one deployment travels from bigbrain's registry to    *)
(* one usher: the registry numbers the changes of leader within the epoch  *)
(* of its process, a subscriber's channel of one slot feeds the SSE        *)
(* leader-stream, and usher's tracker reads that stream and polls besides. *)
(* The stream may break, lose frames or deliver frames of a dead bigbrain, *)
(* a poll may fail or bring an answer that the stream has overtaken.       *)
(*                                                                         *)
(* Abstracted: the random epoch of a registry is the number of the bigbrain *)
(* process (one runs at a time: one replica, strategy Recreate); trackers  *)
(* do not interact, and a refused subscription (128 of them, or the        *)
(* network) is a fault; the wire holds what was written and not yet read.  *)
(***************************************************************************)
EXTENDS Naturals, Sequences

CONSTANTS
  Backend,    \* the URLs a leader may have
  NoLeader,   \* the empty leader URL
  MaxSeq,     \* bound on the changes of leader in the life of one bigbrain
  MaxEpoch,   \* bound on the bigbrain processes
  MaxWire,    \* bound on the frames in flight
  MaxFaults   \* bound on failing connections and requests

ASSUME RoutingAssumption ==
  /\ NoLeader \notin Backend
  /\ MaxSeq \in Nat /\ MaxEpoch \in Nat \ {0} /\ MaxWire \in Nat /\ MaxFaults \in Nat

VARIABLES
  epoch,      \* Registry.epoch
  seq,        \* deployment.seq
  leader,     \* deployment.leaderURL
  published,  \* deployment.published
  handler,    \* the leader-stream handler of the server
  chan,       \* the subscriber's channel, empty or one event
  wire,       \* frames on their way to the tracker
  conn,       \* the tracker's stream
  streamDown, \* streamGate
  poll,       \* the poll under way
  pollDown,   \* pollGate
  wake,       \* resolveCh holds a token
  lastEpoch,  \* of the tracker
  lastSeq,    \* lastAppliedSeq
  leaderURL,  \* where the tracker's proxy goes
  faults,     \* faults that may still happen
  history     \* every LeaderEvent published, oldest first; read by no action

registryVars == <<epoch, seq, leader, published, history>>
streamVars == <<handler, chan, wire, conn, streamDown>>
viewVars == <<lastEpoch, lastSeq, leaderURL>>
vars == <<registryVars, streamVars, poll, pollDown, wake, viewVars, faults>>

Url == Backend \union {NoLeader}
Event == [epoch : 1..MaxEpoch, seq : Nat, url : Url]
NoEvent == [epoch |-> 0, seq |-> 0, url |-> NoLeader]

Leader == [epoch |-> epoch, seq |-> seq, url |-> leader]

RoutingTypeOK ==
  /\ epoch \in 1..MaxEpoch /\ seq \in Nat /\ leader \in Url /\ published \in BOOLEAN
  /\ handler \in {"none", "subscribed", "streaming"}
  /\ chan \in Event \union {NoEvent}
  /\ wire \in Seq(Event) /\ Len(wire) <= MaxWire
  /\ conn \in {"closed", "open", "ending"}
  /\ poll \in [stage : {"none", "asked"}, answer : {NoEvent}]
              \union [stage : {"answered"}, answer : Event]
  /\ streamDown \in BOOLEAN /\ pollDown \in BOOLEAN /\ wake \in BOOLEAN
  /\ lastEpoch \in 0..MaxEpoch /\ lastSeq \in Nat /\ leaderURL \in Url
  /\ faults \in 0..MaxFaults
  /\ history \in Seq(Event)

Init ==
  /\ epoch = 1 /\ seq = 0 /\ leader = NoLeader /\ published = FALSE
  /\ handler = "none" /\ chan = NoEvent /\ wire = <<>>
  /\ conn = "closed" /\ streamDown = FALSE
  /\ poll = [stage |-> "asked", answer |-> NoEvent] /\ pollDown = FALSE /\ wake = FALSE
  /\ lastEpoch = 0 /\ lastSeq = 0 /\ leaderURL = NoLeader
  /\ faults = MaxFaults
  /\ history = <<>>

Fault == faults > 0 /\ faults' = faults - 1

-----------------------------------------------------------------------------
(* The registry. *)

\* Mutant: a full channel keeps the event it holds.
offer_KeepsOld(ev) == IF handler = "none" \/ chan # NoEvent THEN chan ELSE ev

\* What is in the channel after ev: it takes the place of an older one.
offer(ev) == IF handler = "none" THEN chan ELSE ev

\* Registry.Update by the election controller; nothing changes when the leader
\* is the one that was published.
Update(u) ==
  /\ leader # u \/ ~published
  /\ seq < MaxSeq
  /\ leader' = u /\ published' = TRUE /\ seq' = seq + 1
  /\ LET ev == [epoch |-> epoch, seq |-> seq + 1, url |-> u]
     IN  chan' = offer(ev) /\ history' = Append(history, ev)
  /\ UNCHANGED <<epoch, handler, wire, conn, streamDown, poll, pollDown, wake, viewVars, faults>>

HandlerGone ==
  /\ handler' = "none" /\ chan' = NoEvent
  /\ conn' = IF conn = "open" THEN "ending" ELSE conn

\* bigbrain ends and is started again: what it wrote may still arrive.
Restart ==
  /\ epoch < MaxEpoch
  /\ epoch' = epoch + 1 /\ seq' = 0 /\ leader' = NoLeader /\ published' = FALSE
  /\ HandlerGone
  /\ UNCHANGED <<history, wire, streamDown, poll, pollDown, wake, viewVars, faults>>

-----------------------------------------------------------------------------
(* The leader-stream handler: subscribe, then send the present leader, then *)
(* every event of the channel.                                              *)

Connect ==
  /\ conn = "closed"
  /\ conn' = "open" /\ handler' = "subscribed" /\ chan' = NoEvent
  /\ streamDown' = FALSE
  /\ UNCHANGED <<registryVars, wire, poll, pollDown, wake, viewVars, faults>>

\* The first failure after a success wakes the resolve loop.
ConnectFails ==
  /\ conn = "closed" /\ Fault
  /\ streamDown' = TRUE /\ wake' = (wake \/ ~streamDown)
  /\ UNCHANGED <<registryVars, handler, chan, wire, conn, poll, pollDown, viewVars>>

Snapshot ==
  /\ handler = "subscribed" /\ Len(wire) < MaxWire
  /\ handler' = "streaming"
  /\ wire' = IF published THEN Append(wire, Leader) ELSE wire
  /\ UNCHANGED <<registryVars, chan, conn, streamDown, poll, pollDown, wake, viewVars, faults>>

Emit ==
  /\ handler = "streaming" /\ chan # NoEvent /\ Len(wire) < MaxWire
  /\ wire' = Append(wire, chan) /\ chan' = NoEvent
  /\ UNCHANGED <<registryVars, handler, conn, streamDown, poll, pollDown, wake, viewVars, faults>>

\* A write fails or times out, or bigbrain closes its streams.
HandlerEnds ==
  /\ handler # "none" /\ Fault
  /\ HandlerGone
  /\ UNCHANGED <<registryVars, wire, streamDown, poll, pollDown, wake, viewVars>>

-----------------------------------------------------------------------------
(* The tracker. *)

\* The event is applied when its number is above the applied one.
ApplyAbove(applied, ev) ==
  IF ev.seq > applied THEN lastSeq' = ev.seq /\ leaderURL' = ev.url
  ELSE lastSeq' = applied /\ UNCHANGED leaderURL

\* Mutant: the stream may announce a new bigbrain.
applyLeader_AnyEpoch(ev, fromPoll) ==
  /\ lastEpoch' = ev.epoch /\ UNCHANGED wake
  /\ ApplyAbove(IF ev.epoch = lastEpoch THEN lastSeq ELSE 0, ev)

\* Mutant: the numbers of the dead bigbrain hold for the new one.
applyLeader_KeepsSeq(ev, fromPoll) ==
  IF ev.epoch = lastEpoch \/ fromPoll
  THEN lastEpoch' = ev.epoch /\ ApplyAbove(lastSeq, ev) /\ UNCHANGED wake
  ELSE wake' = TRUE /\ UNCHANGED viewVars

\* Only a poll may announce a new bigbrain; the stream then asks for one.
applyLeader(ev, fromPoll) ==
  IF ev.epoch = lastEpoch \/ fromPoll
  THEN /\ lastEpoch' = ev.epoch /\ UNCHANGED wake
       /\ ApplyAbove(IF ev.epoch = lastEpoch THEN lastSeq ELSE 0, ev)
  ELSE wake' = TRUE /\ UNCHANGED viewVars

\* handleStreamLine
ReadFrame ==
  /\ conn # "closed" /\ wire # <<>>
  /\ wire' = Tail(wire)
  /\ applyLeader(Head(wire), FALSE)
  /\ UNCHANGED <<registryVars, handler, chan, conn, streamDown, poll, pollDown, faults>>

StreamOver ==
  /\ handler' = "none" /\ chan' = NoEvent /\ wire' = <<>> /\ conn' = "closed"
  /\ streamDown' = TRUE /\ wake' = TRUE
  /\ UNCHANGED <<registryVars, poll, pollDown, viewVars>>

\* The end of the stream was read.
StreamEnds == conn = "ending" /\ wire = <<>> /\ StreamOver /\ UNCHANGED faults

\* The watchdog fired or the connection broke, and what it carried is lost.
StreamBreaks == conn # "closed" /\ Fault /\ StreamOver

\* The resolve loop, on its ticker or on a token of resolveCh; one at a time.
PollStart ==
  /\ poll.stage = "none"
  /\ poll' = [stage |-> "asked", answer |-> NoEvent]
  /\ wake' \in {FALSE, wake}
  /\ UNCHANGED <<registryVars, streamVars, pollDown, viewVars, faults>>

\* GET .../leader, once leadership has been published.
PollAnswered ==
  /\ poll.stage = "asked" /\ published
  /\ poll' = [stage |-> "answered", answer |-> Leader]
  /\ UNCHANGED <<registryVars, streamVars, pollDown, wake, viewVars, faults>>

PollApplied ==
  /\ poll.stage = "answered"
  /\ poll' = [stage |-> "none", answer |-> NoEvent]
  /\ pollDown' = FALSE
  /\ applyLeader(poll.answer, TRUE)
  /\ UNCHANGED <<registryVars, streamVars, faults>>

\* 425 before leadership is published, or any failure.
PollFails ==
  /\ poll.stage # "none"
  /\ IF poll.stage = "asked" /\ ~published THEN UNCHANGED faults ELSE Fault
  /\ poll' = [stage |-> "none", answer |-> NoEvent]
  /\ pollDown' = TRUE
  /\ UNCHANGED <<registryVars, streamVars, wake, viewVars>>

\* A proxied request failed, or was answered by a follower's gate.
nudgeResolve ==
  /\ leaderURL # NoLeader
  /\ wake' = TRUE
  /\ UNCHANGED <<registryVars, streamVars, poll, pollDown, viewVars, faults>>

-----------------------------------------------------------------------------

BigbrainStep == (\E u \in Url : Update(u)) \/ Restart
HandlerStep == Snapshot \/ Emit \/ HandlerEnds
StreamStep == Connect \/ ConnectFails \/ ReadFrame \/ StreamEnds \/ StreamBreaks
PollStep == PollStart \/ PollAnswered \/ PollApplied \/ PollFails

Next == BigbrainStep \/ HandlerStep \/ StreamStep \/ PollStep \/ nudgeResolve

Spec == Init /\ [][Next]_vars

\* The ticker of the resolve loop comes round and a request ends; nothing is
\* asked of the stream.
PollFairness ==
  WF_vars(PollStart) /\ WF_vars(PollAnswered \/ PollFails) /\ WF_vars(PollApplied)

FairSpec == Spec /\ PollFairness

-----------------------------------------------------------------------------
(* Properties. *)

Current == lastEpoch = epoch /\ lastSeq = seq /\ leaderURL = leader

CatchingUp ==
  \/ wake \/ pollDown \/ poll.stage = "asked"
  \/ poll.stage = "answered" /\ poll.answer = Leader

\* While the stream is up and has nothing more to deliver, the tracker routes to
\* the published leader or is about to ask: no change of leader slips between the
\* subscription and the first frame, out of the one-slot channel, or between the
\* epochs of two bigbrains (Subscribe, Registry.Update, applyLeader).
QuietStreamIsCurrent ==
  handler = "streaming" /\ chan = NoEvent /\ wire = <<>> /\ published =>
    Current \/ CatchingUp

Events == {history[i] : i \in DOMAIN history}

Earlier(a, b) == a.epoch < b.epoch \/ (a.epoch = b.epoch /\ a.seq < b.seq)

Applied == [epoch |-> lastEpoch, seq |-> lastSeq, url |-> leaderURL]

\* Publications are numbered upwards, also across restarts of bigbrain, and the
\* registry holds the newest.
HistoryOrdered ==
  /\ \A i, j \in DOMAIN history : i < j => Earlier(history[i], history[j])
  /\ \A ev \in Events : ev.seq > 0 /\ (ev.epoch < epoch \/ (ev.epoch = epoch /\ ev.seq <= seq))
  /\ IF published THEN Leader \in Events ELSE seq = 0

\* Whatever is under way was published, and no poll brings a bigbrain older than
\* the one the tracker knows.
UnderWay ==
  /\ chan = NoEvent \/ chan \in Events
  /\ \A i \in DOMAIN wire : wire[i] \in Events
  /\ poll.stage = "answered" => poll.answer \in Events /\ poll.answer.epoch >= lastEpoch

\* The tracker routes to what was published under the number it has applied, of
\* a bigbrain that did publish it (applyLeader).
AppliedWasPublished ==
  /\ lastEpoch <= epoch
  /\ IF lastEpoch = 0 THEN lastSeq = 0 /\ leaderURL = NoLeader ELSE Applied \in Events

\* The inductive invariant behind the refinement below.
RoutingInv == RoutingTypeOK /\ HistoryOrdered /\ UnderWay /\ AppliedWasPublished

\* The tracker routes to the published leader, or will ask for one that is no older:
\* an answer it already holds is as good as none unless it is the newest.
WillBeCurrent ==
  \/ Current \/ wake \/ poll.stage = "asked"
  \/ poll.stage = "answered" /\ poll.answer = Leader
  \/ poll.stage = "none" /\ pollDown

\* The newest publication is in the channel, is the last frame of the wire, or has
\* been read.
NewestOnItsWay ==
  IF chan # NoEvent THEN published /\ chan = Leader
  ELSE handler = "streaming" /\ published =>
         IF wire # <<>> THEN wire[Len(wire)] = Leader ELSE WillBeCurrent

\* The inductive invariant behind QuietStreamIsCurrent.
StreamInv ==
  /\ conn = "closed" => handler = "none"
  /\ conn = "closed" \/ handler = "subscribed" => wire = <<>>
  /\ handler = "none" => chan = NoEvent
  /\ NewestOnItsWay

\* The registry and the tracker implement LeaderFeed: late frames of a dead
\* bigbrain and poll answers that the stream has overtaken never take the proxy
\* back to an earlier leader.
urlLog == [i \in DOMAIN history |-> history[i].url]

appliedIndex ==
  IF lastEpoch = 0 THEN 0
  ELSE CHOOSE i \in DOMAIN history : history[i] = Applied

Feed == INSTANCE LeaderFeed WITH
          log <- urlLog, view <- appliedIndex, shown <- leaderURL

FeedImplemented == Feed!FeedSpec

\* The proxy ends up at the published leader when the leader stays and the
\* failures cease, even though the tracker drops what the stream says of a
\* bigbrain it has not yet polled.
Converges == <>[](published => Current)
==============================================================================
