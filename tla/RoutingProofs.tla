---------------------------- MODULE RoutingProofs ----------------------------
(***************************************************************************)
(* Routing keeps its invariant and implements LeaderFeed, for every set of *)
(* backends and every bound; Usher keeps its own, for every configuration  *)
(* and every set of requests.                                              *)
(***************************************************************************)
EXTENDS Routing, Usher, TLAPS

-----------------------------------------------------------------------------
(* The history. *)

\* What the registry appends is newer than everything before it.
LEMMA HistoryGrows ==
  ASSUME RoutingInv, NEW u \in Url, Update(u)
  PROVE  /\ history' \in Seq(Event) /\ Len(history') = Len(history) + 1
         /\ \A i \in DOMAIN history : i \in DOMAIN history' /\ history'[i] = history[i]
         /\ history'[Len(history) + 1] = Leader'
         /\ Events' = Events \union {Leader'}
         /\ HistoryOrdered'
<1> DEFINE ev == [epoch |-> epoch, seq |-> seq + 1, url |-> u]
<1>1. ev \in Event /\ ev = Leader' /\ history' = Append(history, ev)
  BY DEF RoutingInv, RoutingTypeOK, Update, Event, Leader, Url
<1>2. history \in Seq(Event)
  BY DEF RoutingInv, RoutingTypeOK
<1> HIDE DEF ev
<1>3. /\ history' \in Seq(Event) /\ Len(history') = Len(history) + 1
      /\ DOMAIN history = 1..Len(history) /\ DOMAIN history' = 1..(Len(history) + 1)
      /\ \A i \in DOMAIN history : history'[i] = history[i]
      /\ history'[Len(history) + 1] = ev
      /\ Len(history) \in Nat
  BY <1>1, <1>2
<1>4. Events' = Events \union {ev}
  BY <1>3 DEF Events
<1>5. \A old \in Events : Earlier(old, ev) /\ old \in Event
  <2> TAKE old \in Events
  <2>1. old \in Event
    BY <1>2, <1>3 DEF Events
  <2>2. old.epoch < epoch \/ (old.epoch = epoch /\ old.seq <= seq)
    BY DEF RoutingInv, HistoryOrdered
  <2> QED
    BY <2>1, <2>2 DEF ev, Earlier, Event, RoutingInv, RoutingTypeOK
<1>6. \A i, j \in DOMAIN history' : i < j => Earlier(history'[i], history'[j])
  <2> SUFFICES ASSUME NEW i \in DOMAIN history', NEW j \in DOMAIN history', i < j
               PROVE  Earlier(history'[i], history'[j])
    OBVIOUS
  <2>1. i \in DOMAIN history /\ history'[i] = history[i]
    BY <1>3
  <2>2. CASE j \in DOMAIN history
    BY <1>3, <2>1, <2>2 DEF RoutingInv, HistoryOrdered
  <2>3. CASE j = Len(history) + 1
    BY <1>3, <1>5, <2>1, <2>3 DEF Events
  <2> QED
    BY <1>3, <2>2, <2>3
<1>7. \A e \in Events' : e.seq > 0 /\ (e.epoch < epoch' \/ (e.epoch = epoch' /\ e.seq <= seq'))
  <2>1. epoch' = epoch /\ seq' = seq + 1 /\ seq \in Nat
    BY DEF Update, RoutingInv, RoutingTypeOK
  <2>2. ev.epoch = epoch /\ ev.seq = seq + 1
    BY DEF ev
  <2>3. \A old \in Events : old.seq > 0 /\ (old.epoch < epoch \/ (old.epoch = epoch /\ old.seq <= seq))
    BY DEF RoutingInv, HistoryOrdered
  <2>4. \A old \in Events : old.seq \in Nat
    BY <1>5 DEF Event
  <2> QED
    BY <1>4, <2>1, <2>2, <2>3, <2>4
<1>8. HistoryOrdered'
  BY <1>1, <1>4, <1>6, <1>7 DEF HistoryOrdered, Update
<1> QED
  BY <1>1, <1>3, <1>4, <1>8

\* Two entries of the history with one number are one entry.
LEMMA EntriesDiffer ==
  ASSUME HistoryOrdered, history \in Seq(Event),
         NEW i \in DOMAIN history, NEW j \in DOMAIN history,
         ~Earlier(history[j], history[i])
  PROVE  i <= j
<1>1. i \in Nat /\ j \in Nat
  OBVIOUS
<1> QED
  BY <1>1 DEF HistoryOrdered
-----------------------------------------------------------------------------
(* What leaves a part of the invariant alone. *)

LEMMA HistoryKept ==
  ASSUME RoutingInv, UNCHANGED registryVars
  PROVE  HistoryOrdered' /\ Events' = Events
<1>1. Events' = Events
  BY DEF registryVars, Events
<1>2. Leader' = Leader
  BY DEF registryVars, Leader
<1> QED
  BY <1>1, <1>2 DEF registryVars, HistoryOrdered, RoutingInv

LEMMA ViewKept ==
  ASSUME RoutingInv, UNCHANGED viewVars, epoch' >= epoch, epoch' \in Nat,
         Events \subseteq Events'
  PROVE  AppliedWasPublished'
<1>1. Applied' = Applied
  BY DEF viewVars, Applied
<1> QED
  BY <1>1 DEF viewVars, AppliedWasPublished, RoutingInv, RoutingTypeOK

\* The events are what the type says, and so is the leader once published.
LEMMA EventsTyped ==
  ASSUME RoutingInv
  PROVE  Events \subseteq Event /\ NoEvent \notin Events /\ (published => Leader \in Events)
<1>1. history \in Seq(Event)
  BY DEF RoutingInv, RoutingTypeOK
<1>2. Events \subseteq Event
  BY <1>1 DEF Events
<1> QED
  BY <1>2 DEF RoutingInv, HistoryOrdered, NoEvent, Event

\* The tracker takes an event whole or keeps what it has, and what it takes is
\* newer than what it had.
LEMMA ApplyMovesForward ==
  ASSUME RoutingInv, NEW ev \in Events, NEW fromPoll \in BOOLEAN,
         applyLeader(ev, fromPoll), fromPoll => ev.epoch >= lastEpoch,
         UNCHANGED registryVars
  PROVE  /\ lastEpoch' \in 0..MaxEpoch /\ lastSeq' \in Nat /\ leaderURL' \in Url
         /\ wake' \in BOOLEAN
         /\ fromPoll \/ lastEpoch' = lastEpoch
         /\ \/ UNCHANGED viewVars
            \/ /\ Applied' = ev /\ lastEpoch' > 0
               /\ lastEpoch = 0 \/ Earlier(Applied, Applied')
         /\ AppliedWasPublished'
<1>1. /\ ev \in Event /\ ev = [epoch |-> ev.epoch, seq |-> ev.seq, url |-> ev.url]
      /\ ev.epoch \in 1..MaxEpoch /\ ev.seq \in Nat /\ ev.url \in Url
  BY EventsTyped DEF Event
<1>2. ev.seq > 0 /\ ev.epoch <= epoch
  BY <1>1 DEF RoutingInv, RoutingTypeOK, HistoryOrdered
<1>3. /\ lastEpoch \in 0..MaxEpoch /\ lastSeq \in Nat /\ leaderURL \in Url
      /\ wake \in BOOLEAN /\ MaxEpoch \in Nat
  BY RoutingAssumption DEF RoutingInv, RoutingTypeOK
<1>4. CASE UNCHANGED viewVars
  <2>1. lastEpoch' = lastEpoch /\ lastSeq' = lastSeq /\ leaderURL' = leaderURL
    BY <1>4 DEF viewVars
  <2>2. wake' \in BOOLEAN
    BY <1>3 DEF applyLeader
  <2>3. AppliedWasPublished'
    BY <1>4, HistoryKept, ViewKept DEF registryVars, RoutingInv, RoutingTypeOK
  <2> QED
    BY <1>3, <1>4, <2>1, <2>2, <2>3
<1>5. CASE ~UNCHANGED viewVars
  <2>1. ev.epoch = lastEpoch \/ fromPoll
    BY <1>5 DEF applyLeader
  <2>2. /\ lastEpoch' = ev.epoch /\ wake' = wake
        /\ ApplyAbove(IF ev.epoch = lastEpoch THEN lastSeq ELSE 0, ev)
    BY <2>1 DEF applyLeader
  <2>3. CASE ev.epoch = lastEpoch
    <3>1. ApplyAbove(lastSeq, ev)
      BY <2>2, <2>3
    <3>2. ev.seq > lastSeq /\ lastSeq' = ev.seq /\ leaderURL' = ev.url
      BY <1>5, <2>2, <2>3, <3>1 DEF ApplyAbove, viewVars
    <3>3. Applied' = ev
      BY <1>1, <2>2, <3>2 DEF Applied
    <3>4. Earlier(Applied, Applied')
      BY <2>3, <3>2, <3>3 DEF Applied, Earlier
    <3> QED
      BY <1>1, <1>2, <1>3, <2>2, <2>3, <3>2, <3>3, <3>4, HistoryKept
         DEF AppliedWasPublished, registryVars
  <2>4. CASE ev.epoch # lastEpoch
    <3>1. fromPoll /\ ev.epoch > lastEpoch
      BY <1>1, <1>3, <2>1, <2>4
    <3>2. lastSeq' = ev.seq /\ leaderURL' = ev.url
      BY <1>2, <2>2, <2>4 DEF ApplyAbove
    <3>3. Applied' = ev
      BY <1>1, <2>2, <3>2 DEF Applied
    <3>4. Earlier(Applied, Applied')
      BY <3>1, <3>3 DEF Applied, Earlier
    <3> QED
      BY <1>1, <1>2, <1>3, <2>2, <3>1, <3>2, <3>3, <3>4, HistoryKept
         DEF AppliedWasPublished, registryVars
  <2> QED
    BY <2>3, <2>4
<1> QED
  BY <1>4, <1>5

-----------------------------------------------------------------------------
(* The invariant. *)

LEMMA RoutingInitially == Init => RoutingInv
<1> SUFFICES ASSUME Init PROVE RoutingInv
  OBVIOUS
<1>1. RoutingTypeOK
  <2>1. /\ epoch \in 1..MaxEpoch /\ seq \in Nat /\ leader \in Url
        /\ lastEpoch \in 0..MaxEpoch /\ lastSeq \in Nat /\ leaderURL \in Url
        /\ faults \in 0..MaxFaults
    BY RoutingAssumption DEF Init, Url
  <2>2. /\ wire \in Seq(Event) /\ Len(wire) <= MaxWire /\ history \in Seq(Event)
    BY RoutingAssumption DEF Init
  <2>3. poll \in [stage : {"none", "asked"}, answer : {NoEvent}]
    BY DEF Init
  <2> QED
    BY <2>1, <2>2, <2>3 DEF Init, RoutingTypeOK
<1>2. Events = {}
  BY DEF Init, Events
<1>3. HistoryOrdered
  BY <1>2 DEF Init, HistoryOrdered
<1>4. UnderWay
  BY DEF Init, UnderWay
<1>5. AppliedWasPublished
  BY DEF Init, AppliedWasPublished
<1> QED
  BY <1>1, <1>3, <1>4, <1>5 DEF RoutingInv

\* A publication is what the channel now holds, and disturbs nothing else.
LEMMA UpdateKeepsInv ==
  ASSUME RoutingInv, NEW u \in Url, Update(u)
  PROVE  RoutingInv'
<1>1. /\ history' \in Seq(Event) /\ Events' = Events \union {Leader'} /\ HistoryOrdered'
  BY HistoryGrows
<1>2. Leader' \in Event /\ chan' \in {chan, Leader'}
  BY DEF Update, offer, Leader, Event, RoutingInv, RoutingTypeOK
<1>3. RoutingTypeOK'
  BY <1>1, <1>2 DEF RoutingInv, RoutingTypeOK, Update, viewVars
<1>4. UnderWay'
  BY <1>1, <1>2 DEF RoutingInv, UnderWay, Update, viewVars
<1>5. AppliedWasPublished'
  BY <1>1, ViewKept DEF RoutingInv, RoutingTypeOK, Update
<1> QED
  BY <1>1, <1>3, <1>4, <1>5 DEF RoutingInv

\* A new process starts a new epoch, and what the old one published stays.
LEMMA RestartKeepsInv ==
  ASSUME RoutingInv, Restart
  PROVE  RoutingInv'
<1>1. /\ history' = history /\ Events' = Events /\ epoch' = epoch + 1 /\ epoch' \in 1..MaxEpoch
      /\ seq' = 0 /\ published' = FALSE /\ epoch \in Nat
  BY RoutingAssumption DEF Restart, Events, RoutingInv, RoutingTypeOK
<1>2. RoutingTypeOK'
  <2>1. leader' \in Url /\ published' \in BOOLEAN
    BY <1>1, Zenon DEF Restart, Url
  <2>2. handler' = "none" /\ chan' = NoEvent /\ conn' \in {conn, "ending"}
    BY DEF Restart, HandlerGone
  <2>3. UNCHANGED <<history, wire, streamDown, poll, pollDown, wake,
                    lastEpoch, lastSeq, leaderURL, faults>>
    BY DEF Restart, viewVars
  <2> QED
    BY <1>1, <2>1, <2>2, <2>3 DEF RoutingInv, RoutingTypeOK
<1>3. HistoryOrdered'
  <2>1. Events \subseteq Event
    BY EventsTyped
  <2> QED
    BY <1>1, <2>1 DEF RoutingInv, HistoryOrdered, Event
<1>4. UnderWay'
  BY <1>1 DEF RoutingInv, UnderWay, Restart, HandlerGone, viewVars
<1>5. AppliedWasPublished'
  BY <1>1, ViewKept DEF Restart
<1> QED
  BY <1>2, <1>3, <1>4, <1>5 DEF RoutingInv

\* The steps that touch neither the registry nor the view of the tracker.
LEMMA CarryingKeepsInv ==
  ASSUME RoutingInv, UNCHANGED <<registryVars, viewVars>>,
         RoutingTypeOK', UnderWay'
  PROVE  RoutingInv'
<1>1. Events' = Events /\ HistoryOrdered'
  BY HistoryKept
<1>2. AppliedWasPublished'
  BY <1>1, ViewKept DEF registryVars, RoutingInv, RoutingTypeOK
<1> QED
  BY <1>1, <1>2 DEF RoutingInv

LEMMA HandlerKeepsInv ==
  ASSUME RoutingInv, HandlerStep
  PROVE  RoutingInv'
<1>1. /\ UNCHANGED <<registryVars, viewVars>> /\ poll' = poll
      /\ Events' = Events
  BY HistoryKept DEF HandlerStep, Snapshot, Emit, HandlerEnds
<1>2. Events \subseteq Event /\ NoEvent \notin Events /\ (published => Leader \in Events)
  BY EventsTyped
<1>3. CASE Snapshot
  <2>1. wire' = wire \/ (Leader \in Events /\ wire' = Append(wire, Leader))
    BY <1>2, <1>3 DEF Snapshot
  <2>2. RoutingTypeOK'
    BY <1>2, <1>3, <2>1, RoutingAssumption
       DEF RoutingInv, RoutingTypeOK, Snapshot, registryVars, viewVars
  <2>3. UnderWay'
    BY <1>1, <1>3, <2>1 DEF RoutingInv, RoutingTypeOK, UnderWay, Snapshot, viewVars
  <2> QED
    BY <1>1, <2>2, <2>3, CarryingKeepsInv
<1>4. CASE Emit
  <2>1. chan \in Events /\ wire' = Append(wire, chan) /\ chan' = NoEvent
    BY <1>4 DEF Emit, RoutingInv, UnderWay
  <2>2. RoutingTypeOK'
    BY <1>2, <1>4, <2>1, RoutingAssumption
       DEF RoutingInv, RoutingTypeOK, Emit, registryVars, viewVars
  <2>3. UnderWay'
    BY <1>1, <2>1 DEF RoutingInv, RoutingTypeOK, UnderWay, viewVars
  <2> QED
    BY <1>1, <2>2, <2>3, CarryingKeepsInv
<1>5. CASE HandlerEnds
  <2>1. RoutingTypeOK'
    BY <1>5, RoutingAssumption
       DEF RoutingInv, RoutingTypeOK, HandlerEnds, HandlerGone, Fault, registryVars, viewVars
  <2>2. UnderWay'
    BY <1>1, <1>5 DEF RoutingInv, UnderWay, HandlerEnds, HandlerGone, viewVars
  <2> QED
    BY <1>1, <2>1, <2>2, CarryingKeepsInv
<1> QED
  BY <1>3, <1>4, <1>5 DEF HandlerStep

LEMMA StreamKeepsInv ==
  ASSUME RoutingInv, StreamStep
  PROVE  RoutingInv'
<1>1. UNCHANGED <<registryVars, poll>> /\ Events' = Events
  <2>1. UNCHANGED <<registryVars, poll>>
    BY DEF StreamStep, Connect, ConnectFails, ReadFrame, StreamEnds, StreamBreaks, StreamOver
  <2> QED
    BY <2>1, HistoryKept
<1>2. CASE Connect
  <2>1. RoutingTypeOK'
    BY <1>2 DEF RoutingInv, RoutingTypeOK, Connect, registryVars, viewVars
  <2>2. UnderWay'
    BY <1>1, <1>2 DEF RoutingInv, UnderWay, Connect, viewVars
  <2> QED
    BY <1>2, <2>1, <2>2, CarryingKeepsInv DEF Connect
<1>3. CASE ConnectFails
  <2>1. RoutingTypeOK'
    BY <1>3, RoutingAssumption
       DEF RoutingInv, RoutingTypeOK, ConnectFails, Fault, registryVars, viewVars
  <2>2. UnderWay'
    BY <1>1, <1>3 DEF RoutingInv, UnderWay, ConnectFails, viewVars
  <2> QED
    BY <1>3, <2>1, <2>2, CarryingKeepsInv DEF ConnectFails
<1>4. CASE ReadFrame
  <2>1. /\ Head(wire) \in Events /\ wire' = Tail(wire)
        /\ wire' \in Seq(Event) /\ Len(wire') <= MaxWire
        /\ \A i \in DOMAIN wire' : wire'[i] \in Events
    BY <1>4, RoutingAssumption DEF ReadFrame, RoutingInv, RoutingTypeOK, UnderWay
  <2>2. /\ lastEpoch' = lastEpoch /\ lastEpoch' \in 0..MaxEpoch /\ lastSeq' \in Nat
        /\ leaderURL' \in Url /\ wake' \in BOOLEAN /\ AppliedWasPublished'
    BY <1>1, <1>4, <2>1, ApplyMovesForward DEF ReadFrame
  <2>3. RoutingTypeOK'
    BY <1>4, <2>1, <2>2 DEF RoutingInv, RoutingTypeOK, ReadFrame, registryVars
  <2>4. UnderWay'
    BY <1>1, <1>4, <2>1, <2>2 DEF RoutingInv, UnderWay, ReadFrame
  <2> QED
    BY <1>1, <2>2, <2>3, <2>4, HistoryKept DEF RoutingInv
<1>5. CASE StreamEnds \/ StreamBreaks
  <2>1. StreamOver /\ faults' \in 0..MaxFaults
    BY <1>5, RoutingAssumption DEF StreamEnds, StreamBreaks, Fault, RoutingInv, RoutingTypeOK
  <2>2. RoutingTypeOK'
    BY <2>1, RoutingAssumption DEF RoutingInv, RoutingTypeOK, StreamOver, registryVars, viewVars
  <2>3. UnderWay'
    BY <1>1, <2>1 DEF RoutingInv, UnderWay, StreamOver, viewVars
  <2> QED
    BY <2>1, <2>2, <2>3, CarryingKeepsInv DEF StreamOver
<1> QED
  BY <1>2, <1>3, <1>4, <1>5 DEF StreamStep

LEMMA PollKeepsInv ==
  ASSUME RoutingInv, PollStep
  PROVE  RoutingInv'
<1>1. UNCHANGED <<registryVars, streamVars>> /\ Events' = Events
  <2>1. UNCHANGED <<registryVars, streamVars>>
    BY DEF PollStep, PollStart, PollAnswered, PollApplied, PollFails
  <2> QED
    BY <2>1, HistoryKept
<1>2. CASE PollStart
  <2>1. RoutingTypeOK'
    BY <1>2 DEF RoutingInv, RoutingTypeOK, PollStart, registryVars, streamVars, viewVars
  <2>2. UnderWay'
    BY <1>1, <1>2 DEF RoutingInv, UnderWay, PollStart, streamVars, viewVars
  <2> QED
    BY <1>2, <2>1, <2>2, CarryingKeepsInv DEF PollStart
<1>3. CASE PollAnswered
  <2>1. Leader \in Events /\ Leader \in Event /\ Leader.epoch >= lastEpoch
    <3>1. Leader \in Events /\ Leader \in Event
      BY <1>3, EventsTyped DEF PollAnswered
    <3> QED
      BY <3>1 DEF Leader, RoutingInv, AppliedWasPublished
  <2>2. poll' = [stage |-> "answered", answer |-> Leader]
    BY <1>3 DEF PollAnswered
  <2>3. RoutingTypeOK'
    BY <1>3, <2>1, <2>2
       DEF RoutingInv, RoutingTypeOK, PollAnswered, registryVars, streamVars, viewVars
  <2>4. UnderWay'
    BY <1>1, <1>3, <2>1, <2>2 DEF RoutingInv, UnderWay, PollAnswered, streamVars, viewVars
  <2> QED
    BY <1>3, <2>3, <2>4, CarryingKeepsInv DEF PollAnswered
<1>4. CASE PollApplied
  <2>1. poll.answer \in Events /\ poll.answer.epoch >= lastEpoch
    BY <1>4 DEF PollApplied, RoutingInv, UnderWay
  <2>2. /\ lastEpoch' \in 0..MaxEpoch /\ lastSeq' \in Nat
        /\ leaderURL' \in Url /\ wake' \in BOOLEAN /\ AppliedWasPublished'
    BY <1>1, <1>4, <2>1, ApplyMovesForward DEF PollApplied
  <2>3. RoutingTypeOK'
    BY <1>4, <2>2 DEF RoutingInv, RoutingTypeOK, PollApplied, registryVars, streamVars
  <2>4. UnderWay'
    BY <1>1, <1>4 DEF RoutingInv, UnderWay, PollApplied, streamVars
  <2> QED
    BY <1>1, <2>2, <2>3, <2>4, HistoryKept DEF RoutingInv
<1>5. CASE PollFails
  <2>1. faults' \in 0..MaxFaults
    BY <1>5, RoutingAssumption DEF PollFails, Fault, RoutingInv, RoutingTypeOK
  <2>2. RoutingTypeOK'
    BY <1>5, <2>1 DEF RoutingInv, RoutingTypeOK, PollFails, registryVars, streamVars, viewVars
  <2>3. UnderWay'
    BY <1>1, <1>5 DEF RoutingInv, UnderWay, PollFails, streamVars, viewVars
  <2> QED
    BY <1>5, <2>2, <2>3, CarryingKeepsInv DEF PollFails
<1> QED
  BY <1>2, <1>3, <1>4, <1>5 DEF PollStep

LEMMA StepKeepsInv == RoutingInv /\ [Next]_vars => RoutingInv'
<1> SUFFICES ASSUME RoutingInv, [Next]_vars PROVE RoutingInv'
  OBVIOUS
<1>1. CASE BigbrainStep
  BY <1>1, UpdateKeepsInv, RestartKeepsInv DEF BigbrainStep
<1>2. CASE HandlerStep
  BY <1>2, HandlerKeepsInv
<1>3. CASE StreamStep
  BY <1>3, StreamKeepsInv
<1>4. CASE PollStep
  BY <1>4, PollKeepsInv
<1>5. CASE nudgeResolve \/ UNCHANGED vars
  <2>1. /\ UNCHANGED <<registryVars, streamVars, poll, pollDown, viewVars, faults>>
        /\ wake' \in {wake, TRUE}
    BY <1>5 DEF nudgeResolve, vars
  <2>2. Events' = Events
    BY <2>1, HistoryKept
  <2>3. RoutingTypeOK'
    BY <2>1 DEF RoutingInv, RoutingTypeOK, registryVars, streamVars, viewVars
  <2>4. UnderWay'
    BY <2>1, <2>2 DEF RoutingInv, UnderWay, streamVars, viewVars
  <2> QED
    BY <2>1, <2>3, <2>4, CarryingKeepsInv
<1> QED
  BY <1>1, <1>2, <1>3, <1>4, <1>5 DEF Next

\* Publications are ordered across restarts of bigbrain, and nothing that was not
\* published is ever on its way to the tracker or applied by it (Registry.Update,
\* applyLeader): RoutingInv holds in every state.
THEOREM RoutingInvariance == Spec => []RoutingInv
<1> QED
  BY RoutingInitially, StepKeepsInv, PTL DEF Spec

-----------------------------------------------------------------------------
(* The refinement. *)

\* What is applied is one entry of the history, and appliedIndex is its place.
LEMMA IndexOfApplied ==
  ASSUME NEW h \in Seq(Event), NEW e \in Event,
         \A i, j \in DOMAIN h : i < j => Earlier(h[i], h[j]),
         NEW k \in DOMAIN h, h[k] = e
  PROVE  (CHOOSE i \in DOMAIN h : h[i] = e) = k
<1> DEFINE c == CHOOSE i \in DOMAIN h : h[i] = e
<1>1. c \in DOMAIN h /\ h[c] = e
  OBVIOUS
<1>2. ~Earlier(e, e)
  BY DEF Event, Earlier
<1>3. ~(c < k) /\ ~(k < c)
  BY <1>1, <1>2
<1> QED
  BY <1>1, <1>3

LEMMA AppliedHasIndex ==
  ASSUME RoutingInv
  PROVE  /\ lastEpoch = 0 => appliedIndex = 0
         /\ lastEpoch # 0 => appliedIndex \in DOMAIN history /\ history[appliedIndex] = Applied
<1>1. ASSUME lastEpoch # 0 PROVE \E i \in DOMAIN history : history[i] = Applied
  BY <1>1 DEF RoutingInv, AppliedWasPublished, Events
<1> QED
  BY <1>1 DEF appliedIndex

\* The same of the next state.
LEMMA AppliedHasIndexNext ==
  ASSUME RoutingInv'
  PROVE  /\ (lastEpoch = 0 => appliedIndex = 0)'
         /\ (lastEpoch # 0 => appliedIndex \in DOMAIN history /\ history[appliedIndex] = Applied)'
<1>1. ASSUME lastEpoch' # 0 PROVE \E i \in DOMAIN history' : history'[i] = Applied'
  BY <1>1 DEF RoutingInv, AppliedWasPublished, Events
<1> QED
  BY <1>1 DEF appliedIndex

LEMMA UrlLogOf ==
  ASSUME NEW h \in Seq(Event)
  PROVE  LET urls == [i \in DOMAIN h |-> h[i].url]
         IN  urls \in Seq(Url) /\ Len(urls) = Len(h)
<1>1. \A i \in DOMAIN h : h[i] \in Event
  OBVIOUS
<1>2. \A e \in Event : e.url \in Url
  BY DEF Event
<1>3. \A i \in 1..Len(h) : h[i].url \in Url
  BY <1>1, <1>2
<1> QED
  BY <1>3

\* A publication of the registry is one of the feed.
LEMMA UpdatePublishes ==
  ASSUME RoutingInv, RoutingInv', NEW u \in Url, Update(u)
  PROVE  Feed!Publish
<1>1. history \in Seq(Event) /\ history' \in Seq(Event)
  BY DEF RoutingInv, RoutingTypeOK
<1>2. /\ Len(history') = Len(history) + 1
      /\ \A i \in DOMAIN history : i \in DOMAIN history' /\ history'[i] = history[i]
      /\ history'[Len(history) + 1] = Leader'
      /\ HistoryOrdered'
  BY HistoryGrows
<1>3. urlLog \in Seq(Url) /\ Len(urlLog) = Len(history)
  BY <1>1, UrlLogOf DEF urlLog
<1>4. urlLog' \in Seq(Url) /\ Len(urlLog') = Len(history')
  BY <1>1, UrlLogOf DEF urlLog
<1>5. urlLog' = Append(urlLog, u)
  <2>1. Len(urlLog') = Len(Append(urlLog, u)) /\ Append(urlLog, u) \in Seq(Url)
    BY <1>2, <1>3, <1>4
  <2>2. ASSUME NEW i \in 1..Len(history') PROVE urlLog'[i] = Append(urlLog, u)[i]
    <3>1. CASE i \in DOMAIN history
      BY <1>1, <1>2, <1>3, <3>1 DEF urlLog
    <3>2. CASE i = Len(history) + 1
      <4>1. Leader'.url = u
        BY DEF Update, Leader
      <4>2. urlLog'[i] = u
        BY <1>1, <1>2, <3>2, <4>1 DEF urlLog
      <4> QED
        BY <1>3, <3>2, <4>2
    <3>3. DOMAIN history = 1..Len(history) /\ Len(history) \in Nat
      BY <1>1
    <3>4. Len(history') = Len(history) + 1
      BY <1>2
    <3>5. i \in DOMAIN history \/ i = Len(history) + 1
      BY <3>3, <3>4
    <3> QED
      BY <3>1, <3>2, <3>5
  <2> QED
    BY <1>4, <2>1, <2>2
<1>6. lastEpoch' = lastEpoch /\ leaderURL' = leaderURL /\ Applied' = Applied
  BY DEF Update, viewVars, Applied
<1>7. appliedIndex' = appliedIndex
  <2>1. CASE lastEpoch = 0
    BY <1>6, <2>1, AppliedHasIndex, AppliedHasIndexNext
  <2>2. CASE lastEpoch # 0
    <3> DEFINE k == appliedIndex
    <3>1. k \in DOMAIN history' /\ history'[k] = Applied'
      BY <1>2, <1>6, <2>2, AppliedHasIndex
    <3>2. Applied' \in Event
      BY <1>1, <3>1
    <3>3. \A i, j \in DOMAIN history' : i < j => Earlier(history'[i], history'[j])
      BY <1>2 DEF HistoryOrdered
    <3> HIDE DEF k
    <3>4. (CHOOSE i \in DOMAIN history' : history'[i] = Applied') = k
      BY <1>1, <3>1, <3>2, <3>3, IndexOfApplied
    <3> QED
      BY <1>6, <2>2, <3>4 DEF appliedIndex, k
  <2> QED
    BY <2>1, <2>2
<1> QED
  BY <1>5, <1>6, <1>7 DEF Feed!Publish

\* What the tracker applies, it observes: further on in the feed, never back.
LEMMA ApplyObserves ==
  ASSUME RoutingInv, RoutingInv', history' = history,
         Applied' \in Events, lastEpoch' > 0,
         lastEpoch = 0 \/ Earlier(Applied, Applied')
  PROVE  Feed!Observe
<1>1. history \in Seq(Event) /\ DOMAIN history = 1..Len(history) /\ Len(history) \in Nat
  BY DEF RoutingInv, RoutingTypeOK
<1>2. appliedIndex' \in DOMAIN history /\ history[appliedIndex'] = Applied'
  BY AppliedHasIndexNext
<1>3. urlLog' = urlLog /\ urlLog \in Seq(Url) /\ Len(urlLog) = Len(history)
  BY <1>1, UrlLogOf DEF urlLog
<1>4. leaderURL' = urlLog[appliedIndex']
  BY <1>1, <1>2 DEF urlLog, Applied
<1>5. appliedIndex' \in (appliedIndex + 1)..Len(history)
  <2>1. CASE lastEpoch = 0
    BY <1>1, <1>2, <2>1, AppliedHasIndex
  <2>2. CASE lastEpoch # 0
    <3>1. appliedIndex \in DOMAIN history /\ history[appliedIndex] = Applied
      BY <2>2, AppliedHasIndex
    <3>2. Applied \in Event /\ Applied' \in Event
      BY <1>1, <1>2, <3>1
    <3>3. ~Earlier(Applied', Applied) /\ Applied # Applied'
      BY <2>2, <3>2 DEF Earlier, Event
    <3>4. ~(appliedIndex' < appliedIndex)
      BY <1>2, <3>1, <3>3 DEF RoutingInv, HistoryOrdered
    <3>5. appliedIndex' # appliedIndex
      BY <1>2, <3>1, <3>3
    <3> QED
      BY <1>1, <1>2, <3>1, <3>4, <3>5
  <2> QED
    BY <2>1, <2>2
<1> QED
  BY <1>3, <1>4, <1>5 DEF Feed!Observe

LEMMA FeedInitially == Init => Feed!FeedInit
<1> SUFFICES ASSUME Init PROVE Feed!FeedInit
  OBVIOUS
<1>1. urlLog = <<>>
  BY DEF Init, urlLog
<1> QED
  BY <1>1 DEF Init, appliedIndex, Feed!FeedInit

LEMMA StepFeeds ==
  RoutingInv /\ RoutingInv' /\ [Next]_vars => [Feed!FeedNext]_(Feed!FeedVars)
<1> SUFFICES ASSUME RoutingInv, RoutingInv', [Next]_vars
             PROVE  Feed!Publish \/ Feed!Observe \/ UNCHANGED Feed!FeedVars
  BY DEF Feed!FeedNext
<1>1. ASSUME history' = history, UNCHANGED viewVars
      PROVE  UNCHANGED Feed!FeedVars
  <2>1. urlLog' = urlLog /\ Applied' = Applied
    BY <1>1 DEF urlLog, Applied, viewVars
  <2>2. appliedIndex' = appliedIndex /\ leaderURL' = leaderURL
    BY <1>1, <2>1 DEF appliedIndex, viewVars
  <2> QED
    BY <2>1, <2>2 DEF Feed!FeedVars
<1>2. ASSUME NEW ev \in Events, NEW fromPoll \in BOOLEAN, applyLeader(ev, fromPoll),
             fromPoll => ev.epoch >= lastEpoch, UNCHANGED registryVars
      PROVE  Feed!Observe \/ UNCHANGED Feed!FeedVars
  <2>1. UNCHANGED viewVars \/ (Applied' = ev /\ lastEpoch' > 0
                               /\ (lastEpoch = 0 \/ Earlier(Applied, Applied')))
    BY <1>2, ApplyMovesForward
  <2> QED
    BY <1>1, <1>2, <2>1, ApplyObserves DEF registryVars
<1>3. CASE \E u \in Url : Update(u)
  BY <1>3, UpdatePublishes
<1>4. CASE ReadFrame
  <2>1. Head(wire) \in Events
    BY <1>4 DEF ReadFrame, RoutingInv, RoutingTypeOK, UnderWay
  <2> QED
    BY <1>2, <1>4, <2>1 DEF ReadFrame
<1>5. CASE PollApplied
  <2>1. poll.answer \in Events /\ poll.answer.epoch >= lastEpoch
    BY <1>5 DEF PollApplied, RoutingInv, UnderWay
  <2> QED
    BY <1>2, <1>5, <2>1 DEF PollApplied
<1>6. CASE Restart \/ HandlerStep \/ nudgeResolve \/ UNCHANGED vars
  <2>1. history' = history /\ UNCHANGED viewVars
    BY <1>6 DEF Restart, HandlerStep, Snapshot, Emit, HandlerEnds, nudgeResolve,
                registryVars, viewVars, vars
  <2> QED
    BY <1>1, <2>1
<1>7. CASE Connect \/ ConnectFails \/ StreamEnds \/ StreamBreaks
  <2>1. history' = history /\ UNCHANGED viewVars
    BY <1>7 DEF Connect, ConnectFails, StreamEnds, StreamBreaks, StreamOver,
                registryVars, viewVars
  <2> QED
    BY <1>1, <2>1
<1>8. CASE PollStart \/ PollAnswered \/ PollFails
  <2>1. history' = history /\ UNCHANGED viewVars
    BY <1>8 DEF PollStart, PollAnswered, PollFails, registryVars, viewVars
  <2> QED
    BY <1>1, <2>1
<1> QED
  BY <1>3, <1>4, <1>5, <1>6, <1>7, <1>8 DEF Next, BigbrainStep, StreamStep, PollStep

\* The tracker's proxy moves through the published leaders in their order: a late
\* frame, a dead bigbrain's frame or an overtaken poll answer never takes it back
\* (Registry.Update and applyLeader implement LeaderFeed).
THEOREM FeedRefined == Spec => FeedImplemented
<1> QED
  BY RoutingInvariance, FeedInitially, StepFeeds, PTL DEF Spec, FeedImplemented, Feed!FeedSpec

-----------------------------------------------------------------------------
(* The newest publication on its way. *)

LEMMA StreamInvInitially == Init => StreamInv
  BY DEF Init, StreamInv, NewestOnItsWay

\* The tracker that is given the leader of the registry has it afterwards, unless
\* it comes by the stream of a bigbrain that it has not polled.
LEMMA NewestIsApplied ==
  ASSUME RoutingInv, published, NEW fromPoll \in BOOLEAN, applyLeader(Leader, fromPoll),
         UNCHANGED registryVars
  PROVE  Current' \/ (~fromPoll /\ wake' = TRUE)
<1>1. /\ Leader \in Events /\ Leader.epoch = epoch /\ Leader.seq = seq /\ Leader.url = leader
      /\ seq > 0 /\ seq \in Nat /\ lastSeq \in Nat /\ lastEpoch <= epoch /\ epoch \in 1..MaxEpoch
  BY EventsTyped DEF Leader, RoutingInv, RoutingTypeOK, HistoryOrdered, AppliedWasPublished
<1>2. epoch' = epoch /\ seq' = seq /\ leader' = leader
  BY DEF registryVars
<1>3. CASE ~(Leader.epoch = lastEpoch \/ fromPoll)
  BY <1>3 DEF applyLeader
<1>4. CASE Leader.epoch = lastEpoch
  <2>1. lastEpoch' = epoch /\ ApplyAbove(lastSeq, Leader)
    BY <1>1, <1>4 DEF applyLeader
  <2>2. CASE seq > lastSeq
    BY <1>1, <1>2, <2>1, <2>2 DEF ApplyAbove, Current
  <2>3. CASE seq <= lastSeq
    <3>1. Applied \in Events
      BY <1>1, <1>4, RoutingAssumption DEF RoutingInv, AppliedWasPublished
    <3>2. lastSeq = seq
      BY <1>1, <1>4, <2>3, <3>1 DEF RoutingInv, HistoryOrdered, Applied
    <3>3. Applied = Leader
      <4>1. history \in Seq(Event)
        BY DEF RoutingInv, RoutingTypeOK
      <4>2. PICK i \in DOMAIN history : history[i] = Applied
        BY <3>1 DEF Events
      <4>3. PICK j \in DOMAIN history : history[j] = Leader
        BY <1>1 DEF Events
      <4>4. ~Earlier(Applied, Leader) /\ ~Earlier(Leader, Applied)
        BY <1>1, <1>4, <3>2 DEF Earlier, Applied, Leader
      <4>5. i <= j /\ j <= i
        BY <4>1, <4>2, <4>3, <4>4, EntriesDiffer DEF RoutingInv
      <4>6. i = j
        BY <4>1, <4>5
      <4> QED
        BY <4>2, <4>3, <4>6
    <3>4. leaderURL = leader
      BY <3>3 DEF Applied, Leader
    <3>5. lastSeq' = lastSeq /\ leaderURL' = leaderURL
      BY <1>1, <2>1, <2>3 DEF ApplyAbove
    <3> QED
      BY <1>2, <2>1, <3>2, <3>4, <3>5 DEF Current
  <2>4. seq > lastSeq \/ seq <= lastSeq
    BY <1>1
  <2> QED
    BY ONLY <2>2, <2>3, <2>4
<1>5. CASE Leader.epoch # lastEpoch /\ fromPoll
  BY <1>1, <1>2, <1>5 DEF applyLeader, ApplyAbove, Current
<1> QED
  BY <1>3, <1>4, <1>5

\* Nothing that is under way takes a tracker off the newest leader.
LEMMA CurrentStays ==
  ASSUME RoutingInv, Current, NEW ev \in Events, NEW fromPoll \in BOOLEAN,
         applyLeader(ev, fromPoll), fromPoll => ev.epoch >= lastEpoch, UNCHANGED registryVars
  PROVE  Current'
<1>1. /\ ev.epoch \in Nat /\ ev.seq \in Nat /\ epoch \in Nat /\ seq \in Nat
      /\ ev.epoch < epoch \/ (ev.epoch = epoch /\ ev.seq <= seq)
  BY EventsTyped DEF RoutingInv, RoutingTypeOK, HistoryOrdered, Event
<1>2. lastEpoch = epoch /\ lastSeq = seq /\ leaderURL = leader
  BY DEF Current
<1>3. epoch' = epoch /\ seq' = seq /\ leader' = leader
  BY DEF registryVars
<1>4. CASE ev.epoch = lastEpoch
  BY <1>1, <1>2, <1>3, <1>4 DEF applyLeader, ApplyAbove, Current
<1>5. CASE ev.epoch # lastEpoch
  BY <1>1, <1>2, <1>3, <1>5 DEF applyLeader, viewVars, Current
<1> QED
  BY <1>4, <1>5

LEMMA RegistryKeepsStream ==
  ASSUME RoutingInv, StreamInv, BigbrainStep
  PROVE  StreamInv'
<1>1. ASSUME NEW u \in Url, Update(u)  PROVE StreamInv'
  <2>1. /\ UNCHANGED <<handler, wire, conn>> /\ published' = TRUE
        /\ chan' = IF handler = "none" THEN chan ELSE Leader'
    BY <1>1 DEF Update, offer, Leader
  <2>2. Leader'.epoch = epoch /\ epoch # 0
    BY <1>1 DEF Update, Leader, RoutingInv, RoutingTypeOK
  <2>3. Leader' # NoEvent
    BY <2>2 DEF NoEvent
  <2> QED
    BY <2>1, <2>3 DEF StreamInv, NewestOnItsWay
<1>2. CASE Restart
  BY <1>2 DEF Restart, HandlerGone, StreamInv, NewestOnItsWay
<1> QED
  BY <1>1, <1>2 DEF BigbrainStep

LEMMA HandlerKeepsStream ==
  ASSUME RoutingInv, StreamInv, HandlerStep
  PROVE  StreamInv'
<1>1. wire \in Seq(Event)
  BY DEF RoutingInv, RoutingTypeOK
<1>2. Leader' = Leader /\ published' = published
  BY DEF HandlerStep, Snapshot, Emit, HandlerEnds, registryVars, Leader
<1>3. CASE Snapshot
  <2>1. /\ handler = "subscribed" /\ handler' = "streaming" /\ chan' = chan /\ wire = <<>>
        /\ wire' = IF published THEN Append(wire, Leader) ELSE wire
        /\ UNCHANGED conn /\ conn # "closed"
    BY <1>3 DEF Snapshot, StreamInv
  <2>2. published => wire' # <<>> /\ wire'[Len(wire')] = Leader
    BY <1>1, <2>1
  <2> QED
    BY <1>2, <2>1, <2>2 DEF StreamInv, NewestOnItsWay
<1>4. CASE Emit
  <2>1. /\ handler = "streaming" /\ handler' = handler /\ chan = Leader /\ chan' = NoEvent
        /\ wire' = Append(wire, Leader) /\ UNCHANGED conn /\ conn # "closed"
    BY <1>4 DEF Emit, StreamInv, NewestOnItsWay
  <2>2. wire' # <<>> /\ wire'[Len(wire')] = Leader
    BY <1>1, <2>1
  <2> QED
    BY <1>2, <2>1, <2>2 DEF StreamInv, NewestOnItsWay
<1>5. CASE HandlerEnds
  BY <1>5 DEF HandlerEnds, HandlerGone, StreamInv, NewestOnItsWay
<1> QED
  BY <1>3, <1>4, <1>5 DEF HandlerStep

LEMMA TrackerKeepsStream ==
  ASSUME RoutingInv, StreamInv, StreamStep
  PROVE  StreamInv'
<1>1. UNCHANGED registryVars /\ Leader' = Leader /\ published' = published /\ poll' = poll
  BY DEF StreamStep, Connect, ConnectFails, ReadFrame, StreamEnds, StreamBreaks, StreamOver,
         registryVars, Leader
<1>2. CASE Connect
  BY <1>2 DEF Connect, StreamInv, NewestOnItsWay
<1>3. CASE ConnectFails
  BY <1>3 DEF ConnectFails, StreamInv, NewestOnItsWay
<1>4. CASE StreamEnds \/ StreamBreaks
  BY <1>4 DEF StreamEnds, StreamBreaks, StreamOver, StreamInv, NewestOnItsWay
<1>5. CASE ReadFrame
  <2>1. /\ conn # "closed" /\ wire # <<>> /\ wire' = Tail(wire) /\ applyLeader(Head(wire), FALSE)
        /\ UNCHANGED <<handler, chan, conn, pollDown>>
    BY <1>5 DEF ReadFrame
  <2>2. wire \in Seq(Event)
    BY DEF RoutingInv, RoutingTypeOK
  <2>3. CASE wire' # <<>>
    <3>1. wire'[Len(wire')] = wire[Len(wire)]
      BY <2>1, <2>2, <2>3
    <3> QED
      BY <1>1, <2>1, <2>3, <3>1 DEF StreamInv, NewestOnItsWay
  <2>4. CASE wire' = <<>>
    <3>1. Head(wire) = wire[Len(wire)]
      <4>1. Len(wire') = Len(wire) - 1 /\ Len(wire') = 0 /\ Len(wire) \in Nat
        BY <2>1, <2>2, <2>4
      <4> QED
        BY <2>1, <2>2, <4>1
    <3>2. handler = "streaming" /\ published /\ chan = NoEvent => Current' \/ wake' = TRUE
      <4>1. SUFFICES ASSUME handler = "streaming", published, chan = NoEvent
                     PROVE  Current' \/ wake' = TRUE
        OBVIOUS
      <4>2. Head(wire) = Leader
        BY <2>1, <3>1, <4>1 DEF StreamInv, NewestOnItsWay
      <4> QED
        BY <1>1, <2>1, <4>1, <4>2, NewestIsApplied
    <3> QED
      BY <1>1, <2>1, <2>4, <3>2 DEF StreamInv, NewestOnItsWay, WillBeCurrent
  <2> QED
    BY <2>3, <2>4
<1> QED
  BY <1>2, <1>3, <1>4, <1>5 DEF StreamStep

LEMMA PollKeepsStream ==
  ASSUME RoutingInv, StreamInv, PollStep
  PROVE  StreamInv'
<1>1. UNCHANGED <<registryVars, handler, chan, wire, conn>> /\ Leader' = Leader
  BY DEF PollStep, PollStart, PollAnswered, PollApplied, PollFails, registryVars, streamVars, Leader
<1>2. published /\ WillBeCurrent => WillBeCurrent'
  <2> SUFFICES ASSUME published, WillBeCurrent PROVE WillBeCurrent'
    OBVIOUS
  <2>1. CASE PollStart
    BY <2>1 DEF PollStart, WillBeCurrent
  <2>2. CASE PollAnswered
    BY <1>1, <2>2 DEF PollAnswered, WillBeCurrent
  <2>3. CASE PollFails
    <3>1. /\ poll'.stage = "none" /\ pollDown' = TRUE
      BY <2>3 DEF PollFails
    <3> QED
      BY <3>1 DEF WillBeCurrent
  <2>4. CASE PollApplied
    <3>1. /\ poll.stage = "answered" /\ applyLeader(poll.answer, TRUE)
          /\ poll.answer \in Events /\ poll.answer.epoch >= lastEpoch
      BY <2>4 DEF PollApplied, RoutingInv, UnderWay
    <3>2. CASE poll.answer = Leader
      <4>1. Current'
        BY <1>1, <3>1, <3>2, NewestIsApplied
      <4> QED
        BY <4>1 DEF WillBeCurrent
    <3>3. CASE Current
      <4>1. Current'
        BY <1>1, <3>1, <3>3, CurrentStays
      <4> QED
        BY <4>1 DEF WillBeCurrent
    <3>4. CASE wake
      BY <3>1, <3>4 DEF applyLeader, WillBeCurrent
    <3> QED
      BY <3>1, <3>2, <3>3, <3>4 DEF WillBeCurrent
  <2> QED
    BY <2>1, <2>2, <2>3, <2>4 DEF PollStep
<1>3. published' = published
  BY <1>1 DEF registryVars
<1> QED
  BY <1>1, <1>2, <1>3 DEF StreamInv, NewestOnItsWay

LEMMA StepKeepsStream == RoutingInv /\ StreamInv /\ [Next]_vars => StreamInv'
<1> SUFFICES ASSUME RoutingInv, StreamInv, [Next]_vars PROVE StreamInv'
  OBVIOUS
<1>1. CASE nudgeResolve \/ UNCHANGED vars
  <2>1. /\ UNCHANGED <<registryVars, handler, chan, wire, conn, poll, pollDown, viewVars>>
        /\ wake' \in {wake, TRUE}
    BY <1>1 DEF nudgeResolve, vars, streamVars
  <2>2. Leader' = Leader /\ (Current => Current') /\ published' = published
    BY <2>1 DEF registryVars, viewVars, Leader, Current
  <2>3. WillBeCurrent => WillBeCurrent'
    BY <2>1, <2>2 DEF WillBeCurrent
  <2> QED
    BY <2>1, <2>2, <2>3 DEF StreamInv, NewestOnItsWay
<1> QED
  BY <1>1, RegistryKeepsStream, HandlerKeepsStream, TrackerKeepsStream, PollKeepsStream DEF Next

\* A tracker whose stream is silent is on the published leader or about to ask: no
\* interleaving of the subscription, the one-slot channel, the frames, late poll
\* answers and restarts of bigbrain loses the newest change (Subscribe,
\* Registry.Update, handleLeaderStream, applyLeader).
THEOREM QuietStreamTells == Spec => []QuietStreamIsCurrent
<1>1. RoutingInv /\ StreamInv => QuietStreamIsCurrent
  BY DEF StreamInv, NewestOnItsWay, WillBeCurrent, QuietStreamIsCurrent, CatchingUp
<1> QED
  BY <1>1, StreamInvInitially, StepKeepsStream, RoutingInvariance, PTL DEF Spec
-----------------------------------------------------------------------------
(* The table of hosts. *)

\* A host that is set for a deployment is looked up, and its route is that field's.
LEMMA HostsHaveRoutes ==
  ASSUME UsherFits, NEW i \in DOMAIN config, NEW field \in hostFields, config[i][field] # ""
  PROVE  /\ Lower[config[i][field]] \in DOMAIN routes
         /\ routes[Lower[config[i][field]]] = routeOfHost(config, <<i, field>>)
<1> DEFINE s == <<i, field>>
<1>1. s \in hostsOf(config) /\ hostAt(config, s) = Lower[config[i][field]]
  BY DEF hostsOf, hostAt
<1> HIDE DEF s
<1>2. Lower[config[i][field]] \in DOMAIN routes /\ routes[Lower[config[i][field]]] = routeOfHost(config, s)
  BY <1>1 DEF UsherFits, UsherTypeOK, allHosts
<1> QED
  BY <1>2 DEF s

\* A route leads to a deployment that has a tracker.
LEMMA RoutesAreTracked ==
  ASSUME UsherFits, NEW r, NEW rt \in routeOf(r)
  PROVE  rt.dep \in Trackers /\ routeOf(r) = {rt}
<1>1. monoHost # "" => monoHost \in DOMAIN routes
  BY DEF UsherFits, UsherTypeOK
<1> QED
  BY <1>1 DEF routeOf, Trackers

LEMMA TableStays ==
  ASSUME [UsherNext]_usherVars
  PROVE  /\ UNCHANGED tableVars /\ Trackers' = Trackers /\ hostsOf(config)' = hostsOf(config)
         /\ \A r : routeOf(r)' = routeOf(r)
<1>1. UNCHANGED tableVars
  BY DEF usherVars, UsherNext, RequestStep, UpstreamAnswers, UpstreamFails, BodyTooLarge, ClientGone,
         Arrive, TrackerStep, ResolveStart, ResolveAnswered, ResolveFails, ResolveFailing, StreamEvent,
         Publish, Signal, ServeFails, Stop, Exit, Tick, Quiet
<1> QED
  BY <1>1 DEF tableVars, Trackers, hostsOf, routeOf

LEMMA TableInitially ==
  ASSUME UsherInit
  PROVE  /\ DOMAIN routes = allHosts(config)
         /\ \A s \in hostsOf(config) : routes[hostAt(config, s)] = routeOfHost(config, s)
         /\ monoHost \in DOMAIN routes \union {""} /\ maxBody \in Nat
         /\ Trackers = {config[i].name : i \in DOMAIN config} /\ Trackers \subseteq Dep
         /\ \A s, t \in hostsOf(config) : hostAt(config, s) = hostAt(config, t) => s = t
         /\ phase \in {"serving", "closing", "exited"} /\ code \in {0, 1} /\ polling \subseteq Trackers
<1>1. PICK cfg \in Configs :
        IF validateConfig(cfg) /\ parseMaxBodyBytes(cfg.maxBody) >= 0
        THEN /\ config = cfg.deployments /\ routes = routeTable(config)
             /\ monoHost = IF cfg.mono THEN Lower[cfg.deployments[1].host] ELSE ""
             /\ maxBody = parseMaxBodyBytes(cfg.maxBody)
             /\ phase = "serving" /\ code = 0
             /\ polling = {cfg.deployments[i].name : i \in DOMAIN cfg.deployments}
        ELSE /\ config = << >> /\ routes = << >> /\ monoHost = "" /\ maxBody = 0
             /\ phase = "exited" /\ code = 1 /\ polling = {}
  BY DEF UsherInit
<1>2. CASE validateConfig(cfg) /\ parseMaxBodyBytes(cfg.maxBody) >= 0
  <2>1. /\ config = cfg.deployments /\ routes = routeTable(config) /\ config # << >>
        /\ monoHost = IF cfg.mono THEN Lower[config[1].host] ELSE ""
        /\ \A i \in DOMAIN config : config[i].host # "" /\ config[i].name \in Dep
        /\ \A s, t \in hostsOf(config) : hostAt(config, s) = hostAt(config, t) => s = t
        /\ config \in Seq(ToSet(cfg.deployments))
    BY <1>1, <1>2, UsherAssumption DEF validateConfig, validateDeployments
  <2>2. maxBody \in Nat
    <3>1. maxBody = parseMaxBodyBytes(cfg.maxBody) /\ parseMaxBodyBytes(cfg.maxBody) >= 0
      BY <1>1, <1>2
    <3>2. DefaultMaxBody \in Nat /\ (cfg.maxBody = << >> \/ cfg.maxBody[1] \in Int)
      BY UsherAssumption
    <3>3. parseMaxBodyBytes(cfg.maxBody) \in Int
      BY <3>2 DEF parseMaxBodyBytes
    <3> QED
      BY <3>1, <3>3
  <2>3. DOMAIN routes = allHosts(config)
    BY <2>1 DEF routeTable
  <2>4. ASSUME NEW s \in hostsOf(config)
        PROVE  /\ hostAt(config, s) \in DOMAIN routes
               /\ routes[hostAt(config, s)] = routeOfHost(config, s)
    <3> DEFINE t == CHOOSE t \in hostsOf(config) : hostAt(config, t) = hostAt(config, s)
    <3>1. hostAt(config, s) \in allHosts(config)
      BY DEF allHosts
    <3>2. t = s
      BY <2>1
    <3> HIDE DEF t
    <3>3. routes[hostAt(config, s)] = routeOfHost(config, t)
      BY <2>1, <3>1 DEF routeTable, t
    <3> QED
      BY <2>3, <3>1, <3>2, <3>3
  <2>5. ASSUME NEW i \in DOMAIN config
        PROVE  /\ Lower[config[i].host] \in DOMAIN routes
               /\ routes[Lower[config[i].host]].dep = config[i].name
    <3> DEFINE s == <<i, "host">>
    <3>1. s \in hostsOf(config)
      BY <2>1 DEF hostsOf, hostFields
    <3>2. hostAt(config, s) = Lower[config[i].host] /\ routeOfHost(config, s).dep = config[i].name
      BY DEF hostAt, routeOfHost, Route
    <3> HIDE DEF s
    <3> QED
      BY <2>4, <3>1, <3>2
  <2>6. ASSUME NEW h \in DOMAIN routes
        PROVE  \E i \in DOMAIN config : routes[h].dep = config[i].name
    <3>1. PICK s \in hostsOf(config) : h = hostAt(config, s)
      BY <2>3 DEF allHosts
    <3>2. s[1] \in DOMAIN config
      BY DEF hostsOf
    <3>3. routes[h] = routeOfHost(config, s)
      BY <2>4, <3>1
    <3> QED
      BY <3>2, <3>3 DEF routeOfHost, Route
  <2>7. Trackers = {config[i].name : i \in DOMAIN config}
    BY <2>5, <2>6 DEF Trackers
  <2>8. monoHost \in DOMAIN routes \union {""}
    <3>1. 1 \in DOMAIN config
      <4> DEFINE S == ToSet(cfg.deployments)
      <4>1. config \in Seq(S) /\ config # << >>
        BY <2>1
      <4> HIDE DEF S
      <4> QED
        BY <4>1
    <3> QED
      BY <2>1, <2>5, <3>1
  <2>9. phase = "serving" /\ code = 0 /\ polling = {config[i].name : i \in DOMAIN config}
    BY <1>1, <1>2
  <2>10. Trackers \subseteq Dep
    BY <2>1, <2>7
  <2> QED
    BY <2>1, <2>2, <2>3, <2>4, <2>7, <2>8, <2>9, <2>10
<1>3. CASE ~(validateConfig(cfg) /\ parseMaxBodyBytes(cfg.maxBody) >= 0)
  <2>1. config = << >> /\ routes = << >> /\ monoHost = "" /\ maxBody = 0 /\ polling = {}
    BY <1>1, <1>3
  <2>2. DOMAIN routes = {} /\ DOMAIN config = {}
    <3>1. << >> \in Seq({}) /\ Len(<< >>) = 0
      OBVIOUS
    <3>2. DOMAIN << >> = 1..0 /\ 1..0 = {}
      BY <3>1
    <3> QED
      BY <2>1, <3>2
  <2>3. hostsOf(config) = {}
    BY <2>2 DEF hostsOf
  <2> QED
    BY <1>1, <1>3, <2>1, <2>2, <2>3 DEF allHosts, Trackers
<1> QED
  BY <1>2, <1>3

-----------------------------------------------------------------------------
(* Requests. *)

LEMMA RequestShapes ==
  /\ \A r, a : /\ Answer(r, a).stage = "answered" /\ Answer(r, a).request = r /\ Answer(r, a).answer = a
               /\ "url" \notin DOMAIN Answer(r, a)
  /\ \A r, rt, u : /\ Sent(r, rt, u).stage = "upstream" /\ Sent(r, rt, u).request = r
                   /\ Sent(r, rt, u).dep = rt.dep /\ Sent(r, rt, u).site = rt.site
                   /\ Sent(r, rt, u).url = u
  /\ \A r, rt, u, a : /\ Back(r, rt, u, a).stage = "answered" /\ Back(r, rt, u, a).request = r
                      /\ Back(r, rt, u, a).answer = a /\ Back(r, rt, u, a).dep = rt.dep
                      /\ Back(r, rt, u, a).site = rt.site /\ Back(r, rt, u, a).url = u
  /\ NoRequest.stage = "none" /\ "url" \notin DOMAIN NoRequest
<1>1. ASSUME NEW r, NEW a
      PROVE  /\ Answer(r, a).stage = "answered" /\ Answer(r, a).request = r /\ Answer(r, a).answer = a
             /\ "url" \notin DOMAIN Answer(r, a)
  BY DEF Answer
<1>2. ASSUME NEW r, NEW rt, NEW u
      PROVE  /\ Sent(r, rt, u).stage = "upstream" /\ Sent(r, rt, u).request = r
             /\ Sent(r, rt, u).dep = rt.dep /\ Sent(r, rt, u).site = rt.site
             /\ Sent(r, rt, u).url = u
  BY DEF Sent
<1>3. ASSUME NEW r, NEW rt, NEW u, NEW a
      PROVE  /\ Back(r, rt, u, a).stage = "answered" /\ Back(r, rt, u, a).request = r
             /\ Back(r, rt, u, a).answer = a /\ Back(r, rt, u, a).dep = rt.dep
             /\ Back(r, rt, u, a).site = rt.site /\ Back(r, rt, u, a).url = u
  BY DEF Back
<1>4. NoRequest.stage = "none" /\ "url" \notin DOMAIN NoRequest
  BY DEF NoRequest
<1> QED
  BY <1>1, <1>2, <1>3, <1>4

LEMMA AnswersDiffer == \A r, a, b : Answer(r, a) = Answer(r, b) => a = b
<1> SUFFICES ASSUME NEW r, NEW a, NEW b, Answer(r, a) = Answer(r, b) PROVE a = b
  OBVIOUS
<1> QED
  BY DEF Answer

\* What an answer of usher's own says of the table.
LEMMA OwnAnswerTells ==
  ASSUME NEW f, OwnAnswer(f)
  PROVE  /\ f.stage = "answered" /\ "url" \notin DOMAIN f /\ f.request \in Requests
         /\ (f.answer = "unknown host" => routeOf(f.request) = {})
         /\ (f.answer = "no leader" => routeOf(f.request) # {})
<1>1. ASSUME NEW r \in Requests, NEW a \in Answers, f = Answer(r, a)
      PROVE  f.stage = "answered" /\ "url" \notin DOMAIN f /\ f.request = r /\ f.answer = a
  BY <1>1, RequestShapes
<1> QED
  BY <1>1 DEF OwnAnswer

\* What is known of one that has gone to a backend.
LEMMA ProxiedTells ==
  ASSUME NEW f, Proxied(f)
  PROVE  /\ f.stage \in {"upstream", "answered"}
         /\ f.stage = "answered" => f.answer \in Outcomes
         /\ f.request \in Requests
         /\ \E rt \in routeOf(f.request) : f.dep = rt.dep /\ f.site = rt.site /\ f.url \in Urls[rt.dep]
<1>1. ASSUME NEW r \in Requests, NEW rt \in routeOf(r), NEW u \in Urls[rt.dep], f = Sent(r, rt, u)
      PROVE  /\ f.stage = "upstream" /\ f.request = r
             /\ f.dep = rt.dep /\ f.site = rt.site /\ f.url = u
  BY <1>1, RequestShapes
<1>2. ASSUME NEW r \in Requests, NEW rt \in routeOf(r), NEW u \in Urls[rt.dep], NEW a \in Outcomes,
             f = Back(r, rt, u, a)
      PROVE  /\ f.stage = "answered" /\ f.answer = a /\ f.request = r
             /\ f.dep = rt.dep /\ f.site = rt.site /\ f.url = u
  BY <1>2, RequestShapes
<1>3. ASSUME NEW r \in Requests, NEW rt \in routeOf(r), NEW u \in Urls[rt.dep],
             f = Sent(r, rt, u) \/ \E a \in Outcomes : f = Back(r, rt, u, a)
      PROVE  /\ f.stage \in {"upstream", "answered"}
             /\ f.stage = "answered" => f.answer \in Outcomes
             /\ f.request = r /\ f.dep = rt.dep /\ f.site = rt.site /\ f.url = u
  BY <1>1, <1>2, <1>3
<1> QED
  BY <1>3 DEF Proxied

\* A request is answered by usher itself or goes by its route; a probe is called ready
\* only when every tracker has its leader.
LEMMA MuxAnswers ==
  ASSUME UsherFits, NEW r \in Requests
  PROVE  /\ OwnAnswer(newMux(r)) \/ Proxied(newMux(r))
         /\ r.path = readyzPath /\ newMux(r) = Answer(r, "ok") => Trackers \subseteq resolved
<1>1. CASE routeOf(r) = {}
  <2>1. newMux(r) = serveProbe(r)
    BY <1>1 DEF newMux
  <2>2. \E a \in {"unknown host", "method not allowed", "resolving", "ok"} : serveProbe(r) = Answer(r, a)
    BY DEF serveProbe
  <2>3. OwnAnswer(newMux(r))
    BY <1>1, <2>1, <2>2 DEF OwnAnswer, Answers
  <2>4. r.path = readyzPath /\ serveProbe(r) = Answer(r, "ok") => ready
    BY DEF serveProbe, isProbePath, Answer
  <2> QED
    BY <2>1, <2>3, <2>4 DEF ready
<1>2. CASE routeOf(r) # {}
  <2>1. PICK rt \in routeOf(r) : newMux(r) = serveHTTP(r, rt)
    BY <1>2 DEF newMux
  <2>2. rt.dep \in Dep /\ routed[rt.dep] \in Urls[rt.dep] \union {NoUrl}
    BY RoutesAreTracked DEF UsherFits, LeadersPublished
  <2>3. \/ \E a \in {"not found", "method not allowed", "bad request", "too large", "no leader"} :
             serveHTTP(r, rt) = Answer(r, a)
        \/ routed[rt.dep] # NoUrl /\ serveHTTP(r, rt) = Sent(r, rt, routed[rt.dep])
    BY DEF serveHTTP, Sent
  <2>4. CASE \E a \in {"not found", "method not allowed", "bad request", "too large", "no leader"} :
               serveHTTP(r, rt) = Answer(r, a)
    <3>1. OwnAnswer(newMux(r))
      BY <1>2, <2>1, <2>4 DEF OwnAnswer, Answers
    <3>2. newMux(r) # Answer(r, "ok")
      BY <2>1, <2>4, AnswersDiffer
    <3> QED
      BY <3>1, <3>2
  <2>5. CASE routed[rt.dep] # NoUrl /\ serveHTTP(r, rt) = Sent(r, rt, routed[rt.dep])
    <3>1. Proxied(newMux(r))
      BY <2>1, <2>2, <2>5 DEF Proxied
    <3>2. newMux(r) # Answer(r, "ok")
      BY <2>1, <2>5, RequestShapes
    <3> QED
      BY <3>1, <3>2
  <2> QED
    BY <2>3, <2>4, <2>5
<1> QED
  BY <1>1, <1>2

\* What is known of a request that waits for a backend.
LEMMA Waits ==
  ASSUME UsherFits, NEW c \in Client, inflight[c].stage = "upstream"
  PROVE  \E r \in Requests : \E rt \in routeOf(r) : \E u \in Urls[rt.dep] : inflight[c] = Sent(r, rt, u)
<1>1. inflight[c] # NoRequest
  BY RequestShapes
<1>2. ~OwnAnswer(inflight[c])
  <2>1. ASSUME NEW r \in Requests, NEW a \in Answers, inflight[c] = Answer(r, a)  PROVE FALSE
    BY <2>1 DEF Answer
  <2> QED
    BY <2>1 DEF OwnAnswer
<1>3. Proxied(inflight[c])
  BY <1>1, <1>2 DEF UsherFits, RequestsByTable
<1>4. ASSUME NEW r, NEW rt, NEW u, NEW a, inflight[c] = Back(r, rt, u, a)  PROVE FALSE
  BY <1>4 DEF Back
<1> QED
  BY <1>3, <1>4 DEF Proxied

\* The answer of a backend keeps the route that the request went by.
LEMMA Finished ==
  ASSUME UsherFits, NEW c \in Client, Upstream(c),
         NEW a \in Outcomes, Finish(c, a)
  PROVE  \E f : Proxied(f) /\ inflight' = [inflight EXCEPT ![c] = f]
<1>1. ASSUME NEW r, NEW rt, NEW u, inflight[c] = Sent(r, rt, u)
      PROVE  inflight' = [inflight EXCEPT ![c] = Back(r, rt, u, a)]
  <2>1. inflight[c].request = r /\ inflight[c].dep = rt.dep
    BY <1>1 DEF Sent
  <2>2. inflight[c].site = rt.site /\ inflight[c].url = u
    BY <1>1 DEF Sent
  <2> QED
    BY <2>1, <2>2 DEF Finish, Back
<1>2. \E r \in Requests : \E rt \in routeOf(r) : \E u \in Urls[rt.dep] : inflight[c] = Sent(r, rt, u)
  BY Waits DEF Upstream
<1>3. \A r \in Requests : \A rt \in routeOf(r) : \A u \in Urls[rt.dep] : Proxied(Back(r, rt, u, a))
  BY DEF Proxied
<1> QED
  BY <1>1, <1>2, <1>3

LEMMA RequestsKept ==
  ASSUME UsherFits, [UsherNext]_usherVars
  PROVE  RequestsByTable' /\ inflight' = [c \in Client |-> inflight'[c]]
<1>1. \A r : routeOf(r)' = routeOf(r)
  BY TableStays
<1>2. inflight = [c \in Client |-> inflight[c]]
  BY DEF UsherFits
<1>3. ASSUME NEW d \in Client, NEW f, f = NoRequest \/ OwnAnswer(f) \/ Proxied(f), inflight'[d] = f
      PROVE  (inflight[d] = NoRequest \/ OwnAnswer(inflight[d]) \/ Proxied(inflight[d]))'
  BY <1>1, <1>3 DEF OwnAnswer, Proxied
<1>4. ASSUME NEW c \in Client, NEW f, inflight' = [inflight EXCEPT ![c] = f],
             f = NoRequest \/ OwnAnswer(f) \/ Proxied(f)
      PROVE  RequestsByTable' /\ inflight' = [d \in Client |-> inflight'[d]]
  <2>1. \A d \in Client : inflight'[d] = IF d = c THEN f ELSE inflight[d]
    BY <1>2, <1>4
  <2>2. ASSUME NEW d \in Client
        PROVE  (inflight[d] = NoRequest \/ OwnAnswer(inflight[d]) \/ Proxied(inflight[d]))'
    <3>1. inflight[d] = NoRequest \/ OwnAnswer(inflight[d]) \/ Proxied(inflight[d])
      BY DEF UsherFits, RequestsByTable
    <3>2. inflight'[d] = f \/ inflight'[d] = inflight[d]
      BY <2>1
    <3> QED
      BY <1>3, <1>4, <3>1, <3>2
  <2>3. inflight' = [d \in Client |-> inflight'[d]]
    BY <1>2, <1>4
  <2> QED
    BY <2>2, <2>3 DEF RequestsByTable
<1>5. ASSUME UNCHANGED inflight  PROVE RequestsByTable' /\ inflight' = [d \in Client |-> inflight'[d]]
  <2>1. ASSUME NEW d \in Client
        PROVE  (inflight[d] = NoRequest \/ OwnAnswer(inflight[d]) \/ Proxied(inflight[d]))'
    <3>1. inflight[d] = NoRequest \/ OwnAnswer(inflight[d]) \/ Proxied(inflight[d])
      BY DEF UsherFits, RequestsByTable
    <3> QED
      BY <1>3, <1>5, <3>1
  <2>2. inflight' = [d \in Client |-> inflight'[d]]
    BY <1>2, <1>5
  <2> QED
    BY <2>1, <2>2 DEF RequestsByTable
<1>6. ASSUME NEW c \in Client, NEW a \in Outcomes, Upstream(c), Finish(c, a)
      PROVE  RequestsByTable' /\ inflight' = [d \in Client |-> inflight'[d]]
  BY <1>4, <1>6, Finished
<1>7. ASSUME NEW c \in Client, NEW r \in Requests, Arrive(c, r)
      PROVE  RequestsByTable' /\ inflight' = [d \in Client |-> inflight'[d]]
  <2> DEFINE f == newMux(r)
  <2>1. OwnAnswer(f) \/ Proxied(f)
    BY MuxAnswers
  <2>2. inflight' = [inflight EXCEPT ![c] = f]
    BY <1>7 DEF Arrive
  <2> HIDE DEF f
  <2> QED
    BY <1>4, <2>1, <2>2
<1>8. ASSUME NEW c \in Client, RequestStep(c)
      PROVE  RequestsByTable' /\ inflight' = [d \in Client |-> inflight'[d]]
  <2>1. CASE UpstreamAnswers(c)
    BY <1>6, <2>1 DEF UpstreamAnswers, ModifyResponse, Outcomes
  <2>2. CASE UpstreamFails(c)
    BY <1>6, <2>2 DEF UpstreamFails, Outcomes
  <2>3. CASE BodyTooLarge(c)
    BY <1>6, <2>3 DEF BodyTooLarge, Outcomes
  <2>4. CASE ClientGone(c)
    BY <1>4, <2>4 DEF ClientGone
  <2> QED
    BY <1>8, <2>1, <2>2, <2>3, <2>4 DEF RequestStep
<1>9. CASE \E d \in Dep : TrackerStep(d) \/ \E u \in Urls[d] \union {NoUrl} : Publish(d, u)
  BY <1>5, <1>9 DEF TrackerStep, ResolveStart, ResolveAnswered, ResolveFails, ResolveFailing, StreamEvent, Publish
<1>10. CASE Signal \/ ServeFails \/ Exit \/ Tick \/ UNCHANGED usherVars
  BY <1>5, <1>10 DEF Signal, ServeFails, Stop, Exit, Tick, usherVars
<1> QED
  BY <1>7, <1>8, <1>9, <1>10 DEF UsherNext

-----------------------------------------------------------------------------
(* Trackers and the process. *)

\* Where a waiting request goes has a tracker.
LEMMA WaitsForTracker ==
  ASSUME UsherFits, NEW c \in Client, inflight[c].stage = "upstream"
  PROVE  inflight[c].dep \in Trackers
<1>1. \E r \in Requests : \E rt \in routeOf(r) : \E u \in Urls[rt.dep] : inflight[c] = Sent(r, rt, u)
  BY Waits
<1>2. ASSUME NEW r, NEW rt, NEW u, inflight[c] = Sent(r, rt, u)  PROVE inflight[c].dep = rt.dep
  BY <1>2 DEF Sent
<1>3. \A r : \A rt \in routeOf(r) : rt.dep \in Trackers
  BY RoutesAreTracked
<1> QED
  BY <1>1, <1>2, <1>3

\* What a failing request does to the polls.
LEMMA Nudged ==
  ASSUME UsherFits, NEW d \in Trackers, nudge(d)
  PROVE  /\ \A e \in Dep : pace'[e] \in 0..NudgeInterval
         /\ pace' = [e \in Dep |-> pace'[e]]
         /\ resolveCh' \subseteq Trackers
         /\ \A e \in Dep : pace'[e] > 0 => e \in resolveCh' \/ (pace'[e] = pace[e] /\ e \notin resolveCh)
         /\ resolveCh \subseteq resolveCh'
         /\ d \in resolveCh' \/ pace[d] > 0
<1>1. /\ NudgeInterval \in Nat /\ d \in Dep /\ resolveCh \subseteq Trackers
      /\ \A e \in Dep : pace[e] \in 0..NudgeInterval
      /\ pace = [e \in Dep |-> pace[e]]
  BY UsherAssumption DEF UsherFits, UsherTypeOK
<1>2. CASE pace[d] > 0
  BY <1>1, <1>2 DEF nudge
<1>3. CASE ~(pace[d] > 0)
  <2>1. pace' = [pace EXCEPT ![d] = NudgeInterval] /\ resolveCh' = resolveCh \union {d}
    BY <1>3 DEF nudge
  <2>2. \A e \in Dep : pace'[e] = IF e = d THEN NudgeInterval ELSE pace[e]
    BY <1>1, <2>1
  <2>3. pace' = [e \in Dep |-> pace'[e]]
    BY <1>1, <2>1
  <2> QED
    BY <1>1, <2>1, <2>2, <2>3
<1> QED
  BY <1>2, <1>3

\* The polls that a step of a request asks for, if any.
LEMMA RequestNudges ==
  ASSUME UsherFits, NEW c \in Client, RequestStep(c)
  PROVE  (\E d \in Trackers : nudge(d)) \/ UNCHANGED <<pace, resolveCh>>
<1>1. Upstream(c) => inflight[c].dep \in Trackers
  BY WaitsForTracker DEF Upstream
<1> QED
  BY <1>1 DEF RequestStep, UpstreamAnswers, ModifyResponse, UpstreamFails, BodyTooLarge, ClientGone

\* Steps that concern neither the polls nor their pace.
PaceStands == UNCHANGED <<pace, resolveCh, askedFor>>

LEMMA PaceKept ==
  ASSUME UsherFits, [UsherNext]_usherVars
  PROVE  /\ PaceCovered' /\ (\A d \in Dep : pace'[d] \in 0..NudgeInterval)
         /\ pace' = [d \in Dep |-> pace'[d]] /\ askedFor' = [d \in Dep |-> askedFor'[d]]
         /\ resolveCh' \subseteq Trackers
<1>1. /\ NudgeInterval \in Nat /\ resolveCh \subseteq Trackers
      /\ \A d \in Dep : pace[d] \in 0..NudgeInterval /\ askedFor[d] \in 0..NudgeInterval
      /\ \A d \in Dep : pace[d] > 0 => d \in resolveCh \/ askedFor[d] + pace[d] <= NudgeInterval
      /\ pace = [d \in Dep |-> pace[d]] /\ askedFor = [d \in Dep |-> askedFor[d]]
  BY UsherAssumption DEF UsherFits, UsherTypeOK, PaceCovered
<1>2. CASE PaceStands
  BY <1>1, <1>2 DEF PaceStands, PaceCovered
<1>3. CASE \E c \in Client : RequestStep(c)
  <2>1. UNCHANGED askedFor
    BY <1>3 DEF RequestStep, UpstreamAnswers, UpstreamFails, BodyTooLarge, ClientGone, Quiet
  <2>2. CASE \E d \in Trackers : nudge(d)
    BY <1>1, <2>1, <2>2, Nudged DEF PaceCovered
  <2>3. CASE UNCHANGED <<pace, resolveCh>>
    BY <1>2, <2>1, <2>3 DEF PaceStands
  <2> QED
    BY <1>3, <2>2, <2>3, RequestNudges
<1>4. ASSUME NEW d \in Dep, ResolveStart(d)
      PROVE  /\ PaceCovered' /\ (\A e \in Dep : pace'[e] \in 0..NudgeInterval)
             /\ pace' = [e \in Dep |-> pace'[e]] /\ askedFor' = [e \in Dep |-> askedFor'[e]]
             /\ resolveCh' \subseteq Trackers
  <2>1. /\ resolveCh' \in {resolveCh \ {d}, resolveCh} /\ UNCHANGED pace
        /\ askedFor' = [askedFor EXCEPT ![d] = 0]
    BY <1>4 DEF ResolveStart
  <2>2. \A e \in Dep : askedFor'[e] = IF e = d THEN 0 ELSE askedFor[e]
    BY <1>1, <2>1
  <2>3. askedFor' = [e \in Dep |-> askedFor'[e]]
    BY <1>1, <2>1
  <2>4. PaceCovered'
    BY <1>1, <2>1, <2>2 DEF PaceCovered
  <2> QED
    BY <1>1, <2>1, <2>3, <2>4
<1>5. CASE Tick
  <2>1. /\ pace' = [d \in Dep |-> IF pace[d] > 0 THEN pace[d] - 1 ELSE 0] /\ UNCHANGED resolveCh
        /\ askedFor' = [d \in Dep |-> IF askedFor[d] < NudgeInterval /\ d \in Trackers
                                      THEN askedFor[d] + 1 ELSE askedFor[d]]
    BY <1>5 DEF Tick
  <2>2. \A d \in Dep : /\ pace'[d] = IF pace[d] > 0 THEN pace[d] - 1 ELSE 0
                       /\ askedFor'[d] \in {askedFor[d], askedFor[d] + 1}
                       /\ askedFor'[d] # askedFor[d] => askedFor[d] < NudgeInterval
    BY <2>1
  <2>3. PaceCovered' /\ (\A d \in Dep : pace'[d] \in 0..NudgeInterval)
    BY <1>1, <2>1, <2>2 DEF PaceCovered
  <2>4. pace' = [d \in Dep |-> pace'[d]] /\ askedFor' = [d \in Dep |-> askedFor'[d]]
    BY <2>1
  <2> QED
    BY <1>1, <2>1, <2>3, <2>4
<1>6. CASE \E c \in Client, r \in Requests : Arrive(c, r)
  BY <1>2, <1>6 DEF Arrive, trackerVars, PaceStands
<1>7. ASSUME NEW d \in Dep, (TrackerStep(d) /\ ~ResolveStart(d)) \/ \E u \in Urls[d] \union {NoUrl} : Publish(d, u)
      PROVE  PaceStands
  BY <1>7 DEF TrackerStep, ResolveAnswered, ResolveFails, ResolveFailing, StreamEvent, Publish, trackerVars,
              PaceStands
<1>8. CASE Signal \/ ServeFails \/ Exit \/ UNCHANGED usherVars
  BY <1>2, <1>8 DEF Signal, ServeFails, Stop, Exit, usherVars, trackerVars, PaceStands
<1> QED
  BY <1>2, <1>3, <1>4, <1>5, <1>6, <1>7, <1>8 DEF UsherNext

LEMMA LeadersKept ==
  ASSUME UsherFits, [UsherNext]_usherVars
  PROVE  /\ LeadersPublished'
         /\ announced' = [d \in Dep |-> announced'[d]] /\ routed' = [d \in Dep |-> routed'[d]]
         /\ resolved' \subseteq Trackers /\ polling' \subseteq Trackers
<1>1. /\ announced = [d \in Dep |-> announced[d]] /\ routed = [d \in Dep |-> routed[d]]
      /\ resolved \subseteq Trackers /\ polling \subseteq Trackers /\ Trackers \subseteq Dep
      /\ LeadersPublished /\ Trackers' = Trackers
      /\ \A d \in Dep : Unpublished \notin Urls[d] \union {NoUrl}
  BY TableStays, UsherAssumption DEF UsherFits, UsherTypeOK
<1>2. CASE UNCHANGED <<announced, routed, resolved, polling, cleared, saidReady>>
  BY <1>1, <1>2 DEF LeadersPublished
<1>3. ASSUME NEW c \in Client, NEW r \in Requests, Arrive(c, r)
      PROVE  LeadersPublished' /\ UNCHANGED <<announced, routed, resolved, polling>>
  <2>1. /\ UNCHANGED <<announced, routed, resolved, polling, cleared>>
        /\ saidReady' = (saidReady \/ (r.path = readyzPath /\ newMux(r) = Answer(r, "ok")))
    BY <1>3 DEF Arrive, trackerVars, worldVars
  <2> QED
    BY <1>1, <2>1, MuxAnswers DEF LeadersPublished
<1>4. CASE \E c \in Client : RequestStep(c)
  BY <1>2, <1>4 DEF RequestStep, UpstreamAnswers, UpstreamFails, BodyTooLarge, ClientGone, Quiet, worldVars
<1>5. ASSUME NEW d \in Dep, ResolveStart(d) \/ ResolveFails(d)
      PROVE  LeadersPublished' /\ UNCHANGED <<announced, routed, resolved>> /\ polling' \subseteq Trackers
  <2>1. UNCHANGED <<announced, routed, resolved, cleared, saidReady>> /\ polling' \subseteq Trackers
    BY <1>1, <1>5 DEF ResolveStart, ResolveFails, ResolveFailing, worldVars
  <2> QED
    BY <1>1, <2>1 DEF LeadersPublished
<1>6. ASSUME NEW d \in Dep, ResolveAnswered(d) \/ StreamEvent(d)
      PROVE  /\ LeadersPublished' /\ UNCHANGED announced /\ routed' = [e \in Dep |-> routed'[e]]
             /\ resolved' \subseteq Trackers /\ polling' \subseteq Trackers
  <2>1. /\ UNCHANGED <<announced, cleared, saidReady>> /\ routed' = [routed EXCEPT ![d] = announced[d]]
        /\ announced[d] # Unpublished /\ d \in Trackers
        /\ resolved' \subseteq resolved \union {d} /\ resolved \subseteq resolved'
        /\ polling' \subseteq polling
    BY <1>1, <1>6 DEF ResolveAnswered, StreamEvent, Apply, worldVars, LeadersPublished
  <2>2. \A e \in Dep : routed'[e] = IF e = d THEN announced[d] ELSE routed[e]
    BY <1>1, <2>1
  <2>3. routed' = [e \in Dep |-> routed'[e]]
    BY <1>1, <2>1
  <2>4. LeadersPublished'
    BY <1>1, <2>1, <2>2 DEF LeadersPublished
  <2> QED
    BY <1>1, <2>1, <2>3, <2>4
<1>7. ASSUME NEW d \in Dep, NEW u \in Urls[d] \union {NoUrl}, Publish(d, u)
      PROVE  /\ LeadersPublished' /\ UNCHANGED <<routed, resolved, polling>>
             /\ announced' = [e \in Dep |-> announced'[e]]
  <2>1. /\ UNCHANGED <<routed, resolved, polling, saidReady>> /\ announced' = [announced EXCEPT ![d] = u]
        /\ cleared' = IF u = NoUrl THEN cleared \union {d} ELSE cleared
    BY <1>7 DEF Publish, trackerVars
  <2>2. \A e \in Dep : announced'[e] = IF e = d THEN u ELSE announced[e]
    BY <1>1, <2>1
  <2>3. announced' = [e \in Dep |-> announced'[e]]
    BY <1>1, <2>1
  <2>4. LeadersPublished'
    BY <1>1, <2>1, <2>2 DEF LeadersPublished
  <2> QED
    BY <2>1, <2>3, <2>4
<1>8. CASE Signal \/ ServeFails \/ Exit \/ Tick \/ UNCHANGED usherVars
  BY <1>2, <1>8 DEF Signal, ServeFails, Stop, Exit, Tick, usherVars, trackerVars, worldVars
<1> QED
  BY <1>1, <1>3, <1>4, <1>5, <1>6, <1>7, <1>8 DEF UsherNext, TrackerStep

LEMMA ProcessKept ==
  ASSUME UsherFits, [UsherNext]_usherVars
  PROVE  /\ phase' \in {"serving", "closing", "exited"} /\ code' \in {0, 1}
         /\ waited' \in 0..ShutdownTimeout
<1>1. /\ phase \in {"serving", "closing", "exited"} /\ code \in {0, 1} /\ waited \in 0..ShutdownTimeout
      /\ ShutdownTimeout \in Nat
  BY UsherAssumption DEF UsherFits, UsherTypeOK
<1>2. CASE Tick
  BY <1>1, <1>2 DEF Tick
<1>3. CASE Exit \/ Signal \/ ServeFails
  BY <1>1, <1>3 DEF Exit, Signal, ServeFails, Stop
<1>4. CASE \E c \in Client : RequestStep(c) \/ \E r \in Requests : Arrive(c, r)
  BY <1>1, <1>4 DEF RequestStep, UpstreamAnswers, UpstreamFails, BodyTooLarge, ClientGone, Quiet, Arrive, processVars
<1>5. CASE \E d \in Dep : TrackerStep(d) \/ \E u \in Urls[d] \union {NoUrl} : Publish(d, u)
  BY <1>1, <1>5 DEF TrackerStep, ResolveStart, ResolveAnswered, ResolveFails, ResolveFailing, StreamEvent, Publish,
                    processVars
<1>6. CASE UNCHANGED usherVars
  BY <1>1, <1>6 DEF usherVars, processVars
<1> QED
  BY <1>2, <1>3, <1>4, <1>5, <1>6 DEF UsherNext

-----------------------------------------------------------------------------
(* Theorems. *)

LEMMA UsherFitsInitially == UsherInit => UsherFits
<1> SUFFICES ASSUME UsherInit PROVE UsherFits
  OBVIOUS
<1>1. /\ waited = 0 /\ announced = [d \in Dep |-> Unpublished] /\ routed = [d \in Dep |-> NoUrl]
      /\ resolved = {} /\ resolveCh = {} /\ pace = [d \in Dep |-> 0] /\ askedFor = [d \in Dep |-> 0]
      /\ inflight = [c \in Client |-> NoRequest] /\ saidReady = FALSE
  BY DEF UsherInit
<1>2. ShutdownTimeout \in Nat /\ NudgeInterval \in Nat /\ \A d \in Dep : Unpublished \notin Urls[d] \union {NoUrl}
  BY UsherAssumption
<1>3. UsherTypeOK
  <2>1. \A c \in Client : inflight[c].stage \in {"none", "upstream", "answered"}
    BY <1>1, RequestShapes
  <2>2. \A d \in Dep : routed[d] \in Urls[d] \union {NoUrl} /\ pace[d] \in 0..NudgeInterval
    BY <1>1, <1>2
  <2>3. waited \in 0..ShutdownTimeout /\ resolved \subseteq Trackers /\ resolveCh \subseteq Trackers
    BY <1>1, <1>2
  <2> QED
    BY <2>1, <2>2, <2>3, TableInitially DEF UsherTypeOK
<1>4. RequestsByTable
  BY <1>1 DEF RequestsByTable
<1>5. LeadersPublished
  BY <1>1, <1>2 DEF LeadersPublished
<1>6. PaceCovered
  BY <1>1, <1>2 DEF PaceCovered
<1> QED
  BY <1>1, <1>3, <1>4, <1>5, <1>6, TableInitially DEF UsherFits

LEMMA StagesKnown == RequestsByTable => \A c \in Client : inflight[c].stage \in {"none", "upstream", "answered"}
<1> SUFFICES ASSUME RequestsByTable, NEW c \in Client
             PROVE  inflight[c].stage \in {"none", "upstream", "answered"}
  OBVIOUS
<1>1. CASE inflight[c] = NoRequest
  BY <1>1, RequestShapes
<1>2. CASE OwnAnswer(inflight[c])
  BY <1>2, OwnAnswerTells
<1>3. CASE Proxied(inflight[c])
  BY <1>3, ProxiedTells
<1> QED
  BY <1>1, <1>2, <1>3 DEF RequestsByTable

LEMMA StepKeepsUsher == UsherFits /\ [UsherNext]_usherVars => UsherFits'
<1> SUFFICES ASSUME UsherFits, [UsherNext]_usherVars PROVE UsherFits'
  OBVIOUS
<1>1. /\ UNCHANGED tableVars /\ Trackers' = Trackers /\ hostsOf(config)' = hostsOf(config)
  BY TableStays
<1>2. (RequestsByTable => \A c \in Client : inflight[c].stage \in {"none", "upstream", "answered"})'
  BY StagesKnown, PTL
<1>3. UsherTypeOK'
  BY <1>1, <1>2, RequestsKept, PaceKept, LeadersKept, ProcessKept DEF UsherFits, UsherTypeOK, tableVars, LeadersPublished
<1> QED
  BY <1>1, <1>3, RequestsKept, PaceKept, LeadersKept DEF UsherFits, tableVars

LEMMA UsherFitsAlways == UsherSpec => []UsherFits
  BY UsherFitsInitially, StepKeepsUsher, PTL DEF UsherSpec

\* A request for a host of the configuration has the route of that field.
LEMMA NamedHasRoute ==
  ASSUME UsherFits, NEW r, NEW i \in DOMAIN config, NEW field \in hostFields,
         config[i][field] # "", Lower[r.host.base] = Lower[config[i][field]]
  PROVE  routeOf(r) = {routeOfHost(config, <<i, field>>)}
  BY HostsHaveRoutes DEF routeOf

LEMMA UsherFitsTells == UsherFits => UsherInv
<1> SUFFICES ASSUME UsherFits PROVE UsherInv
  OBVIOUS
<1>1. ASSUME NEW c \in Client
      PROVE  inflight[c] = NoRequest \/ OwnAnswer(inflight[c]) \/ Proxied(inflight[c])
  BY DEF UsherFits, RequestsByTable
<1>2. ASSUME NEW c \in Client, NEW i \in DOMAIN config, NEW field \in hostFields,
             config[i][field] # "", inflight[c].stage # "none",
             Lower[inflight[c].request.host.base] = Lower[config[i][field]]
      PROVE  /\ inflight[c].stage = "answered" => inflight[c].answer # "unknown host"
             /\ "url" \in DOMAIN inflight[c] =>
                  /\ inflight[c].url \in Urls[config[i].name]
                  /\ inflight[c].site <=> field = "siteHost"
  <2>1. routeOf(inflight[c].request) = {routeOfHost(config, <<i, field>>)}
    BY <1>2, NamedHasRoute
  <2>2. /\ routeOfHost(config, <<i, field>>).dep = config[i].name
        /\ routeOfHost(config, <<i, field>>).site = (field = "siteHost")
    BY DEF routeOfHost, Route
  <2>3. inflight[c] # NoRequest
    BY <1>2, RequestShapes
  <2>4. CASE OwnAnswer(inflight[c])
    BY <2>1, <2>4, OwnAnswerTells
  <2>5. CASE Proxied(inflight[c])
    <3>1. /\ inflight[c].stage = "answered" => inflight[c].answer \in Outcomes
          /\ inflight[c].site = (field = "siteHost") /\ inflight[c].url \in Urls[config[i].name]
      BY <2>1, <2>2, <2>5, ProxiedTells
    <3> QED
      BY <3>1 DEF Outcomes
  <2> QED
    BY <1>1, <2>3, <2>4, <2>5
<1>3. \A i \in DOMAIN config : /\ config[i].host = config[i]["host"]
                               /\ config[i].siteHost = config[i]["siteHost"]
  OBVIOUS
<1>4. ASSUME NEW i \in DOMAIN config, config[i].host # "", config[i].siteHost # ""
      PROVE  Lower[config[i].host] # Lower[config[i].siteHost]
  <2> DEFINE s == <<i, "host">>
             t == <<i, "siteHost">>
  <2>1. s \in hostsOf(config) /\ t \in hostsOf(config)
    BY <1>3, <1>4 DEF hostsOf, hostFields
  <2>2. hostAt(config, s) = Lower[config[i].host] /\ hostAt(config, t) = Lower[config[i].siteHost] /\ s # t
    BY <1>3 DEF hostAt
  <2> HIDE DEF s, t
  <2> QED
    BY <2>1, <2>2 DEF UsherFits
<1>5. RightDeployment
  <2> SUFFICES ASSUME NEW c \in Client, NEW i \in DOMAIN config
               PROVE  LET Named(h) == h # "" /\ inflight[c].stage # "none"
                                      /\ Lower[inflight[c].request.host.base] = Lower[h]
                      IN  Named(config[i].host) \/ Named(config[i].siteHost) =>
                            /\ inflight[c].stage = "answered" => inflight[c].answer # "unknown host"
                            /\ "url" \in DOMAIN inflight[c] =>
                                 /\ inflight[c].url \in Urls[config[i].name]
                                 /\ inflight[c].site <=> Named(config[i].siteHost)
    BY DEF RightDeployment
  <2> DEFINE Named(h) == h # "" /\ inflight[c].stage # "none"
                         /\ Lower[inflight[c].request.host.base] = Lower[h]
  <2>1. ~(Named(config[i].host) /\ Named(config[i].siteHost))
    BY <1>4
  <2>2. CASE Named(config[i].host)
    <3>1. /\ inflight[c].stage = "answered" => inflight[c].answer # "unknown host"
          /\ "url" \in DOMAIN inflight[c] => inflight[c].url \in Urls[config[i].name] /\ ~inflight[c].site
      BY <1>2, <1>3, <2>2 DEF hostFields
    <3> QED
      BY <2>1, <2>2, <3>1
  <2>3. CASE Named(config[i].siteHost)
    <3>1. /\ inflight[c].stage = "answered" => inflight[c].answer # "unknown host"
          /\ "url" \in DOMAIN inflight[c] => inflight[c].url \in Urls[config[i].name] /\ inflight[c].site
      BY <1>2, <1>3, <2>3 DEF hostFields
    <3> QED
      BY <2>3, <3>1
  <2> QED
    BY <2>2, <2>3
<1>6. ProbesAnswered
  <2> SUFFICES ASSUME NEW c \in Client, inflight[c].stage # "none", isProbePath(inflight[c].request.path),
                      Lower[inflight[c].request.host.base] \notin DOMAIN routes
               PROVE  /\ inflight[c].stage = "answered" /\ "url" \notin DOMAIN inflight[c]
                      /\ inflight[c].answer # "no leader"
    BY DEF ProbesAnswered
  <2>1. routeOf(inflight[c].request) = {}
    BY DEF routeOf
  <2>2. inflight[c] # NoRequest
    BY RequestShapes
  <2>3. ~Proxied(inflight[c])
    BY <2>1, ProxiedTells
  <2>4. OwnAnswer(inflight[c])
    BY <1>1, <2>2, <2>3
  <2> QED
    BY <2>1, <2>4, OwnAnswerTells
<1> QED
  BY <1>5, <1>6 DEF UsherInv, UsherFits

\* Every host of every accepted configuration keeps its route, and every request goes
\* by it, to the backends of its own deployment or, for a probe, to usher itself,
\* whatever leaders come and go while it is under way (run, newMux, currentLeader).
THEOREM UsherInvariance == UsherSpec => []UsherInv
  BY UsherFitsAlways, UsherFitsTells, PTL

\* An usher that has called itself ready lacks a leader only for a deployment that
\* bigbrain has published as having none (serveProbe, resolveOnce, applyLeader).
THEOREM ReadyIsSure == UsherSpec => []ReadyNeverGuesses
<1>1. UsherFits => ReadyNeverGuesses
  BY DEF UsherFits, LeadersPublished, ReadyNeverGuesses
<1> QED
  BY <1>1, UsherFitsAlways, PTL

\* Only a step of its own changes a request that waits for a backend.
LEMMA OthersWait ==
  ASSUME UsherFits, UsherNext, NEW c \in Client, inflight[c].stage = "upstream", inflight'[c] # inflight[c]
  PROVE  RequestStep(c)
<1>1. inflight = [d \in Client |-> inflight[d]]
  BY DEF UsherFits
<1>2. ASSUME NEW d \in Client, RequestStep(d)  PROVE d = c
  <2>1. ASSUME NEW f, inflight' = [inflight EXCEPT ![d] = f]  PROVE d = c
    BY <1>1, <2>1
  <2>2. ASSUME NEW a, Finish(d, a)  PROVE d = c
    BY <2>1, <2>2 DEF Finish
  <2> QED
    BY <1>2, <2>1, <2>2 DEF RequestStep, UpstreamAnswers, ModifyResponse, UpstreamFails, BodyTooLarge, ClientGone
<1>3. ASSUME NEW d \in Client, NEW r \in Requests, Arrive(d, r)  PROVE FALSE
  BY <1>1, <1>3 DEF Arrive
<1>4. ~\E d \in Dep : TrackerStep(d) \/ \E u \in Urls[d] \union {NoUrl} : Publish(d, u)
  BY DEF TrackerStep, ResolveStart, ResolveAnswered, ResolveFails, ResolveFailing, StreamEvent, Publish
<1>5. ~(Signal \/ ServeFails \/ Exit \/ Tick)
  BY DEF Signal, ServeFails, Stop, Exit, Tick
<1> QED
  BY <1>2, <1>3, <1>4, <1>5 DEF UsherNext

\* A request that is told to try again has nudged its tracker.
LEMMA RetryNudges ==
  ASSUME UsherFits, NEW c \in Client, RequestStep(c),
         inflight'[c].stage = "answered", inflight'[c].answer = "retry"
  PROVE  nudge(inflight[c].dep)
<1>1. inflight = [d \in Client |-> inflight[d]]
  BY DEF UsherFits
<1>2. ASSUME NEW a, Finish(c, a)  PROVE inflight'[c].answer = a
  BY <1>1, <1>2 DEF Finish
<1>3. CASE UpstreamAnswers(c)
  BY <1>2, <1>3 DEF UpstreamAnswers, ModifyResponse
<1>4. CASE UpstreamFails(c)
  BY <1>4 DEF UpstreamFails
<1>5. CASE BodyTooLarge(c)
  BY <1>2, <1>5 DEF BodyTooLarge
<1>6. CASE ClientGone(c)
  BY <1>1, <1>6, RequestShapes DEF ClientGone
<1> QED
  BY <1>3, <1>4, <1>5, <1>6 DEF RequestStep

\* No request is turned away for a stale leader without a poll to come or one begun
\* within the interval: the pacing of polls loses no failure (nudgeResolve).
THEOREM FailuresLeadToPolls == UsherSpec => FailuresAreAsked
<1>1. ASSUME UsherFits, [UsherNext]_usherVars, NEW c \in Client, inflight[c].stage = "upstream",
             inflight'[c].stage = "answered", inflight'[c].answer = "retry"
      PROVE  inflight[c].dep \in resolveCh' \/ askedFor[inflight[c].dep] < NudgeInterval
  <2> DEFINE d == inflight[c].dep
  <2>1. inflight'[c] # inflight[c]
    BY <1>1
  <2>2. UsherNext
    BY <1>1, <2>1 DEF usherVars
  <2>3. nudge(d)
    BY <1>1, <2>1, <2>2, OthersWait, RetryNudges
  <2>4. d \in Trackers /\ d \in Dep
    BY <1>1, WaitsForTracker DEF UsherFits
  <2>5. pace[d] \in Nat /\ askedFor[d] \in Nat /\ NudgeInterval \in Nat
    <3>1. NudgeInterval \in Nat
      BY UsherAssumption
    <3>2. \A e \in Dep : pace[e] \in 0..NudgeInterval /\ askedFor[e] \in 0..NudgeInterval
      BY <1>1 DEF UsherFits, UsherTypeOK, PaceCovered
    <3> HIDE DEF d
    <3> QED
      BY <2>4, <3>1, <3>2
  <2> HIDE DEF d
  <2>6. /\ d \in resolveCh' \/ pace[d] > 0
        /\ resolveCh \subseteq resolveCh'
    BY <1>1, <2>3, <2>4, Nudged
  <2>7. pace[d] > 0 => d \in resolveCh \/ askedFor[d] + pace[d] <= NudgeInterval
    BY <1>1, <2>4 DEF UsherFits, PaceCovered
  <2>8. d \in resolveCh' \/ askedFor[d] < NudgeInterval
    BY <2>5, <2>6, <2>7
  <2> QED
    BY <2>8 DEF d
<1>2. UsherFits /\ [UsherNext]_usherVars =>
        [\A c \in Client :
           inflight[c].stage = "upstream" /\ inflight'[c].stage = "answered" /\ inflight'[c].answer = "retry" =>
             inflight[c].dep \in resolveCh' \/ askedFor[inflight[c].dep] < NudgeInterval]_usherVars
  BY <1>1
<1> QED
  BY <1>2, UsherFitsAlways, PTL DEF UsherSpec, FailuresAreAsked
=============================================================================
