----------------------------- MODULE UsageProofs -----------------------------
(***************************************************************************)
(* The usage forwarder keeps its counts, its order and its bound on the    *)
(* copies, and loses no batch that it does not count, for every set of     *)
(* batches and every limit.                                                *)
(***************************************************************************)
EXTENDS UsageForwarder, FiniteSetTheorems, SequenceTheorems, TLAPS

-----------------------------------------------------------------------------
(* Sequences and what they hold. *)

LEMMA HoldsConcat ==
  ASSUME NEW S, NEW s \in Seq(S), NEW t \in Seq(S)
  PROVE  ToSet(s \o t) = ToSet(s) \union ToSet(t)
<1>1. /\ Len(s \o t) = Len(s) + Len(t) /\ DOMAIN (s \o t) = 1..(Len(s) + Len(t))
      /\ \A i \in 1..(Len(s) + Len(t)) : (s \o t)[i] = IF i <= Len(s) THEN s[i] ELSE t[i - Len(s)]
      /\ Len(s) \in Nat /\ Len(t) \in Nat /\ DOMAIN s = 1..Len(s) /\ DOMAIN t = 1..Len(t)
  BY ConcatProperties, LenProperties
<1>2. \A i \in DOMAIN t : i + Len(s) \in DOMAIN (s \o t) /\ (s \o t)[i + Len(s)] = t[i]
  BY <1>1
<1>3. \A i \in DOMAIN s : i \in DOMAIN (s \o t) /\ (s \o t)[i] = s[i]
  BY <1>1
<1>4. \A i \in DOMAIN (s \o t) : (i \in DOMAIN s /\ (s \o t)[i] = s[i])
                              \/ (i - Len(s) \in DOMAIN t /\ (s \o t)[i] = t[i - Len(s)])
  BY <1>1
<1>5. \A x : x \in ToSet(s \o t) <=> x \in ToSet(s) \/ x \in ToSet(t)
  <2> HIDE <1>1
  <2> TAKE x
  <2>1. ASSUME x \in ToSet(s \o t) PROVE x \in ToSet(s) \/ x \in ToSet(t)
    <3>1. PICK i \in DOMAIN (s \o t) : (s \o t)[i] = x
      BY <2>1 DEF ToSet
    <3> QED
      BY <3>1, <1>4 DEF ToSet
  <2>2. ASSUME x \in ToSet(s) PROVE x \in ToSet(s \o t)
    BY <2>2, <1>3 DEF ToSet
  <2>3. ASSUME x \in ToSet(t) PROVE x \in ToSet(s \o t)
    BY <2>3, <1>2 DEF ToSet
  <2> QED
    BY <2>1, <2>2, <2>3
<1> QED
  BY <1>5

LEMMA HoldsOne ==
  ASSUME NEW S, NEW e \in S
  PROVE  <<e>> \in Seq(S) /\ Len(<<e>>) = 1 /\ ToSet(<<e>>) = {e} /\ ToSet(<<>>) = {}
BY DEF ToSet

LEMMA HoldsOneMore ==
  ASSUME NEW S, NEW s \in Seq(S), NEW e \in S
  PROVE  s \o <<e>> \in Seq(S) /\ ToSet(s \o <<e>>) = ToSet(s) \union {e}
<1> DEFINE one == <<e>>
<1>1. one \in Seq(S) /\ ToSet(one) = {e}
  BY HoldsOne
<1> HIDE DEF one
<1>2. s \o one \in Seq(S) /\ ToSet(s \o one) = ToSet(s) \union {e}
  BY <1>1, HoldsConcat, ConcatProperties
<1> QED
  BY <1>2 DEF one

LEMMA HoldsHeadTail ==
  ASSUME NEW S, NEW s \in Seq(S), s # <<>>
  PROVE  /\ s = <<Head(s)>> \o Tail(s) /\ Head(s) \in S /\ Tail(s) \in Seq(S)
         /\ Len(s) = Len(Tail(s)) + 1 /\ Len(Tail(s)) \in Nat
         /\ ToSet(s) = {Head(s)} \union ToSet(Tail(s))
<1>1. Head(s) \in S /\ Tail(s) \in Seq(S) /\ Len(s) = Len(Tail(s)) + 1 /\ Len(Tail(s)) \in Nat
  BY HeadTailProperties, LenProperties
<1>2. s = <<Head(s)>> \o Tail(s)
  BY <1>1
<1>3. <<Head(s)>> \in Seq(S) /\ ToSet(<<Head(s)>>) = {Head(s)}
  BY <1>1, HoldsOne
<1>4. ToSet(<<Head(s)>> \o Tail(s)) = {Head(s)} \union ToSet(Tail(s))
  <2> DEFINE first == <<Head(s)>>
             rest == Tail(s)
  <2>1. first \in Seq(S) /\ rest \in Seq(S) /\ ToSet(first) = {Head(s)}
    BY <1>1, <1>3
  <2> HIDE DEF first, rest
  <2>2. ToSet(first \o rest) = ToSet(first) \union ToSet(rest)
    BY <2>1, HoldsConcat
  <2> QED
    BY <2>1, <2>2 DEF first, rest
<1> QED
  BY <1>1, <1>2, <1>4

LEMMA HoldsNoMore ==
  ASSUME NEW S, NEW s \in Seq(S)
  PROVE  /\ IsFiniteSet(ToSet(s)) /\ Cardinality(ToSet(s)) \in Nat
         /\ Cardinality(ToSet(s)) <= Len(s) /\ ToSet(s) \subseteq S
<1>1. s \in Surjection(1..Len(s), ToSet(s)) /\ Len(s) \in Nat
  BY LenProperties DEF Surjection, ToSet
<1>2. IsFiniteSet(1..Len(s)) /\ Cardinality(1..Len(s)) = Len(s)
  <2>1. 1 \in Int /\ Len(s) \in Int /\ (1 > Len(s) => Len(s) = 0) /\ Len(s) - 1 + 1 = Len(s)
    BY <1>1
  <2> QED
    BY <2>1, FS_Interval
<1>3. IsFiniteSet(ToSet(s)) /\ Cardinality(ToSet(s)) <= Len(s)
  BY <1>1, <1>2, FS_Surjection
<1> QED
  BY <1>3, FS_CardinalityType, LenProperties DEF ToSet

\* A part of a sequence without repetition repeats nothing.
LEMMA PartInjective ==
  ASSUME NEW S, NEW s \in Seq(S), NEW t \in Seq(S), NEW u \in Seq(S), IsInjective(s \o (t \o u))
  PROVE  IsInjective(t) /\ ToSet(t) \intersect ToSet(u) = {} /\ ToSet(t \o u) \intersect ToSet(s) = {}
<1>1. /\ Len(s) \in Nat /\ Len(t) \in Nat /\ Len(u) \in Nat
      /\ DOMAIN s = 1..Len(s) /\ DOMAIN t = 1..Len(t) /\ DOMAIN u = 1..Len(u)
      /\ t \o u \in Seq(S)
  BY LenProperties
<1> DEFINE all == s \o (t \o u)
<1>2. /\ DOMAIN all = 1..(Len(s) + Len(t) + Len(u))
      /\ \A i \in DOMAIN s : all[i] = s[i]
      /\ \A i \in DOMAIN t : all[i + Len(s)] = t[i]
      /\ \A i \in DOMAIN u : all[i + (Len(s) + Len(t))] = u[i]
  BY <1>1
<1>3. \A i, j \in DOMAIN all : all[i] = all[j] => i = j
  BY DEF IsInjective
<1> HIDE DEF all
<1>4. IsInjective(t)
  <2> SUFFICES ASSUME NEW i \in DOMAIN t, NEW j \in DOMAIN t, t[i] = t[j]
               PROVE  i = j
    BY DEF IsInjective
  <2>1. i + Len(s) \in DOMAIN all /\ j + Len(s) \in DOMAIN all
    BY <1>1, <1>2
  <2> QED
    BY <1>1, <1>2, <1>3, <2>1
<1>5. \A i \in DOMAIN t, j \in DOMAIN u : t[i] # u[j]
  <2> SUFFICES ASSUME NEW i \in DOMAIN t, NEW j \in DOMAIN u, t[i] = u[j]
               PROVE  FALSE
    OBVIOUS
  <2>1. i + Len(s) \in DOMAIN all /\ j + (Len(s) + Len(t)) \in DOMAIN all
    BY <1>1, <1>2
  <2>2. i + Len(s) = j + (Len(s) + Len(t))
    BY <1>2, <1>3, <2>1
  <2> QED
    BY <1>1, <2>2
<1>6. \A i \in DOMAIN s, j \in DOMAIN t : s[i] # t[j]
  <2> SUFFICES ASSUME NEW i \in DOMAIN s, NEW j \in DOMAIN t, s[i] = t[j]
               PROVE  FALSE
    OBVIOUS
  <2>1. i \in DOMAIN all /\ j + Len(s) \in DOMAIN all
    BY <1>1, <1>2
  <2>2. i = j + Len(s)
    BY <1>2, <1>3, <2>1
  <2> QED
    BY <1>1, <2>2
<1>7. \A i \in DOMAIN s, j \in DOMAIN u : s[i] # u[j]
  <2> SUFFICES ASSUME NEW i \in DOMAIN s, NEW j \in DOMAIN u, s[i] = u[j]
               PROVE  FALSE
    OBVIOUS
  <2>1. i \in DOMAIN all /\ j + (Len(s) + Len(t)) \in DOMAIN all
    BY <1>1, <1>2
  <2>2. i = j + (Len(s) + Len(t))
    BY <1>2, <1>3, <2>1
  <2> QED
    BY <1>1, <2>2
<1>8. ToSet(t) \intersect ToSet(u) = {}
  BY <1>5 DEF ToSet
<1>9. ToSet(t) \intersect ToSet(s) = {}
  BY <1>6 DEF ToSet
<1>10. ToSet(u) \intersect ToSet(s) = {}
  BY <1>7 DEF ToSet
<1>11. ToSet(t \o u) = ToSet(t) \union ToSet(u)
  BY HoldsConcat
<1> QED
  BY <1>4, <1>8, <1>9, <1>10, <1>11

\* Sets of batches are finite, so their sizes are numbers.
LEMMA Sizes ==
  ASSUME NEW A \in SUBSET Batch, NEW B \in SUBSET Batch
  PROVE  /\ IsFiniteSet(A) /\ Cardinality(A) \in Nat
         /\ Cardinality(A \union B) <= Cardinality(A) + Cardinality(B)
         /\ A \subseteq B => Cardinality(A) <= Cardinality(B)
<1>1. IsFiniteSet(A) /\ IsFiniteSet(B)
  BY FS_Subset, ForwarderAssumption
<1>2. Cardinality(A) \in Nat /\ Cardinality(B) \in Nat /\ Cardinality(A \intersect B) \in Nat
  BY <1>1, FS_CardinalityType, FS_Intersection
<1>3. Cardinality(A \union B) = Cardinality(A) + Cardinality(B) - Cardinality(A \intersect B)
  BY <1>1, FS_Union
<1>4. A \subseteq B => Cardinality(A) <= Cardinality(B)
  BY <1>1, FS_Subset
<1> QED
  BY <1>1, <1>2, <1>3, <1>4
-----------------------------------------------------------------------------
(* Types, and what the worker holds. *)

LEMMA WaitingTyped ==
  ASSUME ForwarderTypeOK
  PROVE  /\ Waiting \in Seq(Batch) /\ Pipeline \in Seq(Batch)
         /\ Len(Pipeline) = Len(hand) + Len(Waiting)
         /\ Len(hand) \in Nat /\ Len(Waiting) \in Nat /\ Len(queue) \in Nat /\ Len(Pipeline) \in Nat
<1> DEFINE carried == IF carry = NoBatch THEN <<>> ELSE <<carry>>
<1>1. carried \in Seq(Batch) /\ hand \in Seq(Batch) /\ queue \in Seq(Batch)
  BY DEF ForwarderTypeOK
<1>2. Waiting = carried \o queue
  BY DEF Waiting
<1> HIDE DEF carried
<1>3. Waiting \in Seq(Batch)
  BY <1>1, <1>2, ConcatProperties
<1>4. Pipeline \in Seq(Batch) /\ Len(Pipeline) = Len(hand) + Len(Waiting)
  BY <1>1, <1>3, ConcatProperties DEF Pipeline
<1> QED
  BY <1>1, <1>3, <1>4, LenProperties

LEMMA HoldsPipeline == ForwarderTypeOK => ToSet(Pipeline) = ToSet(hand) \union ToSet(Waiting)
<1>1. ASSUME ForwarderTypeOK PROVE hand \in Seq(Batch) /\ Waiting \in Seq(Batch)
  BY <1>1, WaitingTyped DEF ForwarderTypeOK
<1> QED
  BY <1>1, HoldsConcat DEF Pipeline

LEMMA GiveUpTyped ==
  ASSUME ForwarderTypeOK, GiveUpRequest
  PROVE  stray' \subseteq Requests
BY DEF ForwarderTypeOK, GiveUpRequest, Requests

LEMMA TimesTyped ==
  ASSUME NEW s \in Seq(Batch), NEW b \in Batch
  PROVE  Cardinality({i \in DOMAIN s : s[i] = b}) \in Nat
<1>1. IsFiniteSet(1..Len(s)) /\ DOMAIN s = 1..Len(s)
  <2>1. 1 \in Int /\ Len(s) \in Int /\ DOMAIN s = 1..Len(s)
    BY LenProperties
  <2> QED
    BY <2>1, FS_Interval
<1>2. {i \in DOMAIN s : s[i] = b} \in SUBSET (1..Len(s))
  BY <1>1
<1>3. IsFiniteSet({i \in DOMAIN s : s[i] = b})
  BY <1>1, <1>2, FS_Subset
<1> QED
  BY <1>3, FS_CardinalityType

LEMMA IngestedTyped ==
  ASSUME ForwarderTypeOK, NEW s \in Seq(Batch), Ingested(s)
  PROVE  arrivals' \in [Batch -> Nat]
<1> DEFINE times(b) == Cardinality({i \in DOMAIN s : s[i] = b})
<1>1. arrivals' = [b \in Batch |-> arrivals[b] + times(b)] /\ \A b \in Batch : times(b) \in Nat
  BY TimesTyped DEF Ingested
<1> HIDE DEF times
<1>2. arrivals \in [Batch -> Nat]
  BY DEF ForwarderTypeOK
<1> QED
  BY <1>1, <1>2

LEMMA RecordTyped ==
  ASSUME ForwarderTypeOK, OutstandingCounts, WorkerShape, RecordStep
  PROVE  ForwarderTypeOK' /\ WorkerShape'
<1> USE DEF ForwarderTypeOK, WorkerShape, Stages, Advance, channelVars, workerVars, sinkVars, counters, aborted
<1>1. PICK b \in Batch : CountIn(b) \/ Sent(b) \/ Refused(b) \/ CountOut(b) \/ CountDropped(b)
  BY DEF RecordStep
<1>2. CASE CountIn(b)
  BY <1>2 DEF CountIn
<1>3. CASE Sent(b)
  <2>1. queue' \in Seq(Batch) /\ Len(queue') = Len(queue) + 1 /\ accepted' \in Seq(Batch)
    BY <1>3, AppendProperties DEF Sent
  <2> QED
    <3>1. ~closed /\ worker \notin {"ended", "cancelled"}
      BY <1>3 DEF Sent, hasRoom
    <3>2. Len(queue') <= Capacity
      BY <1>3, <2>1, WaitingTyped, ForwarderAssumption DEF Sent, hasRoom
    <3>3. stage' \in [Batch -> Stages] /\ late' \subseteq Batch
      BY <1>3 DEF Sent
    <3> QED
      BY <1>3, <2>1, <3>1, <3>2, <3>3 DEF Sent
<1>4. CASE Refused(b)
  BY <1>4 DEF Refused
<1>5. CASE CountOut(b)
  <2>1. Counting \in SUBSET Batch /\ {b} \in SUBSET Batch /\ {b} \subseteq Counting
    BY <1>5 DEF CountOut, Counting
  <2>2. Cardinality({b}) = 1
    BY FS_Singleton
  <2>3. Cardinality(Counting) >= 1 /\ Cardinality(Counting) \in Nat
    BY <2>1, <2>2, Sizes
  <2>4. outstanding >= 1
    BY <2>3, WaitingTyped DEF OutstandingCounts
  <2> QED
    BY <1>5, <2>4 DEF CountOut
<1>6. CASE CountDropped(b)
  BY <1>6 DEF CountDropped
<1> QED
  BY <1>1, <1>2, <1>3, <1>4, <1>5, <1>6

LEMMA WorkerTyped ==
  ASSUME ForwarderTypeOK, OutstandingCounts, WorkerShape, SelectStep \/ PostStep \/ Cancelled
  PROVE  ForwarderTypeOK' /\ WorkerShape'
<1> USE DEF ForwarderTypeOK, WorkerShape, recorderVars, channelVars, sinkVars, counters, aborted
<1>0. /\ 1 \in 1..MaxAttempts /\ Capacity \in Nat /\ MaxBatches \in Nat \ {0} /\ MaxAttempts \in Nat
      /\ NoBatch \notin Batch /\ Len(hand) \in Nat /\ Len(queue) \in Nat
  BY ForwarderAssumption, WaitingTyped
<1>1. queue # <<>> => /\ Head(queue) \in Batch /\ Tail(queue) \in Seq(Batch)
                      /\ Len(Tail(queue)) = Len(queue) - 1
  BY HeadTailProperties
<1>2. CASE TakeCarry
  BY <1>0, <1>2 DEF TakeCarry
<1>3. CASE Receive
  BY <1>0, <1>1, <1>3 DEF Receive
<1>4. CASE StartDrain
  BY <1>4 DEF StartDrain
<1>5. CASE DrainEnds
  BY <1>5 DEF DrainEnds
<1>6. CASE CoalesceOne
  <2>1. CASE bytesOf(hand) + Bytes[Head(queue)] > MaxBytes
    BY <1>0, <1>1, <1>6, <2>1 DEF CoalesceOne
  <2>2. CASE ~(bytesOf(hand) + Bytes[Head(queue)] > MaxBytes)
    <3>1. hand' \in Seq(Batch) /\ Len(hand') = Len(hand) + 1
      <4>1. hand' = Append(hand, Head(queue)) /\ Head(queue) \in Batch /\ hand \in Seq(Batch)
        BY <1>1, <1>6, <2>2 DEF CoalesceOne
      <4> QED
        BY <4>1
    <3> QED
      BY <1>0, <1>1, <1>6, <2>2, <3>1 DEF CoalesceOne
  <2> QED
    BY <2>1, <2>2
<1>7. CASE CoalesceEnds
  BY <1>0, <1>7 DEF CoalesceEnds
<1>8. CASE Answered
  BY <1>8 DEF Answered
<1>9. CASE AttemptFails
  <2>1. faults' \in 0..MaxFaults
    BY <1>9, ForwarderAssumption DEF AttemptFails, Fault
  <2>2. stray' \subseteq Requests
    BY <1>9, GiveUpTyped DEF AttemptFails
  <2> QED
    BY <1>0, <1>9, <2>1, <2>2 DEF AttemptFails
<1>10. CASE CountFailed
  BY <1>0, <1>10 DEF CountFailed
<1>11. CASE Settle
  <2>1. outstanding - Len(hand) \in Nat
    <3>1. worker # "cancelled" /\ Counting \in SUBSET Batch
      BY <1>11 DEF Settle, Counting
    <3>2. Cardinality(Counting) \in Nat
      BY <3>1, Sizes
    <3> QED
      BY <3>1, <3>2, WaitingTyped DEF OutstandingCounts
  <2>2. done' \in Seq(Batch)
    BY <1>11, ConcatProperties DEF Settle
  <2> QED
    BY <1>0, <1>11, <2>1, <2>2 DEF Settle
<1>12. CASE Cancelled
  BY <1>0, <1>12, GiveUpTyped DEF Cancelled
<1> QED
  BY <1>2, <1>3, <1>4, <1>5, <1>6, <1>7, <1>8, <1>9, <1>10, <1>11, <1>12 DEF SelectStep, PostStep

LEMMA SinkTyped ==
  ASSUME ForwarderTypeOK, WorkerShape, SinkStep
  PROVE  ForwarderTypeOK' /\ WorkerShape'
<1> USE DEF ForwarderTypeOK, WorkerShape, recorderVars, channelVars, workerVars, counters, aborted
<1>1. CASE SinkIngests
  BY <1>1, IngestedTyped DEF SinkIngests
<1>2. CASE SinkRejects
  BY <1>2, ForwarderAssumption DEF SinkRejects, Fault
<1>3. CASE StrayArrives
  <2>1. PICK r \in stray : Ingested(r.batches)
    BY <1>3 DEF StrayArrives
  <2>2. arrivals' \in [Batch -> Nat]
    BY <2>1, IngestedTyped DEF Requests
  <2> QED
    BY <1>3, <2>2 DEF StrayArrives
<1> QED
  BY <1>1, <1>2, <1>3 DEF SinkStep

LEMMA ShutdownTyped ==
  ASSUME ForwarderTypeOK, WorkerShape, ShutdownStep
  PROVE  ForwarderTypeOK' /\ WorkerShape'
BY DEF ForwarderTypeOK, WorkerShape, recorderVars, channelVars, workerVars, sinkVars, counters, aborted,
       ShutdownStep, Shutdown, ShutdownReturns, ShutdownTimesOut, CountAbandoned

LEMMA StepTyped ==
  ASSUME ForwarderTypeOK, OutstandingCounts, WorkerShape, ForwarderNext
  PROVE  ForwarderTypeOK' /\ WorkerShape'
BY RecordTyped, WorkerTyped, SinkTyped, ShutdownTyped DEF ForwarderNext
-----------------------------------------------------------------------------
(* The way through the pipeline. *)

\* A batch that the channel takes is the last in the pipeline.
LEMMA SentIsLast ==
  ASSUME ForwarderTypeOK, WorkerShape, NEW b \in Batch, Sent(b)
  PROVE  /\ worker # "cancelled" /\ UNCHANGED workerVars
         /\ Waiting' = Waiting \o <<b>> /\ Pipeline' = Pipeline \o <<b>>
         /\ accepted' = accepted \o <<b>> /\ <<b>> \in Seq(Batch) /\ Len(<<b>>) = 1
<1> DEFINE carried == IF carry = NoBatch THEN <<>> ELSE <<carry>>
<1>1. /\ carried \in Seq(Batch) /\ hand \in Seq(Batch) /\ queue \in Seq(Batch)
      /\ accepted \in Seq(Batch) /\ <<b>> \in Seq(Batch) /\ Len(<<b>>) = 1
  BY DEF ForwarderTypeOK
<1>2. worker # "cancelled" /\ UNCHANGED workerVars /\ carried' = carried
  BY DEF Sent, hasRoom, WorkerShape, workerVars
<1>3. queue' = queue \o <<b>> /\ accepted' = accepted \o <<b>>
  BY <1>1, AppendIsConcat DEF Sent
<1>4. Waiting = carried \o queue /\ Waiting' = carried \o (queue \o <<b>>)
  BY <1>2, <1>3 DEF Waiting
<1> HIDE DEF carried
<1>5. Waiting' = Waiting \o <<b>>
  BY <1>1, <1>4, ConcatAssociative
<1>6. Waiting \in Seq(Batch)
  BY WaitingTyped
<1>7. Pipeline' = hand \o (Waiting \o <<b>>)
  BY <1>2, <1>5 DEF Pipeline, workerVars
<1>8. Pipeline' = Pipeline \o <<b>>
  BY <1>1, <1>6, <1>7, ConcatAssociative DEF Pipeline
<1> QED
  BY <1>1, <1>2, <1>3, <1>5, <1>8

\* The worker takes from the front, and keeps the order.
LEMMA TakenInOrder ==
  ASSUME ForwarderTypeOK, WorkerShape, TakeCarry \/ Receive \/ CoalesceOne
  PROVE  /\ worker \in {"select", "coalesce"} /\ worker' \in {"coalesce", "post"}
         /\ Pipeline' = Pipeline /\ UNCHANGED <<recorderVars, done, stray, arrivals, shutdown, counters>>
<1>1. /\ hand \in Seq(Batch) /\ queue \in Seq(Batch) /\ carry \in Batch \union {NoBatch}
      /\ NoBatch \notin Batch /\ Waiting \in Seq(Batch)
  BY WaitingTyped, ForwarderAssumption DEF ForwarderTypeOK
<1>2. CASE TakeCarry
  <2>1. /\ hand = <<>> /\ hand' = <<carry>> /\ carry # NoBatch /\ carry' = NoBatch /\ queue' = queue
        /\ <<carry>> \in Seq(Batch)
    BY <1>1, <1>2 DEF TakeCarry, WorkerShape, channelVars
  <2>2. Pipeline = <<carry>> \o queue /\ Pipeline' = <<carry>> \o queue
    BY <1>1, <2>1, ConcatEmptySeq DEF Pipeline, Waiting
  <2> QED
    BY <1>2, <2>2 DEF TakeCarry, sinkVars
<1>3. CASE Receive
  <2>1. /\ hand = <<>> /\ hand' = <<Head(queue)>> /\ carry = NoBatch /\ carry' = NoBatch
        /\ queue' = Tail(queue) /\ queue # <<>>
    BY <1>3 DEF Receive, WorkerShape
  <2>2. queue = <<Head(queue)>> \o Tail(queue) /\ Tail(queue) \in Seq(Batch)
    BY <1>1, <2>1, HoldsHeadTail
  <2>3. Waiting = queue /\ Waiting' = Tail(queue)
    BY <1>1, <2>1, <2>2, ConcatEmptySeq DEF Waiting
  <2>4. Pipeline' = Pipeline
    BY <1>1, <2>1, <2>2, <2>3, ConcatEmptySeq DEF Pipeline
  <2> QED
    BY <1>3, <2>4 DEF Receive, sinkVars
<1>4. CASE CoalesceOne
  <2> DEFINE h == Head(queue)
  <2>1. /\ carry = NoBatch /\ queue' = Tail(queue) /\ queue # <<>>
        /\ \/ carry' = h /\ hand' = hand
           \/ carry' = NoBatch /\ hand' = Append(hand, h)
    BY <1>4 DEF CoalesceOne, WorkerShape
  <2>2. queue = <<h>> \o Tail(queue) /\ Tail(queue) \in Seq(Batch) /\ h \in Batch
    BY <1>1, <2>1, HoldsHeadTail
  <2> HIDE DEF h
  <2>3. Waiting = queue
    BY <1>1, <2>1, ConcatEmptySeq DEF Waiting
  <2>4. ASSUME carry' = h, hand' = hand PROVE Pipeline' = Pipeline
    BY <1>1, <2>1, <2>2, <2>3, <2>4 DEF Pipeline, Waiting
  <2>5. ASSUME carry' = NoBatch, hand' = Append(hand, h) PROVE Pipeline' = Pipeline
    <3>1. Waiting' = Tail(queue) /\ hand' = hand \o <<h>> /\ <<h>> \in Seq(Batch)
      BY <1>1, <2>1, <2>2, <2>5, ConcatEmptySeq, AppendIsConcat DEF Waiting
    <3>2. (hand \o <<h>>) \o Tail(queue) = hand \o (<<h>> \o Tail(queue))
      BY <1>1, <2>2, <3>1, ConcatAssociative
    <3> QED
      BY <2>2, <2>3, <3>1, <3>2 DEF Pipeline
  <2> QED
    BY <1>4, <2>1, <2>4, <2>5 DEF CoalesceOne, recorderVars, counters
<1> QED
  BY <1>2, <1>3, <1>4

LEMMA SettledIsFirst ==
  ASSUME ForwarderTypeOK, Settle
  PROVE  /\ Pipeline = hand \o Waiting /\ Pipeline' = Waiting /\ Waiting' = Waiting
         /\ UNCHANGED <<recorderVars, stray, arrivals, shutdown, dropped>>
<1>1. hand' = <<>> /\ Waiting' = Waiting /\ Waiting \in Seq(Batch)
  BY WaitingTyped DEF Settle, Waiting, channelVars
<1> QED
  BY <1>1, ConcatEmptySeq DEF Pipeline, Settle, sinkVars

\* All other steps leave it alone, but for the end of an aborted task.
LEMMA PipelineStays ==
  ASSUME UNCHANGED <<hand, carry, queue>>
  PROVE  Pipeline' = Pipeline /\ Waiting' = Waiting
BY DEF Pipeline, Waiting

LEMMA CancelledEmpties ==
  ASSUME Cancelled
  PROVE  Pipeline' = <<>> /\ Waiting' = <<>>
<1>1. <<>> \o <<>> = <<>>
  BY ConcatEmptySeq
<1> QED
  BY <1>1 DEF Cancelled, Pipeline, Waiting
-----------------------------------------------------------------------------
(* The count and the order. *)

LEMMA CountingSizes ==
  /\ Counting \in SUBSET Batch /\ IsFiniteSet(Counting) /\ Cardinality(Counting) \in Nat
  /\ \A b \in Batch : /\ Cardinality(Counting \union {b}) =
                            IF b \in Counting THEN Cardinality(Counting) ELSE Cardinality(Counting) + 1
                      /\ Cardinality(Counting \ {b}) =
                            IF b \in Counting THEN Cardinality(Counting) - 1 ELSE Cardinality(Counting)
<1>1. Counting \in SUBSET Batch
  BY DEF Counting
<1>2. IsFiniteSet(Counting) /\ Cardinality(Counting) \in Nat
  BY <1>1, Sizes
<1> QED
  BY <1>1, <1>2, FS_AddElement, FS_RemoveElement

\* A caller's step moves one batch into or out of the counting.
LEMMA CountingMoves ==
  ASSUME ForwarderTypeOK, NEW b \in Batch
  PROVE  /\ CountIn(b) => b \notin Counting /\ Counting' = Counting \union {b}
         /\ Sent(b) => b \in Counting /\ Counting' = Counting \ {b}
         /\ Refused(b) => Counting' = Counting
         /\ CountOut(b) => b \in Counting /\ Counting' = Counting \ {b}
         /\ CountDropped(b) => Counting' = Counting
BY DEF ForwarderTypeOK, Counting, CountIn, Sent, Refused, CountOut, CountDropped, Advance

LEMMA RecordCounts ==
  ASSUME ForwarderTypeOK, WorkerShape, OutstandingCounts, RecordStep
  PROVE  OutstandingCounts'
<1>1. PICK b \in Batch : CountIn(b) \/ Sent(b) \/ Refused(b) \/ CountOut(b) \/ CountDropped(b)
  BY DEF RecordStep
<1> DEFINE n == Cardinality(Counting)
           l == Len(Pipeline)
<1>2. n \in Nat /\ l \in Nat /\ outstanding \in Nat
  BY CountingSizes, WaitingTyped DEF ForwarderTypeOK
<1>3. CASE Sent(b)
  <2>1. Cardinality(Counting') = n - 1
    BY <1>3, CountingMoves, CountingSizes
  <2>2. Pipeline' = Pipeline \o <<b>> /\ <<b>> \in Seq(Batch) /\ Len(<<b>>) = 1 /\ Pipeline \in Seq(Batch)
    BY <1>3, SentIsLast, WaitingTyped
  <2>3. Len(Pipeline') = l + 1
    BY <2>2, ConcatProperties
  <2>4. worker # "cancelled" /\ worker' = worker /\ outstanding' = outstanding
    BY <1>3, SentIsLast DEF workerVars, Sent, counters
  <2> QED
    BY <1>2, <2>1, <2>3, <2>4 DEF OutstandingCounts
<1>4. ASSUME ~Sent(b) PROVE Pipeline' = Pipeline /\ worker' = worker
  <2>1. UNCHANGED <<hand, carry, queue, worker>>
    BY <1>1, <1>4 DEF CountIn, Refused, CountOut, CountDropped, channelVars, workerVars
  <2> QED
    BY <2>1, PipelineStays
<1>5. CASE CountIn(b)
  <2>1. Cardinality(Counting') = n + 1
    BY <1>5, CountingMoves, CountingSizes
  <2>2. ~Sent(b) /\ outstanding' = outstanding + 1
    BY <1>5 DEF CountIn, Sent, Advance
  <2> QED
    BY <1>2, <1>4, <2>1, <2>2 DEF OutstandingCounts
<1>6. CASE CountOut(b)
  <2>1. Cardinality(Counting') = n - 1 /\ n - 1 >= 0
    BY <1>6, CountingMoves, CountingSizes, FS_EmptySet
  <2>2. ~Sent(b) /\ outstanding' = outstanding - 1
    BY <1>6 DEF CountOut, Sent, Advance
  <2> QED
    BY <1>2, <1>4, <2>1, <2>2 DEF OutstandingCounts
<1>7. CASE Refused(b) \/ CountDropped(b)
  <2>1. Counting' = Counting
    BY <1>7, CountingMoves
  <2>2. ~Sent(b) /\ outstanding' = outstanding
    BY <1>7 DEF Refused, CountDropped, Sent, Advance, counters
  <2> QED
    BY <1>4, <2>1, <2>2 DEF OutstandingCounts
<1> QED
  BY <1>1, <1>3, <1>5, <1>6, <1>7

\* The steps of the worker that take nothing and finish nothing.
LEMMA WorkerHolds ==
  ASSUME ForwarderTypeOK, WorkerShape,
         StartDrain \/ DrainEnds \/ CoalesceEnds \/ Answered \/ AttemptFails \/ CountFailed
  PROVE  /\ worker # "cancelled" /\ worker' # "cancelled"
         /\ UNCHANGED <<recorderVars, hand, carry, queue, done, arrivals, shutdown, outstanding>>
BY DEF ForwarderTypeOK, StartDrain, DrainEnds, CoalesceEnds, Answered, AttemptFails, CountFailed,
       recorderVars, channelVars, sinkVars, counters

LEMMA OthersHold ==
  ASSUME SinkStep \/ ShutdownStep
  PROVE  UNCHANGED <<recorderVars, channelVars, workerVars, outstanding>>
BY DEF SinkStep, ShutdownStep, SinkIngests, SinkRejects, StrayArrives,
       Shutdown, ShutdownReturns, ShutdownTimesOut, CountAbandoned, counters

LEMMA StepCounts ==
  ASSUME ForwarderTypeOK, WorkerShape, OutstandingCounts, ForwarderNext
  PROVE  OutstandingCounts'
<1> DEFINE n == Cardinality(Counting)
<1>1. ASSUME UNCHANGED recorderVars PROVE Counting' = Counting
  BY <1>1 DEF Counting, recorderVars
<1>2. n \in Nat /\ outstanding \in Nat /\ Len(Pipeline) \in Nat
  BY CountingSizes, WaitingTyped DEF ForwarderTypeOK
<1>3. CASE TakeCarry \/ Receive \/ CoalesceOne
  BY <1>1, <1>3, TakenInOrder DEF OutstandingCounts, counters
<1>4. CASE StartDrain \/ DrainEnds \/ CoalesceEnds \/ Answered \/ AttemptFails \/ CountFailed
  <2>1. Pipeline' = Pipeline
    BY <1>4, WorkerHolds, PipelineStays
  <2> QED
    BY <1>1, <1>4, <2>1, WorkerHolds DEF OutstandingCounts
<1>5. CASE Settle
  <2>1. /\ Pipeline' = Waiting /\ Len(Pipeline) = Len(hand) + Len(Waiting)
        /\ Len(hand) \in Nat /\ Len(Waiting) \in Nat /\ Counting' = Counting
    BY <1>1, <1>5, SettledIsFirst, WaitingTyped
  <2>2. worker = "settle" /\ worker' = "select" /\ outstanding' = outstanding - Len(hand)
    BY <1>5 DEF Settle
  <2> QED
    BY <1>2, <2>1, <2>2 DEF OutstandingCounts
<1>6. CASE Cancelled
  <2>1. worker # "cancelled" /\ worker' = "cancelled" /\ outstanding' = outstanding /\ Counting' = Counting
    BY <1>1, <1>6 DEF Cancelled, counters
  <2> QED
    BY <1>2, <2>1 DEF OutstandingCounts
<1>7. CASE SinkStep \/ ShutdownStep
  <2>1. Pipeline' = Pipeline /\ Counting' = Counting /\ worker' = worker /\ outstanding' = outstanding
    BY <1>1, <1>7, OthersHold, PipelineStays DEF channelVars, workerVars
  <2> QED
    BY <2>1 DEF OutstandingCounts
<1> QED
  BY <1>3, <1>4, <1>5, <1>6, <1>7, RecordCounts DEF ForwarderNext, SelectStep, PostStep

LEMMA PartIsPrefix ==
  ASSUME NEW S, NEW s \in Seq(S), NEW t \in Seq(S)
  PROVE  IsPrefix(s, s \o t)
<1>1. Len(s) \in Nat /\ Len(s \o t) = Len(s) + Len(t) /\ Len(t) \in Nat
  BY LenProperties, ConcatProperties
<1>2. CASE Len(s) = 0
  <2>1. SubSeq(s, 1, 0) = <<>> /\ SubSeq(s \o t, 1, 0) = <<>>
    BY SubSeqEmpty
  <2> QED
    BY <1>1, <1>2, <2>1 DEF IsPrefix
<1>3. CASE Len(s) # 0
  <2>1. 1 \in 1..Len(s) /\ Len(s) \in 1..Len(s)
    BY <1>1, <1>3
  <2>2. SubSeq(s \o t, 1, Len(s)) = SubSeq(s, 1, Len(s))
    BY <2>1, SubSeqOfConcat1
  <2> QED
    BY <1>1, <2>2 DEF IsPrefix
<1> QED
  BY <1>2, <1>3

\* A batch that the channel takes is none that it has taken before.
LEMMA SentOnce ==
  ASSUME ForwarderTypeOK, AcceptedOnce, NEW b \in Batch, Sent(b)
  PROVE  b \notin ToSet(accepted) /\ AcceptedOnce' /\ ToSet(accepted') = ToSet(accepted) \union {b}
<1>1. /\ accepted \in Seq(Batch) /\ accepted' = accepted \o <<b>> /\ <<b>> \in Seq(Batch)
      /\ ToSet(<<b>>) = {b} /\ stage[b] = "counted" /\ stage' = [stage EXCEPT ![b] = "returned"]
      /\ stage \in [Batch -> Stages]
  BY HoldsOne, AppendIsConcat DEF ForwarderTypeOK, Sent, Advance
<1>2. b \notin ToSet(accepted)
  BY <1>1 DEF AcceptedOnce
<1>3. ToSet(accepted') = ToSet(accepted) \union {b}
  BY <1>1, HoldsOneMore
<1>4. \A c \in ToSet(accepted') : stage'[c] = "returned"
  BY <1>1, <1>3, HoldsNoMore DEF AcceptedOnce
<1>5. IsInjective(accepted')
  <2>1. /\ DOMAIN accepted = 1..Len(accepted) /\ DOMAIN accepted' = 1..(Len(accepted) + 1)
        /\ Len(accepted) \in Nat /\ accepted'[Len(accepted) + 1] = b
        /\ \A i \in DOMAIN accepted : accepted'[i] = accepted[i]
    BY <1>1, LenProperties
  <2>2. \A i, j \in DOMAIN accepted : accepted[i] = accepted[j] => i = j
    BY DEF AcceptedOnce, IsInjective
  <2>3. \A i \in DOMAIN accepted : accepted[i] # b
    BY <1>2 DEF ToSet
  <2>4. \A i \in DOMAIN accepted' : i \in DOMAIN accepted \/ i = Len(accepted) + 1
    BY <2>1
  <2>5. \A i, j \in DOMAIN accepted' : accepted'[i] = accepted'[j] => i = j
    BY <2>1, <2>2, <2>3, <2>4
  <2> QED
    BY <2>5 DEF IsInjective
<1> QED
  BY <1>2, <1>3, <1>4, <1>5 DEF AcceptedOnce

LEMMA OthersAccepted ==
  ASSUME ForwarderTypeOK, WorkerShape, AcceptedOnce, ForwarderNext, ~\E b \in Batch : Sent(b)
  PROVE  AcceptedOnce' /\ accepted' = accepted /\ late' = late
<1>1. CASE RecordStep
  <2>1. PICK b \in Batch : CountIn(b) \/ Refused(b) \/ CountOut(b) \/ CountDropped(b)
    BY <1>1 DEF RecordStep
  <2>2. accepted' = accepted /\ late' = late
    BY <2>1 DEF CountIn, Refused, CountOut, CountDropped
  <2>3. \A c \in Batch : stage[c] = "returned" => stage'[c] = "returned"
    BY <2>1 DEF CountIn, Refused, CountOut, CountDropped, Advance, ForwarderTypeOK
  <2>4. ToSet(accepted) \subseteq Batch
    BY HoldsNoMore DEF ForwarderTypeOK
  <2> QED
    BY <2>2, <2>3, <2>4 DEF AcceptedOnce
<1>2. CASE SelectStep \/ PostStep \/ Cancelled \/ SinkStep \/ ShutdownStep
  <2>1. UNCHANGED recorderVars
    BY <1>2, TakenInOrder, WorkerHolds, SettledIsFirst, OthersHold DEF SelectStep, PostStep, Cancelled
  <2> QED
    BY <2>1 DEF AcceptedOnce, recorderVars
<1> QED
  BY <1>1, <1>2 DEF ForwarderNext

LEMMA StepOrders ==
  ASSUME ForwarderTypeOK, WorkerShape, ShutdownDrains, AcceptedOnce, ForwarderNext
  PROVE  ShutdownDrains'
<1>1. /\ done \in Seq(Batch) /\ hand \in Seq(Batch) /\ Waiting \in Seq(Batch) /\ Pipeline \in Seq(Batch)
  BY WaitingTyped DEF ForwarderTypeOK
<1>2. CASE \E b \in Batch : Sent(b)
  <2>1. PICK b \in Batch : Sent(b)
    BY <1>2
  <2>2. /\ worker # "cancelled" /\ worker' = worker /\ done' = done
        /\ Pipeline' = Pipeline \o <<b>> /\ accepted' = accepted \o <<b>> /\ <<b>> \in Seq(Batch)
    BY <2>1, SentIsLast DEF workerVars
  <2>3. worker # "ended"
    BY <2>1 DEF Sent, hasRoom, WorkerShape
  <2>4. (done \o Pipeline) \o <<b>> = done \o (Pipeline \o <<b>>)
    BY <1>1, <2>2, ConcatAssociative
  <2> QED
    BY <2>2, <2>3, <2>4 DEF ShutdownDrains
<1>3. ASSUME ~\E b \in Batch : Sent(b) PROVE accepted' = accepted
  BY <1>3, OthersAccepted
<1>4. ASSUME ~\E b \in Batch : Sent(b), RecordStep PROVE UNCHANGED <<workerVars, channelVars>>
  BY <1>4 DEF RecordStep, CountIn, Refused, CountOut, CountDropped
<1>5. CASE (RecordStep /\ ~\E b \in Batch : Sent(b)) \/ SinkStep \/ ShutdownStep
  <2>1. UNCHANGED <<workerVars, channelVars, accepted>>
    BY <1>3, <1>4, <1>5, OthersHold DEF recorderVars
  <2>2. Pipeline' = Pipeline
    BY <2>1, PipelineStays DEF workerVars, channelVars
  <2> QED
    BY <2>1, <2>2 DEF ShutdownDrains, workerVars
<1>6. CASE TakeCarry \/ Receive \/ CoalesceOne
  BY <1>6, TakenInOrder DEF ShutdownDrains, recorderVars
<1>7. CASE StartDrain \/ DrainEnds \/ CoalesceEnds \/ Answered \/ AttemptFails \/ CountFailed
  <2>1. /\ Pipeline' = Pipeline /\ accepted' = accepted /\ done' = done
        /\ worker # "cancelled" /\ worker' # "cancelled"
    BY <1>7, WorkerHolds, PipelineStays DEF recorderVars
  <2>2. ASSUME DrainEnds PROVE done = accepted
    <3>1. hand = <<>> /\ Waiting = <<>> \o <<>>
      BY <2>2 DEF DrainEnds, WorkerShape, Waiting
    <3>2. Pipeline = <<>>
      BY <3>1 DEF Pipeline
    <3> QED
      BY <1>1, <2>1, <3>2, ConcatEmptySeq DEF ShutdownDrains
  <2>3. ASSUME ~DrainEnds PROVE worker' # "ended"
    BY <1>7, <2>3 DEF StartDrain, CoalesceEnds, Answered, AttemptFails, CountFailed
  <2> QED
    BY <2>1, <2>2, <2>3 DEF ShutdownDrains
<1>8. CASE Settle
  <2>1. Pipeline = hand \o Waiting /\ Pipeline' = Waiting /\ accepted' = accepted
    BY <1>8, SettledIsFirst DEF recorderVars
  <2>2. worker = "settle" /\ worker' = "select" /\ done' = done \o hand
    BY <1>8 DEF Settle
  <2>3. (done \o hand) \o Waiting = done \o (hand \o Waiting)
    BY <1>1, ConcatAssociative
  <2> QED
    BY <2>1, <2>2, <2>3 DEF ShutdownDrains
<1>9. CASE Cancelled
  <2>1. worker # "cancelled" /\ worker' = "cancelled" /\ done' = done /\ accepted' = accepted
    BY <1>9 DEF Cancelled, recorderVars
  <2>2. IsPrefix(done, done \o Pipeline)
    BY <1>1, PartIsPrefix
  <2> QED
    BY <2>1, <2>2 DEF ShutdownDrains
<1> QED
  BY <1>2, <1>5, <1>6, <1>7, <1>8, <1>9 DEF ForwarderNext, SelectStep, PostStep
-----------------------------------------------------------------------------
(* The copies. *)

\* The batches in hand are accepted, are distinct, and are none that wait.
LEMMA HandApart ==
  ASSUME ForwarderTypeOK, ShutdownDrains, AcceptedOnce, worker # "cancelled"
  PROVE  /\ IsInjective(hand) /\ ToSet(hand) \intersect ToSet(Waiting) = {}
         /\ ToSet(Pipeline) = ToSet(hand) \union ToSet(Waiting)
         /\ ToSet(Pipeline) \subseteq ToSet(accepted) /\ ToSet(accepted) \subseteq Batch
<1>1. hand \in Seq(Batch) /\ Waiting \in Seq(Batch) /\ done \in Seq(Batch) /\ Pipeline \in Seq(Batch)
  BY WaitingTyped DEF ForwarderTypeOK
<1>2. /\ accepted = done \o Pipeline /\ IsInjective(accepted)
      /\ accepted = done \o (hand \o Waiting)
  BY DEF ShutdownDrains, AcceptedOnce, Pipeline
<1>3. ToSet(accepted) = ToSet(done) \union ToSet(Pipeline)
  BY <1>1, <1>2, HoldsConcat
<1>4. ToSet(Pipeline) = ToSet(hand) \union ToSet(Waiting)
  BY <1>1, HoldsConcat DEF Pipeline
<1>5. ToSet(accepted) \subseteq Batch
  BY HoldsNoMore DEF ForwarderTypeOK
<1>6. IsInjective(hand) /\ ToSet(hand) \intersect ToSet(Waiting) = {}
  BY <1>1, <1>2, PartInjective
<1> QED
  BY <1>3, <1>4, <1>5, <1>6

LEMMA TimesIn ==
  ASSUME NEW s \in Seq(Batch), IsInjective(s), NEW b \in Batch
  PROVE  Cardinality({i \in DOMAIN s : s[i] = b}) = IF b \in ToSet(s) THEN 1 ELSE 0
<1>1. CASE b \in ToSet(s)
  <2>1. PICK i \in DOMAIN s : s[i] = b
    BY <1>1 DEF ToSet
  <2>2. {j \in DOMAIN s : s[j] = b} = {i}
    BY <2>1 DEF IsInjective
  <2> QED
    BY <1>1, <2>2, FS_Singleton
<1>2. CASE b \notin ToSet(s)
  <2>1. {i \in DOMAIN s : s[i] = b} = {}
    BY <1>2 DEF ToSet
  <2> QED
    BY <1>2, <2>1, FS_EmptySet
<1> QED
  BY <1>1, <1>2

Strays(b) == {r \in stray : b \in ToSet(r.batches)}

LEMMA CopiesTyped ==
  ASSUME ForwarderTypeOK, IsFiniteSet(stray), NEW b \in Batch
  PROVE  /\ IsFiniteSet(Strays(b)) /\ Cardinality(Strays(b)) \in Nat
         /\ Copies(b) = arrivals[b] + Cardinality(Strays(b))
         /\ Copies(b) \in Nat /\ arrivals[b] \in Nat
<1>1. IsFiniteSet(Strays(b))
  BY FS_Subset DEF Strays
<1>2. Cardinality(Strays(b)) \in Nat
  BY <1>1, FS_CardinalityType
<1>3. Copies(b) = arrivals[b] + Cardinality(Strays(b))
  BY DEF Copies, Strays
<1> QED
  BY <1>1, <1>2, <1>3 DEF ForwarderTypeOK

LEMMA BoundTyped ==
  ASSUME ForwarderTypeOK, NEW b \in Batch
  PROVE  /\ SentAtMost(b) \in Nat /\ SentAtMost(b) <= MaxAttempts
         /\ attempt \in Nat /\ 1 <= attempt /\ attempt <= MaxAttempts /\ MaxAttempts \in Nat
BY ForwarderAssumption DEF ForwarderTypeOK, SentAtMost

LEMMA SameBound ==
  ASSUME NEW b, UNCHANGED <<accepted, Waiting, hand, worker, request, attempt>>
  PROVE  SentAtMost(b)' = SentAtMost(b)
BY DEF SentAtMost

LEMMA SameCopies ==
  ASSUME NEW b, UNCHANGED <<arrivals, stray>>
  PROVE  Copies(b)' = Copies(b)
BY DEF Copies

\* An attempt that is given up may add a copy of what it holds.
LEMMA GivenUp ==
  ASSUME ForwarderTypeOK, ShutdownDrains, AcceptedOnce, CopiesByAttempt, worker # "cancelled",
         GiveUpRequest, arrivals' = arrivals
  PROVE  /\ IsFiniteSet(stray') /\ \A r \in stray' : IsInjective(r.batches)
         /\ \A b \in Batch : /\ Copies(b)' \in Nat
                             /\ Copies(b)' <= Copies(b) + IF request = "sent" /\ b \in ToSet(hand) THEN 1 ELSE 0
<1> DEFINE mine == [batches |-> hand, attempt |-> attempt]
<1>1. mine.batches = hand /\ IsInjective(hand) /\ IsFiniteSet(stray)
  BY HandApart DEF CopiesByAttempt
<1>2. stray' = stray \/ (request = "sent" /\ stray' = stray \union {mine})
  BY DEF GiveUpRequest
<1> HIDE DEF mine
<1>3. IsFiniteSet(stray')
  BY <1>1, <1>2, FS_AddElement
<1>4. \A r \in stray' : IsInjective(r.batches)
  BY <1>1, <1>2 DEF CopiesByAttempt
<1>5. ASSUME NEW b \in Batch
      PROVE  /\ Copies(b)' \in Nat
             /\ Copies(b)' <= Copies(b) + IF request = "sent" /\ b \in ToSet(hand) THEN 1 ELSE 0
  <2>1. /\ IsFiniteSet(Strays(b)) /\ Cardinality(Strays(b)) \in Nat /\ arrivals[b] \in Nat
        /\ Copies(b) = arrivals[b] + Cardinality(Strays(b))
    BY <1>1, CopiesTyped
  <2>2. Copies(b)' = arrivals[b] + Cardinality(Strays(b)')
    BY DEF Copies, Strays
  <2>3. CASE request = "sent" /\ b \in ToSet(hand)
    <3>1. Strays(b)' = Strays(b) \/ Strays(b)' = Strays(b) \union {mine}
      BY <1>1, <1>2, <2>3 DEF Strays
    <3>2. Cardinality(Strays(b) \union {mine}) \in {Cardinality(Strays(b)), Cardinality(Strays(b)) + 1}
      BY <2>1, FS_AddElement
    <3>3. Cardinality(Strays(b)') \in Nat /\ Cardinality(Strays(b)') <= Cardinality(Strays(b)) + 1
      BY <2>1, <3>1, <3>2
    <3> QED
      BY <2>1, <2>2, <2>3, <3>3
  <2>4. CASE ~(request = "sent" /\ b \in ToSet(hand))
    <3>1. Strays(b)' = Strays(b)
      BY <1>1, <1>2, <2>4 DEF Strays
    <3> QED
      BY <2>1, <2>2, <2>4, <3>1
  <2> QED
    BY <2>3, <2>4
<1> QED
  BY <1>3, <1>4, <1>5

\* Before a batch is posted, nothing of the pipeline has been sent.
BoundBeforePost(b) == IF b \notin ToSet(accepted) \/ b \in ToSet(Pipeline) THEN 0 ELSE MaxAttempts

Unsent ==
  \/ worker \in {"select", "coalesce"}
  \/ worker = "post" /\ request = "sent" /\ attempt = 1

LEMMA BoundUnsent ==
  ForwarderTypeOK /\ WorkerShape /\ ShutdownDrains /\ AcceptedOnce /\ Unsent =>
    \A b \in Batch : SentAtMost(b) = BoundBeforePost(b)
<1> SUFFICES ASSUME ForwarderTypeOK, WorkerShape, ShutdownDrains, AcceptedOnce, Unsent, NEW b \in Batch
             PROVE  SentAtMost(b) = BoundBeforePost(b)
  OBVIOUS
<1>1. ToSet(Pipeline) = ToSet(hand) \union ToSet(Waiting)
  BY HandApart DEF Unsent
<1>2. worker = "select" => ToSet(hand) = {}
  BY DEF WorkerShape, ToSet
<1>3. 1 - 1 = 0
  OBVIOUS
<1> QED
  BY <1>1, <1>2, <1>3 DEF SentAtMost, BoundBeforePost, Unsent

LEMMA TakenKeepsCopies ==
  ASSUME ForwarderTypeOK, ForwarderTypeOK', WorkerShape, WorkerShape', ShutdownDrains, ShutdownDrains',
         AcceptedOnce, AcceptedOnce', CopiesByAttempt, TakeCarry \/ Receive \/ CoalesceOne \/ CoalesceEnds
  PROVE  CopiesByAttempt'
<1>1. /\ worker \in {"select", "coalesce"} /\ Pipeline' = Pipeline
      /\ UNCHANGED <<accepted, arrivals, stray>>
  BY TakenInOrder, PipelineStays DEF CoalesceEnds, recorderVars, channelVars
<1>2. Unsent'
  BY DEF Unsent, TakeCarry, Receive, CoalesceOne, CoalesceEnds
<1>3. /\ \A b \in Batch : SentAtMost(b) = BoundBeforePost(b)
      /\ (\A b \in Batch : SentAtMost(b) = BoundBeforePost(b))'
  <2>1. \A b \in Batch : SentAtMost(b) = BoundBeforePost(b)
    BY <1>1, BoundUnsent DEF Unsent
  <2>2. (\A b \in Batch : SentAtMost(b) = BoundBeforePost(b))'
    BY <1>2, BoundUnsent, PTL
  <2> QED
    BY <2>1, <2>2
<1>4. ASSUME NEW b \in Batch PROVE Copies(b)' <= SentAtMost(b)'
  <2>1. SentAtMost(b) = BoundBeforePost(b) /\ SentAtMost(b)' = BoundBeforePost(b)'
    BY <1>4, <1>3
  <2>2. BoundBeforePost(b)' = BoundBeforePost(b) /\ Copies(b)' = Copies(b)
    BY <1>1, SameCopies DEF BoundBeforePost
  <2> QED
    BY <1>4, <2>1, <2>2 DEF CopiesByAttempt
<1> QED
  BY <1>1, <1>4 DEF CopiesByAttempt

LEMMA PostKeepsCopies ==
  ASSUME ForwarderTypeOK, WorkerShape, ShutdownDrains, AcceptedOnce, CopiesByAttempt,
         StartDrain \/ DrainEnds \/ Answered \/ CountFailed \/ Settle
  PROVE  CopiesByAttempt'
<1>1. UNCHANGED <<accepted, arrivals, stray, Waiting>>
  BY PipelineStays, SettledIsFirst DEF StartDrain, DrainEnds, Answered, CountFailed, Settle,
     recorderVars, channelVars, sinkVars
<1>2. ASSUME NEW b \in Batch PROVE Copies(b)' <= SentAtMost(b)'
  <2>1. Copies(b)' = Copies(b) /\ Copies(b) <= SentAtMost(b) /\ Copies(b) \in Nat
    BY <1>1, <1>2, SameCopies, CopiesTyped DEF CopiesByAttempt
  <2>2. worker' \notin {"coalesce", "post"} /\ (hand' = hand \/ hand' = <<>>)
    BY DEF WorkerShape, StartDrain, DrainEnds, Answered, CountFailed, Settle
  <2>3. SentAtMost(b)' = IF b \notin ToSet(accepted) \/ b \in ToSet(Waiting) THEN 0 ELSE MaxAttempts
    BY <1>1, <2>2 DEF SentAtMost
  <2>4. SentAtMost(b) \in Nat /\ SentAtMost(b) <= MaxAttempts /\ MaxAttempts \in Nat
    BY <1>2, BoundTyped
  <2>5. b \notin ToSet(accepted) \/ b \in ToSet(Waiting) => SentAtMost(b) = 0
    BY DEF SentAtMost
  <2> QED
    BY <2>1, <2>3, <2>4, <2>5
<1> QED
  BY <1>1, <1>2 DEF CopiesByAttempt

\* Each attempt allows one copy more.
LEMMA AttemptKeepsCopies ==
  ASSUME ForwarderTypeOK, WorkerShape, ShutdownDrains, AcceptedOnce, CopiesByAttempt,
         AttemptFails \/ Cancelled
  PROVE  CopiesByAttempt'
<1>1. /\ UNCHANGED <<accepted, arrivals>> /\ GiveUpRequest /\ worker # "cancelled"
      /\ request # "none" => worker = "post"
  BY DEF AttemptFails, Cancelled, recorderVars, WorkerShape
<1>2. IsFiniteSet(stray') /\ \A r \in stray' : IsInjective(r.batches)
  BY <1>1, GivenUp
<1>3. ASSUME NEW b \in Batch PROVE Copies(b)' <= SentAtMost(b)'
  <2>1. /\ Copies(b)' \in Nat /\ Copies(b) \in Nat /\ Copies(b) <= SentAtMost(b)
        /\ Copies(b)' <= Copies(b) + IF request = "sent" /\ b \in ToSet(hand) THEN 1 ELSE 0
    BY <1>1, <1>3, GivenUp, CopiesTyped DEF CopiesByAttempt
  <2>2. /\ ToSet(hand) \intersect ToSet(Waiting) = {} /\ ToSet(hand) \subseteq ToSet(accepted)
    BY <1>1, HandApart
  <2>3. /\ attempt \in Nat /\ 1 <= attempt /\ attempt <= MaxAttempts /\ MaxAttempts \in Nat
        /\ SentAtMost(b) \in Nat /\ SentAtMost(b) <= MaxAttempts
    BY <1>3, BoundTyped
  <2>4. CASE b \in ToSet(hand)
    <3>1. /\ b \in ToSet(accepted) /\ b \notin ToSet(Waiting)
      BY <2>2, <2>4
    <3>2. CASE AttemptFails
      <4>1. /\ worker = "post" /\ hand' = hand /\ Waiting' = Waiting
            /\ \/ worker' = "post" /\ request' = "sent" /\ attempt' = attempt + 1
               \/ worker' = "failed"
        BY <3>2, PipelineStays DEF AttemptFails, channelVars
      <4>2. SentAtMost(b) = IF request = "ingested" THEN attempt ELSE attempt - 1
        BY <2>4, <3>1, <4>1 DEF SentAtMost
      <4>3. SentAtMost(b)' \in {attempt, MaxAttempts}
        <5>1. CASE worker' = "failed"
          BY <1>1, <3>1, <4>1, <5>1 DEF SentAtMost
        <5>2. CASE worker' = "post" /\ request' = "sent" /\ attempt' = attempt + 1
          <6>1. SentAtMost(b)' = attempt' - 1
            BY <1>1, <2>4, <3>1, <4>1, <5>2 DEF SentAtMost
          <6> QED
            BY <2>3, <5>2, <6>1
        <5> QED
          BY <4>1, <5>1, <5>2
      <4>4. Copies(b)' <= attempt
        BY <2>1, <2>3, <2>4, <4>2
      <4> QED
        BY <2>1, <2>3, <4>3, <4>4
    <3>3. CASE Cancelled
      <4>1. worker' = "cancelled" /\ ToSet(Waiting') = {} /\ ToSet(hand') = {}
        BY <3>3, CancelledEmpties DEF Cancelled, ToSet
      <4>2. SentAtMost(b)' = MaxAttempts
        BY <1>1, <3>1, <4>1 DEF SentAtMost
      <4>3. request = "sent" => SentAtMost(b) = attempt - 1
        BY <1>1, <2>4, <3>1 DEF SentAtMost
      <4> QED
        BY <2>1, <2>3, <4>2, <4>3
    <3> QED
      BY <3>2, <3>3
  <2>5. CASE b \notin ToSet(hand)
    <3>1. Copies(b)' <= Copies(b)
      BY <2>1, <2>5
    <3>2. b \notin ToSet(accepted) \/ b \in ToSet(Waiting) => SentAtMost(b) = 0
      BY DEF SentAtMost
    <3>3. b \notin ToSet(hand') /\ worker' # "coalesce"
      BY <2>5 DEF AttemptFails, Cancelled, ToSet
    <3>4. SentAtMost(b)' = IF b \notin ToSet(accepted) \/ b \in ToSet(Waiting') THEN 0 ELSE MaxAttempts
      BY <1>1, <3>3 DEF SentAtMost
    <3>5. ToSet(Waiting') \subseteq ToSet(Waiting)
      BY PipelineStays, CancelledEmpties DEF AttemptFails, channelVars, ToSet
    <3> QED
      BY <2>1, <2>3, <3>1, <3>2, <3>4, <3>5
  <2> QED
    BY <2>4, <2>5
<1> QED
  BY <1>2, <1>3 DEF CopiesByAttempt

LEMMA SinkKeepsCopies ==
  ASSUME ForwarderTypeOK, WorkerShape, ShutdownDrains, AcceptedOnce, CopiesByAttempt, SinkStep
  PROVE  CopiesByAttempt'
<1>1. UNCHANGED <<accepted, Waiting, hand, worker, attempt>>
  BY OthersHold, PipelineStays DEF recorderVars, channelVars, workerVars
<1>2. CASE SinkRejects
  <2>1. UNCHANGED <<arrivals, stray>> /\ request = "sent" /\ request' = "rejected"
    BY <1>2 DEF SinkRejects
  <2>2. \A b \in Batch : Copies(b)' = Copies(b) /\ SentAtMost(b)' = SentAtMost(b)
    BY <1>1, <2>1, SameCopies DEF SentAtMost
  <2> QED
    BY <2>1, <2>2 DEF CopiesByAttempt
<1>3. CASE SinkIngests
  <2>1. /\ stray' = stray /\ request = "sent" /\ request' = "ingested" /\ Ingested(hand) /\ worker = "post"
    BY <1>3 DEF SinkIngests, WorkerShape
  <2>2. /\ IsInjective(hand) /\ hand \in Seq(Batch) /\ ToSet(hand) \intersect ToSet(Waiting) = {}
        /\ ToSet(hand) \subseteq ToSet(accepted)
    BY <2>1, HandApart DEF ForwarderTypeOK
  <2>3. ASSUME NEW b \in Batch PROVE Copies(b)' <= SentAtMost(b)'
    <3>1. /\ arrivals'[b] = arrivals[b] + (IF b \in ToSet(hand) THEN 1 ELSE 0)
          /\ Cardinality(Strays(b)') = Cardinality(Strays(b))
      <4> DEFINE times(c) == Cardinality({i \in DOMAIN hand : hand[i] = c})
      <4>1. arrivals' = [c \in Batch |-> arrivals[c] + times(c)]
        BY <2>1 DEF Ingested
      <4>2. times(b) = IF b \in ToSet(hand) THEN 1 ELSE 0
        BY <2>2, <2>3, TimesIn
      <4> HIDE DEF times
      <4> QED
        BY <2>1, <2>3, <4>1, <4>2 DEF Strays
    <3>2. /\ Copies(b)' = arrivals'[b] + Cardinality(Strays(b)')
          /\ Copies(b) = arrivals[b] + Cardinality(Strays(b)) /\ Copies(b) <= SentAtMost(b)
          /\ arrivals[b] \in Nat /\ Cardinality(Strays(b)) \in Nat
      BY <2>3, CopiesTyped DEF Copies, Strays, CopiesByAttempt
    <3>3. CASE b \in ToSet(hand)
      <4>1. b \in ToSet(accepted) /\ b \notin ToSet(Waiting)
        BY <2>2, <3>3
      <4>2. SentAtMost(b) = attempt - 1 /\ SentAtMost(b)' = attempt
        BY <1>1, <2>1, <3>3, <4>1 DEF SentAtMost
      <4>3. attempt \in Nat
        BY <2>3, BoundTyped
      <4> QED
        BY <3>1, <3>2, <3>3, <4>2, <4>3
    <3>4. CASE b \notin ToSet(hand)
      <4>1. SentAtMost(b)' = SentAtMost(b)
        BY <1>1, <2>1, <3>4 DEF SentAtMost
      <4> QED
        BY <3>1, <3>2, <3>4, <4>1
    <3> QED
      BY <3>3, <3>4
  <2> QED
    BY <2>1, <2>3 DEF CopiesByAttempt
<1>4. CASE StrayArrives
  <2>1. PICK r \in stray : stray' = stray \ {r} /\ Ingested(r.batches) /\ request' = request
    BY <1>4 DEF StrayArrives
  <2>2. IsInjective(r.batches) /\ r.batches \in Seq(Batch) /\ IsFiniteSet(stray)
    BY DEF CopiesByAttempt, ForwarderTypeOK, Requests
  <2>3. ASSUME NEW b \in Batch PROVE Copies(b)' <= SentAtMost(b)'
    <3>1. SentAtMost(b)' = SentAtMost(b)
      BY <1>1, <2>1, SameBound
    <3>2. arrivals'[b] = arrivals[b] + (IF b \in ToSet(r.batches) THEN 1 ELSE 0)
      <4> DEFINE times(c) == Cardinality({i \in DOMAIN r.batches : r.batches[i] = c})
      <4>1. arrivals' = [c \in Batch |-> arrivals[c] + times(c)]
        BY <2>1 DEF Ingested
      <4>2. times(b) = IF b \in ToSet(r.batches) THEN 1 ELSE 0
        BY <2>2, <2>3, TimesIn
      <4> HIDE DEF times
      <4> QED
        BY <2>3, <4>1, <4>2
    <3>3. Strays(b)' = Strays(b) \ {r} /\ (r \in Strays(b) <=> b \in ToSet(r.batches))
      BY <2>1 DEF Strays
    <3>4. /\ Copies(b)' = arrivals'[b] + Cardinality(Strays(b)')
          /\ Copies(b) = arrivals[b] + Cardinality(Strays(b)) /\ Copies(b) <= SentAtMost(b)
          /\ arrivals[b] \in Nat /\ Cardinality(Strays(b)) \in Nat /\ IsFiniteSet(Strays(b))
      BY <2>2, <2>3, CopiesTyped DEF Copies, Strays, CopiesByAttempt
    <3>5. Cardinality(Strays(b)') = IF b \in ToSet(r.batches) THEN Cardinality(Strays(b)) - 1
                                    ELSE Cardinality(Strays(b))
      BY <3>3, <3>4, FS_RemoveElement
    <3> QED
      BY <3>1, <3>2, <3>4, <3>5
  <2>4. IsFiniteSet(stray') /\ stray' \subseteq stray
    BY <2>1, <2>2, FS_RemoveElement
  <2> QED
    BY <2>3, <2>4 DEF CopiesByAttempt
<1> QED
  BY <1>2, <1>3, <1>4 DEF SinkStep

LEMMA RecordKeepsCopies ==
  ASSUME ForwarderTypeOK, WorkerShape, ShutdownDrains, AcceptedOnce, CopiesByAttempt, RecordStep
  PROVE  CopiesByAttempt'
<1>1. UNCHANGED <<hand, worker, request, attempt, arrivals, stray>>
  BY DEF RecordStep, CountIn, Sent, Refused, CountOut, CountDropped, workerVars, sinkVars
<1>2. CASE \E b \in Batch : Sent(b)
  <2>1. PICK b \in Batch : Sent(b)
    BY <1>2
  <2>2. Waiting' = Waiting \o <<b>> /\ ToSet(accepted') = ToSet(accepted) \union {b} /\ b \notin ToSet(accepted)
    BY <2>1, SentIsLast, SentOnce
  <2>3. ToSet(Waiting') = ToSet(Waiting) \union {b}
    BY <2>2, HoldsOneMore, WaitingTyped
  <2>4. ASSUME NEW c \in Batch PROVE Copies(c)' <= SentAtMost(c)'
    <3>1. SentAtMost(c)' = SentAtMost(c)
      BY <1>1, <2>2, <2>3 DEF SentAtMost
    <3> QED
      BY <1>1, <2>4, <3>1, SameCopies DEF CopiesByAttempt
  <2> QED
    BY <1>1, <2>4 DEF CopiesByAttempt
<1>3. CASE ~\E b \in Batch : Sent(b)
  <2>1. UNCHANGED <<accepted, channelVars, workerVars>>
    BY <1>3 DEF RecordStep, CountIn, Refused, CountOut, CountDropped
  <2>2. Waiting' = Waiting
    BY <2>1, PipelineStays DEF channelVars, workerVars
  <2>3. ASSUME NEW c \in Batch PROVE Copies(c)' <= SentAtMost(c)'
    BY <1>1, <2>1, <2>2, <2>3, SameCopies, SameBound DEF CopiesByAttempt
  <2> QED
    BY <1>1, <2>3 DEF CopiesByAttempt
<1> QED
  BY <1>2, <1>3

LEMMA ShutdownKeepsCopies ==
  ASSUME CopiesByAttempt, ShutdownStep
  PROVE  CopiesByAttempt'
<1>1. UNCHANGED <<accepted, hand, worker, attempt, Waiting, request, arrivals, stray>>
  BY OthersHold, PipelineStays DEF recorderVars, channelVars, workerVars, ShutdownStep, Shutdown, ShutdownReturns,
     ShutdownTimesOut, CountAbandoned, sinkVars
<1>2. ASSUME NEW b \in Batch PROVE Copies(b)' <= SentAtMost(b)'
  BY <1>1, <1>2, SameCopies, SameBound DEF CopiesByAttempt
<1> QED
  BY <1>1, <1>2 DEF CopiesByAttempt

LEMMA StepKeepsCopies ==
  ASSUME ForwarderTypeOK, ForwarderTypeOK', WorkerShape, WorkerShape', ShutdownDrains, ShutdownDrains',
         AcceptedOnce, AcceptedOnce', CopiesByAttempt, ForwarderNext
  PROVE  CopiesByAttempt'
BY TakenKeepsCopies, PostKeepsCopies, AttemptKeepsCopies, SinkKeepsCopies, RecordKeepsCopies, ShutdownKeepsCopies
   DEF ForwarderNext, SelectStep, PostStep

LEMMA CopiesAreBounded ==
  ForwarderTypeOK /\ CopiesByAttempt => BoundedCopies
<1> SUFFICES ASSUME ForwarderTypeOK, CopiesByAttempt, NEW b \in Batch
             PROVE  Copies(b) <= MaxAttempts
  BY DEF BoundedCopies
<1>1. Copies(b) <= SentAtMost(b) /\ Copies(b) \in Nat
  BY CopiesTyped DEF CopiesByAttempt
<1> QED
  BY <1>1, BoundTyped
-----------------------------------------------------------------------------
(* The losses. *)

LEMMA LossSets ==
  ASSUME ForwarderTypeOK
  PROVE  /\ Missing \in SUBSET Batch /\ Gone \in SUBSET Batch /\ AtRisk \in SUBSET Batch /\ Gone \subseteq AtRisk
         /\ ToSet(hand) \in SUBSET Batch /\ ToSet(Waiting) \in SUBSET Batch
         /\ ToSet(Pipeline) = ToSet(hand) \union ToSet(Waiting)
         /\ Cardinality(ToSet(hand)) <= Len(hand) /\ Cardinality(ToSet(Pipeline)) <= Len(Pipeline)
         /\ Cardinality(Gone) \in Nat /\ Cardinality(AtRisk) \in Nat
         /\ Cardinality(ToSet(hand)) \in Nat /\ Cardinality(ToSet(Pipeline)) \in Nat
<1>1. hand \in Seq(Batch) /\ Waiting \in Seq(Batch) /\ Pipeline \in Seq(Batch)
  BY WaitingTyped DEF ForwarderTypeOK
<1>2. /\ ToSet(hand) \in SUBSET Batch /\ ToSet(Waiting) \in SUBSET Batch
      /\ Cardinality(ToSet(hand)) <= Len(hand) /\ Cardinality(ToSet(Pipeline)) <= Len(Pipeline)
      /\ Cardinality(ToSet(hand)) \in Nat /\ Cardinality(ToSet(Pipeline)) \in Nat
  BY <1>1, HoldsNoMore
<1>3. ToSet(Pipeline) = ToSet(hand) \union ToSet(Waiting)
  BY <1>1, HoldsConcat DEF Pipeline
<1>4. Missing \in SUBSET Batch /\ Gone \in SUBSET Batch /\ AtRisk \in SUBSET Batch /\ Gone \subseteq AtRisk
  BY <1>2, <1>3 DEF Missing, Gone, AtRisk
<1>5. Cardinality(Gone) \in Nat /\ Cardinality(AtRisk) \in Nat
  BY <1>4, Sizes
<1> QED
  BY <1>2, <1>3, <1>4, <1>5

\* While the worker runs, or once outstanding is read, what is at risk is in dropped.
LEMMA NothingMoreLost ==
  ASSUME ForwarderTypeOK, ForwarderTypeOK', LossesCounted, NEW Lost \in SUBSET Batch,
         ~(worker = "cancelled" /\ shutdown = "aborting"), ~(worker' = "cancelled" /\ shutdown' = "aborting"),
         AtRisk' \subseteq AtRisk \union Lost, dropped' >= dropped + Cardinality(Lost)
  PROVE  LossesCounted'
<1>1. AtRisk \in SUBSET Batch /\ AtRisk \union Lost \in SUBSET Batch /\ AtRisk' \in SUBSET Batch
  BY LossSets
<1>2. Cardinality(AtRisk') <= Cardinality(AtRisk \union Lost)
  BY <1>1, Sizes
<1>3. Cardinality(AtRisk \union Lost) <= Cardinality(AtRisk) + Cardinality(Lost)
  BY <1>1, Sizes
<1>4. /\ Cardinality(AtRisk') \in Nat /\ Cardinality(AtRisk) \in Nat /\ Cardinality(Lost) \in Nat
      /\ Cardinality(AtRisk \union Lost) \in Nat /\ dropped \in Nat /\ dropped' \in Nat
  BY <1>1, Sizes DEF ForwarderTypeOK
<1>5. Cardinality(AtRisk) <= dropped
  BY DEF LossesCounted
<1>6. Cardinality(AtRisk') <= dropped'
  BY <1>2, <1>3, <1>4, <1>5
<1> QED
  BY <1>6 DEF LossesCounted

LEMMA NothingIsLost ==
  ASSUME ForwarderTypeOK, ForwarderTypeOK', LossesCounted,
         ~(worker = "cancelled" /\ shutdown = "aborting"), ~(worker' = "cancelled" /\ shutdown' = "aborting"),
         AtRisk' \subseteq AtRisk, dropped' = dropped
  PROVE  LossesCounted'
<1>1. {} \in SUBSET Batch /\ Cardinality({}) = 0 /\ dropped \in Nat
  BY FS_EmptySet DEF ForwarderTypeOK
<1>2. AtRisk' \subseteq AtRisk \union {} /\ dropped' >= dropped + Cardinality({})
  BY <1>1
<1> QED
  BY <1>1, <1>2, NothingMoreLost

LEMMA RecordKeepsLosses ==
  ASSUME ForwarderTypeOK, ForwarderTypeOK', WorkerShape, LossesCounted, RecordStep
  PROVE  LossesCounted'
<1>1. PICK b \in Batch : CountIn(b) \/ Sent(b) \/ Refused(b) \/ CountOut(b) \/ CountDropped(b)
  BY DEF RecordStep
<1>2. UNCHANGED <<hand, worker, shutdown, arrivals, carry>>
  BY <1>1 DEF CountIn, Sent, Refused, CountOut, CountDropped, workerVars, sinkVars
<1>3. ASSUME ~Sent(b) PROVE UNCHANGED <<Waiting, Pipeline, late>>
  <2>1. UNCHANGED <<queue, late>>
    BY <1>1, <1>3 DEF CountIn, Refused, CountOut, CountDropped, channelVars
  <2> QED
    BY <1>2, <2>1, PipelineStays
<1>4. CASE Sent(b)
  <2>1. worker # "cancelled" /\ worker' = worker
    BY <1>4, SentIsLast DEF workerVars
  <2>2. Waiting' = Waiting \o <<b>> /\ ToSet(Waiting') = ToSet(Waiting) \union {b}
    BY <1>4, SentIsLast, HoldsOneMore, WaitingTyped
  <2>3. ToSet(Pipeline) = ToSet(hand) \union ToSet(Waiting) /\ ToSet(Pipeline') = ToSet(hand) \union ToSet(Waiting')
    <3>1. /\ hand \in Seq(Batch) /\ Waiting' \in Seq(Batch)
          /\ Pipeline' = hand \o Waiting' /\ Pipeline = hand \o Waiting /\ Waiting \in Seq(Batch)
      BY <1>2, <2>2, WaitingTyped, HoldsOneMore DEF ForwarderTypeOK, Pipeline
    <3> QED
      BY <3>1, HoldsConcat
  <2>4. /\ stage' = [stage EXCEPT ![b] = "returned"] /\ stage \in [Batch -> Stages]
        /\ late' = IF shutdown = "abandoned" THEN late \union {b} ELSE late
        /\ dropped' = dropped
    BY <1>4 DEF Sent, Advance, ForwarderTypeOK, counters
  <2>5. Missing' \subseteq Missing \union {b} /\ (shutdown = "abandoned" => Missing' \subseteq Missing)
    BY <1>2, <2>4 DEF Missing
  <2>6. AtRisk' \subseteq AtRisk
    BY <1>2, <2>2, <2>3, <2>4, <2>5 DEF Gone, AtRisk
  <2> QED
    BY <2>1, <2>4, <2>6, NothingIsLost
<1>5. CASE CountIn(b) \/ Refused(b) \/ CountOut(b)
  <2>1. ~Sent(b) /\ Missing' = Missing
    BY <1>2, <1>5 DEF CountIn, Refused, CountOut, Sent, Advance, ForwarderTypeOK, Missing
  <2>2. Gone' = Gone /\ AtRisk' = AtRisk
    BY <1>2, <1>3, <2>1 DEF Gone, AtRisk
  <2>3. dropped' = dropped
    BY <1>5 DEF CountIn, Refused, CountOut, counters
  <2>4. /\ Cardinality(Counting) \in Nat /\ outstanding \in Nat
        /\ Cardinality(Counting') - outstanding' = Cardinality(Counting) - outstanding
        /\ Cardinality(Counting') \in Nat /\ outstanding' \in Nat
    <3>1. Cardinality(Counting) \in Nat /\ outstanding \in Nat /\ outstanding' \in Nat
      BY CountingSizes DEF ForwarderTypeOK
    <3>2. Cardinality(Counting') \in Nat
      BY Sizes DEF Counting
    <3>3. CASE CountIn(b)
      BY <3>1, <3>2, <3>3, CountingMoves, CountingSizes DEF CountIn
    <3>4. CASE Refused(b)
      BY <3>1, <3>2, <3>4, CountingMoves DEF Refused, counters
    <3>5. CASE CountOut(b)
      BY <3>1, <3>2, <3>5, CountingMoves, CountingSizes DEF CountOut
    <3> QED
      BY <1>5, <3>1, <3>2, <3>3, <3>4, <3>5
  <2>5. dropped \in Nat /\ Cardinality(Gone) \in Nat
    BY LossSets DEF ForwarderTypeOK
  <2> QED
    BY <1>2, <2>2, <2>3, <2>4, <2>5 DEF LossesCounted
<1>6. CASE CountDropped(b)
  <2>1. ~Sent(b) /\ Missing' \subseteq Missing \union {b} /\ dropped' = dropped + 1 /\ outstanding' = outstanding
    BY <1>2, <1>6 DEF CountDropped, Sent, Advance, ForwarderTypeOK, Missing
  <2>2. Gone' \subseteq Gone \union {b} /\ AtRisk' \subseteq AtRisk \union {b}
    BY <1>2, <1>3, <2>1 DEF Gone, AtRisk
  <2>3. Cardinality({b}) = 1 /\ {b} \in SUBSET Batch
    BY FS_Singleton
  <2>4. CASE worker = "cancelled" /\ shutdown = "aborting"
    <3>1. Gone \in SUBSET Batch /\ Gone \union {b} \in SUBSET Batch /\ Gone' \in SUBSET Batch
      BY <2>2, LossSets
    <3>2. Cardinality(Gone') <= Cardinality(Gone \union {b})
      BY <2>2, <3>1, Sizes
    <3>3. Cardinality(Gone \union {b}) <= Cardinality(Gone) + 1
      BY <2>3, <3>1, Sizes
    <3>4. /\ Cardinality(Gone') \in Nat /\ Cardinality(Gone \union {b}) \in Nat /\ Cardinality(Gone) \in Nat
          /\ Cardinality(Counting) \in Nat /\ dropped \in Nat /\ outstanding \in Nat
      BY <3>1, Sizes, CountingSizes DEF ForwarderTypeOK
    <3>5. Counting' = Counting
      BY <1>6, CountingMoves
    <3>6. Cardinality(Gone) + Cardinality(Counting) <= dropped + outstanding
      BY <2>4 DEF LossesCounted
    <3>7. Cardinality(Gone') + Cardinality(Counting') <= dropped' + outstanding'
      BY <2>1, <3>2, <3>3, <3>4, <3>5, <3>6
    <3> QED
      BY <1>2, <2>4, <3>7 DEF LossesCounted
  <2>5. CASE ~(worker = "cancelled" /\ shutdown = "aborting")
    <3>1. dropped' >= dropped + Cardinality({b})
      BY <2>1, <2>3 DEF ForwarderTypeOK
    <3> QED
      BY <1>2, <2>2, <2>3, <2>5, <3>1, NothingMoreLost
  <2> QED
    BY <2>4, <2>5
<1> QED
  BY <1>1, <1>4, <1>5, <1>6

LEMMA WorkerKeepsLosses ==
  ASSUME ForwarderTypeOK, ForwarderTypeOK', WorkerShape, LossesCounted, IngestedArrived, SelectStep \/ PostStep
  PROVE  LossesCounted'
<1>1. /\ ToSet(Pipeline) = ToSet(hand) \union ToSet(Waiting) /\ ToSet(hand) \in SUBSET Batch
      /\ Cardinality(ToSet(hand)) <= Len(hand) /\ Cardinality(ToSet(hand)) \in Nat /\ Len(hand) \in Nat
      /\ dropped \in Nat
  BY LossSets, WaitingTyped DEF ForwarderTypeOK
<1>2. CASE TakeCarry \/ Receive \/ CoalesceOne
  <2>1. /\ worker \in {"select", "coalesce"} /\ worker' \in {"coalesce", "post"} /\ Pipeline' = Pipeline
        /\ UNCHANGED <<stage, late, arrivals, shutdown, dropped>>
    BY <1>2, TakenInOrder DEF recorderVars, counters
  <2>2. (ToSet(Pipeline) = ToSet(hand) \union ToSet(Waiting))'
    BY HoldsPipeline, PTL
  <2>3. AtRisk' \subseteq AtRisk
    BY <1>1, <2>1, <2>2 DEF AtRisk, Gone, Missing
  <2> QED
    BY <2>1, <2>3, NothingIsLost
<1>3. CASE Settle
  <2>1. /\ worker = "settle" /\ worker' = "select" /\ hand' = <<>> /\ ToSet(hand') = {}
        /\ Pipeline' = Waiting /\ Waiting' = Waiting /\ UNCHANGED <<stage, late, arrivals, shutdown, dropped>>
    BY <1>3, SettledIsFirst DEF Settle, recorderVars, ToSet
  <2>2. AtRisk' \subseteq AtRisk
    BY <1>1, <2>1 DEF AtRisk, Gone, Missing
  <2> QED
    BY <2>1, <2>2, NothingIsLost
<1>4. CASE StartDrain \/ DrainEnds \/ CoalesceEnds \/ Answered \/ AttemptFails \/ CountFailed
  <2>1. /\ worker # "cancelled" /\ worker' # "cancelled"
        /\ UNCHANGED <<stage, late, hand, arrivals, shutdown, Pipeline, Waiting>>
    BY <1>4, WorkerHolds, PipelineStays DEF recorderVars
  <2>2. CASE CountFailed
    <3>1. worker = "failed" /\ worker' = "settle" /\ dropped' = dropped + Len(hand)
      BY <2>2 DEF CountFailed
    <3>2. AtRisk' \subseteq AtRisk \union ToSet(hand)
      BY <2>1, <3>1 DEF AtRisk, Gone, Missing
    <3>3. dropped' >= dropped + Cardinality(ToSet(hand))
      BY <1>1, <3>1
    <3> QED
      BY <1>1, <2>1, <3>2, <3>3, NothingMoreLost
  <2>3. CASE ~CountFailed
    <3>1. dropped' = dropped
      BY <1>4, <2>3 DEF StartDrain, DrainEnds, CoalesceEnds, Answered, AttemptFails, counters
    <3>2. worker # "settle" /\ (worker' = "settle" => \A b \in ToSet(hand) : arrivals[b] > 0)
      BY <1>4, <2>3 DEF StartDrain, DrainEnds, CoalesceEnds, Answered, AttemptFails, IngestedArrived
    <3>3. worker' = "settle" => Missing \intersect ToSet(hand) = {}
      BY <3>2 DEF Missing
    <3>4. AtRisk' \subseteq AtRisk
      BY <2>1, <3>2, <3>3 DEF AtRisk, Gone, Missing
    <3> QED
      BY <2>1, <3>1, <3>4, NothingIsLost
  <2> QED
    BY <2>2, <2>3
<1> QED
  BY <1>2, <1>3, <1>4 DEF SelectStep, PostStep

\* The task is dropped with all it holds: what that is, outstanding still says.
LEMMA CancelledKeepsLosses ==
  ASSUME ForwarderTypeOK, ForwarderTypeOK', OutstandingCounts, LossesCounted, Cancelled
  PROVE  LossesCounted'
<1>1. /\ worker # "cancelled" /\ worker' = "cancelled" /\ shutdown' = shutdown
      /\ shutdown \in {"aborting", "abandoned"}
      /\ UNCHANGED <<stage, late, arrivals, dropped, outstanding>>
  BY DEF Cancelled, recorderVars, counters, aborted
<1>2. ToSet(Pipeline') = {} /\ ToSet(Waiting') = {} /\ ToSet(hand') = {}
  BY CancelledEmpties DEF Cancelled, ToSet
<1>3. /\ ToSet(Pipeline) = ToSet(hand) \union ToSet(Waiting) /\ Gone \in SUBSET Batch /\ Missing \in SUBSET Batch
      /\ ToSet(hand) \in SUBSET Batch /\ ToSet(Waiting) \in SUBSET Batch
      /\ Cardinality(ToSet(Pipeline)) <= Len(Pipeline) /\ Cardinality(ToSet(Pipeline)) \in Nat
      /\ Cardinality(Gone) \in Nat
  BY LossSets
<1>4. Gone' = Missing /\ AtRisk' = Missing /\ Missing \subseteq Gone \union (ToSet(Pipeline) \ late)
  BY <1>1, <1>2, <1>3 DEF Gone, AtRisk, Missing
<1>5. CASE shutdown = "abandoned"
  <2>1. AtRisk' \subseteq AtRisk
    BY <1>4, <1>5 DEF AtRisk
  <2> QED
    BY <1>1, <1>5, <2>1, NothingIsLost
<1>6. CASE shutdown = "aborting"
  <2>1. Cardinality(Missing) <= Cardinality(Gone \union ToSet(Pipeline))
    BY <1>3, <1>4, Sizes
  <2>2. Cardinality(Gone \union ToSet(Pipeline)) <= Cardinality(Gone) + Cardinality(ToSet(Pipeline))
    BY <1>3, Sizes
  <2>3. Cardinality(Gone) <= dropped
    BY <1>1, <1>6 DEF LossesCounted, AtRisk
  <2>4. outstanding = Cardinality(Counting) + Len(Pipeline) /\ Counting' = Counting
    BY <1>1 DEF OutstandingCounts, Counting
  <2>5. /\ Cardinality(Missing) \in Nat /\ Cardinality(Gone \union ToSet(Pipeline)) \in Nat
        /\ Cardinality(Counting) \in Nat /\ dropped \in Nat /\ outstanding \in Nat /\ Len(Pipeline) \in Nat
    <3>1. Cardinality(Missing) \in Nat
      BY <1>3, Sizes
    <3>2. Cardinality(Gone \union ToSet(Pipeline)) \in Nat
      <4>1. Gone \union ToSet(Pipeline) \in SUBSET Batch
        BY <1>3
      <4> QED
        BY <4>1, Sizes
    <3>3. dropped \in Nat /\ outstanding \in Nat
      BY DEF ForwarderTypeOK
    <3> QED
      BY <3>1, <3>2, <3>3, CountingSizes, WaitingTyped
  <2>6. Cardinality(Gone') + Cardinality(Counting') <= dropped' + outstanding'
    BY <1>1, <1>3, <1>4, <2>1, <2>2, <2>3, <2>4, <2>5
  <2> QED
    BY <1>1, <1>6, <2>6 DEF LossesCounted
<1> QED
  BY <1>1, <1>5, <1>6

LEMMA SinkKeepsLosses ==
  ASSUME ForwarderTypeOK, ForwarderTypeOK', LossesCounted, SinkStep
  PROVE  LossesCounted' /\ \A b \in Batch : arrivals'[b] >= arrivals[b]
<1>1. /\ UNCHANGED <<stage, late, hand, worker, shutdown, dropped, outstanding, Pipeline, Waiting>>
  BY OthersHold, PipelineStays DEF recorderVars, channelVars, workerVars, SinkStep, SinkIngests, SinkRejects,
     StrayArrives, counters
<1>2. \A b \in Batch : arrivals'[b] >= arrivals[b] /\ arrivals[b] \in Nat /\ arrivals'[b] \in Nat
  <2>1. ASSUME NEW s \in Seq(Batch), Ingested(s) PROVE \A b \in Batch : arrivals'[b] >= arrivals[b]
    <3> DEFINE times(b) == Cardinality({i \in DOMAIN s : s[i] = b})
    <3>1. arrivals' = [b \in Batch |-> arrivals[b] + times(b)]
      BY <2>1 DEF Ingested
    <3>2. \A b \in Batch : times(b) \in Nat
      BY TimesTyped
    <3> HIDE DEF times
    <3> QED
      BY <3>1, <3>2 DEF ForwarderTypeOK
  <2>2. arrivals' = arrivals \/ \E s \in Seq(Batch) : Ingested(s)
    BY DEF SinkStep, SinkIngests, SinkRejects, StrayArrives, ForwarderTypeOK, Requests
  <2>3. \A b \in Batch : arrivals[b] \in Nat /\ arrivals'[b] \in Nat
    BY DEF ForwarderTypeOK
  <2> QED
    BY <2>1, <2>2, <2>3
<1>3. Missing' \subseteq Missing
  BY <1>1, <1>2 DEF Missing
<1>4. Gone' \subseteq Gone /\ AtRisk' \subseteq AtRisk /\ Counting' = Counting
  BY <1>1, <1>3 DEF Gone, AtRisk, Counting
<1>5. CASE worker = "cancelled" /\ shutdown = "aborting"
  <2>1. Cardinality(Gone') <= Cardinality(Gone) /\ Cardinality(Gone') \in Nat /\ Cardinality(Gone) \in Nat
    <3>1. Gone \in SUBSET Batch /\ Gone' \in SUBSET Batch
      BY <1>4, LossSets
    <3> QED
      BY <1>4, <3>1, Sizes
  <2>2. Cardinality(Counting) \in Nat /\ dropped \in Nat /\ outstanding \in Nat
    BY CountingSizes DEF ForwarderTypeOK
  <2> QED
    BY <1>1, <1>2, <1>4, <1>5, <2>1, <2>2 DEF LossesCounted
<1>6. CASE ~(worker = "cancelled" /\ shutdown = "aborting")
  BY <1>1, <1>2, <1>4, <1>6, NothingIsLost
<1> QED
  BY <1>2, <1>5, <1>6

LEMMA ShutdownKeepsLosses ==
  ASSUME ForwarderTypeOK, ForwarderTypeOK', WorkerShape, OutstandingCounts, LossesCounted, ShutdownStep
  PROVE  LossesCounted'
<1>1. UNCHANGED <<stage, late, hand, worker, arrivals, outstanding, Pipeline, Waiting>>
  BY OthersHold, PipelineStays DEF recorderVars, channelVars, workerVars, ShutdownStep, Shutdown,
     ShutdownReturns, ShutdownTimesOut, CountAbandoned, sinkVars, counters
<1>2. Gone' = Gone
  BY <1>1 DEF Gone, Missing
<1>3. CASE Shutdown \/ ShutdownReturns \/ ShutdownTimesOut
  <2>1. /\ shutdown \in {"none", "waiting"} /\ shutdown' # "abandoned" /\ dropped' = dropped /\ worker # "cancelled"
    BY <1>3 DEF Shutdown, ShutdownReturns, ShutdownTimesOut, counters, WorkerShape, aborted
  <2>2. AtRisk' \subseteq AtRisk
    BY <1>2, <2>1 DEF AtRisk
  <2> QED
    BY <1>1, <2>1, <2>2, NothingIsLost
<1>4. CASE CountAbandoned
  <2>1. shutdown = "aborting" /\ shutdown' = "abandoned" /\ dropped' = dropped + outstanding
    BY <1>4 DEF CountAbandoned
  <2>2. /\ Gone \in SUBSET Batch /\ Cardinality(Gone) \in Nat /\ Cardinality(ToSet(Pipeline)) \in Nat
        /\ Cardinality(ToSet(Pipeline)) <= Len(Pipeline) /\ ToSet(Pipeline) \in SUBSET Batch
        /\ Cardinality(Counting) \in Nat /\ dropped \in Nat /\ outstanding \in Nat /\ Len(Pipeline) \in Nat
    <3>1. dropped \in Nat /\ outstanding \in Nat
      BY DEF ForwarderTypeOK
    <3>2. ToSet(Pipeline) \in SUBSET Batch
      BY LossSets
    <3> QED
      BY <3>1, <3>2, LossSets, CountingSizes, WaitingTyped
  <2>3. AtRisk' = Gone \union (ToSet(Pipeline) \ late)
    BY <1>1, <1>2, <2>1 DEF AtRisk
  <2>4. CASE worker = "cancelled"
    <3>1. ToSet(Pipeline) = {}
      <4>1. ToSet(hand) = {} /\ Waiting = <<>> \o <<>>
        BY <2>4 DEF WorkerShape, Waiting, ToSet
      <4>2. ToSet(Waiting) = {}
        BY <4>1 DEF ToSet
      <4> QED
        BY <4>1, <4>2, LossSets
    <3>2. AtRisk' = Gone /\ Cardinality(Gone) + Cardinality(Counting) <= dropped + outstanding
      BY <2>1, <2>3, <2>4, <3>1 DEF LossesCounted
    <3>3. Cardinality(AtRisk') <= dropped'
      BY <2>1, <2>2, <3>2
    <3> QED
      BY <2>1, <3>3 DEF LossesCounted
  <2>5. CASE worker # "cancelled"
    <3>1. Cardinality(AtRisk') <= Cardinality(Gone \union ToSet(Pipeline))
      BY <2>2, <2>3, Sizes
    <3>2. Cardinality(Gone \union ToSet(Pipeline)) <= Cardinality(Gone) + Cardinality(ToSet(Pipeline))
      BY <2>2, Sizes
    <3>3. Cardinality(AtRisk') \in Nat /\ Cardinality(Gone \union ToSet(Pipeline)) \in Nat
      BY <2>2, <2>3, Sizes
    <3>4. Cardinality(Gone) <= dropped /\ outstanding = Cardinality(Counting) + Len(Pipeline)
      BY <2>1, <2>5 DEF LossesCounted, AtRisk, OutstandingCounts
    <3>5. Cardinality(AtRisk') <= dropped'
      BY <2>1, <2>2, <3>1, <3>2, <3>3, <3>4
    <3> QED
      BY <2>1, <3>5 DEF LossesCounted
  <2> QED
    BY <2>4, <2>5
<1> QED
  BY <1>3, <1>4 DEF ShutdownStep

LEMMA StepKeepsLosses ==
  ASSUME ForwarderTypeOK, ForwarderTypeOK', WorkerShape, OutstandingCounts, LossesCounted, IngestedArrived,
         ForwarderNext
  PROVE  LossesCounted'
BY RecordKeepsLosses, WorkerKeepsLosses, CancelledKeepsLosses, SinkKeepsLosses, ShutdownKeepsLosses
   DEF ForwarderNext

\* Only the sink makes an answer that it has ingested the batches, and what it has it keeps.
LEMMA StepKeepsArrived ==
  ASSUME ForwarderTypeOK, ForwarderTypeOK', WorkerShape, ShutdownDrains, AcceptedOnce, LossesCounted,
         IngestedArrived, ForwarderNext
  PROVE  IngestedArrived'
<1>1. CASE SinkIngests
  <2>1. /\ worker = "post" /\ hand' = hand /\ Ingested(hand)
    BY <1>1 DEF SinkIngests, WorkerShape, workerVars
  <2>2. IsInjective(hand) /\ hand \in Seq(Batch) /\ ToSet(hand) \subseteq Batch
    BY <2>1, HandApart, LossSets DEF ForwarderTypeOK
  <2>3. ASSUME NEW b \in ToSet(hand) PROVE arrivals'[b] > 0
    <3> DEFINE times(c) == Cardinality({i \in DOMAIN hand : hand[i] = c})
    <3>1. arrivals' = [c \in Batch |-> arrivals[c] + times(c)] /\ b \in Batch
      BY <2>1, <2>2, <2>3 DEF Ingested
    <3>2. times(b) = 1
      BY <2>2, <2>3, <3>1, TimesIn
    <3> HIDE DEF times
    <3> QED
      BY <3>1, <3>2 DEF ForwarderTypeOK
  <2> QED
    BY <2>1, <2>3 DEF IngestedArrived
<1>2. CASE SinkStep /\ ~SinkIngests
  <2>1. UNCHANGED <<worker, hand>> /\ (request' = "ingested" => request = "ingested")
    BY <1>2, OthersHold DEF SinkStep, SinkRejects, StrayArrives, workerVars
  <2>2. /\ \A b \in Batch : arrivals[b] \in Nat /\ arrivals'[b] \in Nat /\ arrivals'[b] >= arrivals[b]
        /\ ToSet(hand) \subseteq Batch
    BY <1>2, SinkKeepsLosses, LossSets DEF ForwarderTypeOK
  <2> QED
    BY <2>1, <2>2 DEF IngestedArrived
<1>3. CASE RecordStep \/ ShutdownStep
  <2>1. UNCHANGED <<worker, hand, request, arrivals>>
    BY <1>3 DEF RecordStep, CountIn, Sent, Refused, CountOut, CountDropped, ShutdownStep, Shutdown,
       ShutdownReturns, ShutdownTimesOut, CountAbandoned, workerVars, sinkVars
  <2> QED
    BY <2>1 DEF IngestedArrived
<1>4. CASE SelectStep \/ PostStep \/ Cancelled
  <2>1. worker' # "post" \/ request' = "sent"
    BY <1>4 DEF SelectStep, PostStep, TakeCarry, Receive, StartDrain, DrainEnds, CoalesceOne, CoalesceEnds,
       Answered, AttemptFails, CountFailed, Settle, Cancelled
  <2> QED
    BY <2>1 DEF IngestedArrived
<1> QED
  BY <1>1, <1>2, <1>3, <1>4 DEF ForwarderNext

-----------------------------------------------------------------------------
(* The theorems. *)

LEMMA FitsInitially == ForwarderInit => ForwarderFits
<1> SUFFICES ASSUME ForwarderInit
             PROVE  ForwarderFits
  OBVIOUS
<1> USE DEF ForwarderInit
<1>1. /\ <<>> \in Seq(Batch) /\ Len(<<>>) = 0 /\ <<>> \o <<>> = <<>> /\ DOMAIN <<>> = {}
      /\ \A b : b \notin ToSet(<<>>)
  BY DEF ToSet
<1>2. Pipeline = <<>> /\ Waiting = <<>>
  BY <1>1 DEF Pipeline, Waiting
<1>3. IsFiniteSet({}) /\ Cardinality({}) = 0
  BY FS_EmptySet
<1>4. ForwarderTypeOK
  <2>1. /\ 0 <= Capacity /\ 0 <= MaxBatches /\ 1 \in 1..MaxAttempts /\ MaxFaults \in 0..MaxFaults
    BY ForwarderAssumption
  <2>2. stage \in [Batch -> Stages] /\ arrivals \in [Batch -> Nat]
    BY DEF Stages
  <2> QED
    BY <1>1, <2>1, <2>2 DEF ForwarderTypeOK
<1>5. WorkerShape
  BY DEF WorkerShape, aborted
<1>6. OutstandingCounts
  <2>1. Counting = {}
    BY DEF Counting
  <2> QED
    BY <1>1, <1>2, <1>3, <2>1 DEF OutstandingCounts
<1>7. ShutdownDrains
  BY <1>1, <1>2 DEF ShutdownDrains
<1>8. AcceptedOnce
  BY <1>1 DEF AcceptedOnce, IsInjective
<1>9. CopiesByAttempt
  <2>1. ASSUME NEW b \in Batch PROVE Copies(b) <= SentAtMost(b)
    <3>1. {r \in stray : b \in ToSet(r.batches)} = {}
      OBVIOUS
    <3>2. Copies(b) = 0
      BY <1>3, <3>1 DEF Copies
    <3>3. SentAtMost(b) = 0
      BY <1>1 DEF SentAtMost
    <3> QED
      BY <3>2, <3>3
  <2> QED
    BY <1>3, <2>1 DEF CopiesByAttempt
<1>10. LossesCounted
  <2>1. AtRisk = {}
    BY DEF AtRisk, Gone, Missing
  <2> QED
    BY <1>3, <2>1 DEF LossesCounted
<1>11. IngestedArrived
  BY DEF IngestedArrived
<1> QED
  BY <1>4, <1>5, <1>6, <1>7, <1>8, <1>9, <1>10, <1>11 DEF ForwarderFits

LEMMA StepKeepsFits == ForwarderFits /\ [ForwarderNext]_forwarderVars => ForwarderFits'
<1> SUFFICES ASSUME ForwarderFits, [ForwarderNext]_forwarderVars
             PROVE  ForwarderFits'
  OBVIOUS
<1> USE DEF ForwarderFits
<1>1. CASE ForwarderNext
  <2>1. ForwarderTypeOK' /\ WorkerShape'
    BY <1>1, StepTyped
  <2>2. OutstandingCounts'
    BY <1>1, StepCounts
  <2>3. AcceptedOnce'
    BY <1>1, SentOnce, OthersAccepted
  <2>4. ShutdownDrains'
    BY <1>1, StepOrders
  <2>5. CopiesByAttempt'
    BY <1>1, <2>1, <2>3, <2>4, StepKeepsCopies
  <2>6. IngestedArrived'
    BY <1>1, <2>1, StepKeepsArrived
  <2>7. LossesCounted'
    BY <1>1, <2>1, StepKeepsLosses
  <2> QED
    BY <2>1, <2>2, <2>3, <2>4, <2>5, <2>6, <2>7
<1>2. CASE UNCHANGED forwarderVars
  <2> USE <1>2 DEF forwarderVars, recorderVars, channelVars, workerVars, sinkVars, counters
  <2>1. Pipeline' = Pipeline /\ Waiting' = Waiting
    BY PipelineStays
  <2>2. ForwarderTypeOK' /\ WorkerShape'
    BY DEF ForwarderTypeOK, WorkerShape, aborted
  <2>3. OutstandingCounts' /\ ShutdownDrains' /\ AcceptedOnce'
    BY <2>1 DEF OutstandingCounts, ShutdownDrains, AcceptedOnce, Counting
  <2>4. CopiesByAttempt'
    BY <2>1 DEF CopiesByAttempt, Copies, SentAtMost
  <2>5. IngestedArrived' /\ LossesCounted'
    BY <2>1 DEF IngestedArrived, LossesCounted, AtRisk, Gone, Missing, Counting
  <2> QED
    BY <2>2, <2>3, <2>4, <2>5
<1> QED
  BY <1>1, <1>2

LEMMA AlwaysFits == ForwarderSpec => []ForwarderFits
BY FitsInitially, StepKeepsFits, PTL DEF ForwarderSpec

\* The count, the order and the copies of the batches are right whatever the callers,
\* the worker, the sink and shutdown do in whatever order (record_async,
\* post_coalesced, post, shutdown).
THEOREM ForwarderInvariance == ForwarderSpec => []ForwarderInv
<1>1. ForwarderFits => ForwarderInv
  BY CopiesAreBounded DEF ForwarderFits, ForwarderInv
<1> QED
  BY <1>1, AlwaysFits, PTL

\* No batch that was recorded in time disappears without being counted as dropped,
\* also when shutdown times out over a worker that runs on, or is cancelled before
\* or after outstanding is read (post, shutdown).
THEOREM LossesAreCounted == ForwarderSpec => []NothingLostUnnoticed
<1>1. ForwarderFits => NothingLostUnnoticed
  <2> SUFFICES ASSUME ForwarderFits
               PROVE  NothingLostUnnoticed
    OBVIOUS
  <2> USE DEF ForwarderFits
  <2> DEFINE lost == Missing \ ToSet(Pipeline)
  <2>1. /\ lost \subseteq Gone /\ Gone \subseteq AtRisk /\ Gone \in SUBSET Batch /\ AtRisk \in SUBSET Batch
        /\ Cardinality(Gone) \in Nat /\ Cardinality(AtRisk) \in Nat
    BY LossSets DEF Gone
  <2>2. lost \in SUBSET Batch
    BY <2>1
  <2> HIDE DEF lost
  <2>3. Cardinality(lost) <= Cardinality(Gone) /\ Cardinality(lost) \in Nat
    BY <2>1, <2>2, Sizes
  <2>4. Cardinality(Gone) <= Cardinality(AtRisk)
    BY <2>1, Sizes
  <2>5. dropped \in Nat /\ outstanding \in Nat /\ Cardinality(Counting) \in Nat
    BY CountingSizes DEF ForwarderTypeOK
  <2>6. Cardinality(lost) <= dropped + (IF shutdown = "aborting" THEN outstanding ELSE 0)
    BY <2>1, <2>3, <2>4, <2>5 DEF LossesCounted
  <2> QED
    BY <2>6 DEF NothingLostUnnoticed, lost
<1> QED
  BY <1>1, AlwaysFits, PTL

=============================================================================
