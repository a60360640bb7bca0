------------------------------- MODULE Insights -------------------------------
(***************************************************************************)
(* bigbrain's insights store: one ring of rows for each deployment, and    *)
(* the read limits that came with the last post.  The handler of a post    *)
(* pushes its rows one by one under the lock, the handlers of other posts  *)
(* and of queries wait for it.                                             *)
(*                                                                         *)
(* Abstracted: a row is its name; the rows of a post are those that        *)
(* makeRows keeps; how rows are made and what a query makes of them is     *)
(* InsightsQuery's.                                                        *)
(***************************************************************************)
EXTENDS Naturals, Sequences

CONSTANTS
  Deployment,
  Row,
  ReadLimits,  \* what a post may bring as limits
  ValidLimits, \* those of them that are in range
  NoLimits,    \* of a deployment that has sent nothing
  NoOne,       \* nobody holds the lock
  RingCap,     \* BIGBRAIN_INSIGHTS_RING_CAP
  MaxRows      \* bound on the rows of one post

ASSUME InsightsAssumption ==
  /\ RingCap \in Nat \ {0} /\ MaxRows \in Nat
  /\ ValidLimits \subseteq ReadLimits /\ NoLimits \notin ReadLimits
  /\ NoOne \notin Deployment

VARIABLES
  rows,    \* deploymentRows.rows
  start,   \* deploymentRows.start, counted from 0 as in the code
  limits,  \* deploymentRows.limits
  holder,  \* the deployment whose post holds memMu
  todo     \* its rows that are not pushed yet

vars == <<rows, start, limits, holder, todo>>

InsightsTypeOK ==
  /\ rows \in [Deployment -> Seq(Row)]
  /\ start \in [Deployment -> Nat]
  /\ limits \in [Deployment -> ValidLimits \union {NoLimits}]
  /\ holder \in Deployment \union {NoOne} /\ todo \in Seq(Row)

Init ==
  /\ rows = [d \in Deployment |-> <<>>] /\ start = [d \in Deployment |-> 0]
  /\ limits = [d \in Deployment |-> NoLimits]
  /\ holder = NoOne /\ todo = <<>>

\* Ingest, up to its loop; limits out of range change nothing.
Ingest(d, l, rs) ==
  /\ holder = NoOne /\ l \in ValidLimits
  /\ holder' = d /\ todo' = rs
  /\ limits' = [limits EXCEPT ![d] = l]
  /\ UNCHANGED <<rows, start>>

\* Mutant: the oldest row is the first of the slice.
push_FirstSlot(d, r) ==
  IF Len(rows[d]) < RingCap
  THEN rows' = [rows EXCEPT ![d] = Append(@, r)] /\ UNCHANGED start
  ELSE /\ rows' = [rows EXCEPT ![d][1] = r]
       /\ start' = [start EXCEPT ![d] = (@ + 1) % RingCap]

\* Mutant: the position wraps one slot late.
push_LateWrap(d, r) ==
  IF Len(rows[d]) < RingCap
  THEN rows' = [rows EXCEPT ![d] = Append(@, r)] /\ UNCHANGED start
  ELSE /\ rows' = [rows EXCEPT ![d][start[d] + 1] = r]
       /\ start' = [start EXCEPT ![d] = (@ + 1) % (RingCap + 1)]

\* deploymentRows.push
push(d, r) ==
  IF Len(rows[d]) < RingCap
  THEN rows' = [rows EXCEPT ![d] = Append(@, r)] /\ UNCHANGED start
  ELSE /\ rows' = [rows EXCEPT ![d][start[d] + 1] = r]
       /\ start' = [start EXCEPT ![d] = (@ + 1) % Len(rows[d])]

\* One turn of the loop of Ingest.
PushRow ==
  /\ holder # NoOne /\ todo # <<>>
  /\ push(holder, Head(todo)) /\ todo' = Tail(todo)
  /\ UNCHANGED <<limits, holder>>

Unlock ==
  /\ holder # NoOne /\ todo = <<>>
  /\ holder' = NoOne
  /\ UNCHANGED <<rows, start, limits, todo>>

\* Once round a slice s from its position k.
readFrom(s, k) == [n \in 1..Len(s) |-> s[((k + n - 1) % Len(s)) + 1]]

\* What a query reads, the oldest row first.
readOut(d) == readFrom(rows[d], start[d])

Posts == UNION {[1..n -> Row] : n \in 0..MaxRows}

Next ==
  \/ \E d \in Deployment, l \in ReadLimits, rs \in Posts : Ingest(d, l, rs)
  \/ PushRow
  \/ Unlock

Spec == Init /\ [][Next]_vars

-----------------------------------------------------------------------------
(* Properties. *)

\* The next slot to overwrite is inside the slice, and the first one until the
\* slice has grown to its full size: no push and no read is out of range (push,
\* rows).
RingShape ==
  /\ \A d \in Deployment :
       /\ Len(rows[d]) <= RingCap
       /\ IF Len(rows[d]) < RingCap THEN start[d] = 0 ELSE start[d] < RingCap
       /\ rows[d] # <<>> => limits[d] # NoLimits
  /\ holder = NoOne => todo = <<>>
  /\ holder # NoOne => limits[holder] # NoLimits

\* The inductive invariant behind the refinement below.
InsightsInv == InsightsTypeOK /\ RingShape

\* The rings implement RecentRows: a query sees the rows that came last, in their
\* order, also after a ring has wrapped any number of times, and a deployment that
\* floods its own ring evicts nothing of another (Ingest, push, rows).
Recent == INSTANCE RecentRows WITH
            Cap <- RingCap, recent <- [d \in Deployment |-> readOut(d)]

RecentImplemented == Recent!RecentSpec
===============================================================================
