------------------------------ MODULE FencedLog ------------------------------
(***************************************************************************)
(* What the lease, the commit path and the tailers promise together: a log *)
(* that grows epoch by epoch, written by the newest epoch only, of which   *)
(* every reader sees a prefix that no later commit can change.  It says    *)
(* nothing of processes, promotions or repeatable timestamps.              *)
(***************************************************************************)
EXTENDS Naturals

CONSTANTS
  Reader,
  Ts       \* commit timestamps

VARIABLES
  entries, \* the committed transactions, [ts, lease]
  epoch,   \* the epoch that may write
  reading, \* the readers that serve
  upTo,    \* where the prefix of a reader ends
  seen     \* the prefix

FencedVars == <<entries, epoch, reading, upTo, seen>>

FencedInit ==
  /\ entries = {} /\ epoch = 0 /\ reading = {}
  /\ upTo = [r \in Reader |-> 0] /\ seen = [r \in Reader |-> {}]

NewEpoch == epoch' \in Nat /\ epoch' > epoch /\ UNCHANGED <<entries, reading, upTo, seen>>

\* A commit lands above every earlier epoch and above what anyone has read.
Append ==
  /\ \E t \in Ts :
       /\ entries' = entries \union {[ts |-> t, lease |-> epoch]}
       /\ \A d \in entries : d.lease < epoch => d.ts < t
       /\ \A r \in reading : upTo[r] < t
  /\ UNCHANGED <<epoch, reading, upTo, seen>>

\* A reader starts anywhere, moves forward, or stops.
Read(r) ==
  /\ UNCHANGED <<entries, epoch>>
  /\ reading' = reading \union {r}
  /\ \E t \in Ts \union {0} :
       /\ r \in reading => t >= upTo[r]
       /\ upTo' = [upTo EXCEPT ![r] = t]
       /\ seen' = [seen EXCEPT ![r] = {d \in entries : d.ts <= t}]

Leave(r) ==
  /\ UNCHANGED <<entries, epoch>>
  /\ reading' = reading \ {r}
  /\ upTo' = [upTo EXCEPT ![r] = 0] /\ seen' = [seen EXCEPT ![r] = {}]

FencedNext == NewEpoch \/ Append \/ \E r \in Reader : Read(r) \/ Leave(r)

FencedSpec == FencedInit /\ [][FencedNext]_FencedVars
==============================================================================
