------------------------------ MODULE RecentRows ------------------------------
(***************************************************************************)
(* What the insights store promises: for each deployment by itself, the    *)
(* most recent rows in the order in which they came, no more than Cap.     *)
(***************************************************************************)
EXTENDS Naturals, Sequences

CONSTANTS Deployment, Row, Cap

VARIABLE recent  \* of each deployment, the oldest first

RecentInit == recent = [d \in Deployment |-> <<>>]

Add(d, r) ==
  recent' = [recent EXCEPT ![d] = IF Len(@) < Cap THEN Append(@, r) ELSE Append(Tail(@), r)]

RecentNext == \E d \in Deployment, r \in Row : Add(d, r)

RecentSpec == RecentInit /\ [][RecentNext]_recent
===============================================================================
