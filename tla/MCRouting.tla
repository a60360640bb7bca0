------------------------------ MODULE MCRouting ------------------------------
(* Instance for TLC of the way of a leader to the proxy: Routing, and a small   *)
(* usher to see its requests through.  Usher takes the tracker's view as given, *)
(* so a behaviour is one of a single part, and the other stays as it began.     *)
EXTENDS Routing, MCUsher

CONSTANTS b1, b2

VARIABLE part

MCInit == part \in {"feed", "requests"} /\ Init /\ UsherInit

MCNext ==
  \/ part = "feed" /\ Next /\ UNCHANGED <<part, usherVars>>
  \/ part = "requests" /\ UsherNext /\ UNCHANGED <<part, vars>>

MCSpec ==
  /\ MCInit /\ [][MCNext]_<<part, vars, usherVars>>
  /\ (part = "feed" /\ PollFairness) \/ (part = "requests" /\ UsherFairness)
==============================================================================
