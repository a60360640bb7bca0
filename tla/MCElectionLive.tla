---------------------------- MODULE MCElectionLive ----------------------------
(* Instance of Election for TLC's liveness checks. *)
EXTENDS Election
MCPriority == [p \in Pod |-> IF p = 1 THEN 100 ELSE 0]
===============================================================================
