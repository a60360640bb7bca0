------------------------------ MODULE MCElection ------------------------------
(* Instance of Election and its audit for TLC: the pod of the lower name is the
   configured leader. *)
EXTENDS ElectionAudit
MCPriority == [p \in Pod |-> IF p = 1 THEN 100 ELSE 0]
=============================================================================
