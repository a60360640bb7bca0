------------------------------- MODULE MCDecide -------------------------------
(* Instance of DecideLoops for TLC: three pods, two of one priority, and every
   kind of answer the comparisons tell apart. *)
EXTENDS DecideLoops

MCPriority == [p \in Listed |-> IF p = 3 THEN 100 ELSE 0]

Silent == [reach |-> FALSE, isLeader |-> FALSE, promoting |-> FALSE, lease |-> 0,
           unverified |-> FALSE, healthy |-> FALSE, latest |-> 0, restarts |-> 0,
           wasTransitioning |-> FALSE]

Standby(healthy, latest) == [Silent EXCEPT !.reach = TRUE, !.healthy = healthy, !.latest = latest]

Leads(lease, unverified) ==
  [Silent EXCEPT !.reach = TRUE, !.isLeader = TRUE, !.lease = lease,
                 !.unverified = unverified, !.latest = 1]

MCAnswers ==
  {Silent, [Silent EXCEPT !.wasTransitioning = TRUE],
   Standby(TRUE, 0), Standby(TRUE, 1), Standby(FALSE, 1),
   [Standby(FALSE, 1) EXCEPT !.promoting = TRUE],
   Leads(0, FALSE), Leads(1, FALSE), Leads(2, FALSE), Leads(2, TRUE)}

MCPriors ==
  {NoFailback, [candidate |-> 3, restarts |-> 0, age |-> 1],
   [candidate |-> 3, restarts |-> 1, age |-> 1], [candidate |-> 2, restarts |-> 0, age |-> 0]}
==============================================================================
