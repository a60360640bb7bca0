-------------------------------- MODULE MCUsage --------------------------------
(* Instance for TLC of the way of a usage event: the forwarder of a backend, the  *)
(* store that bigbrain keeps, and the queries it answers from it.  Each takes     *)
(* over from the one before by values that are enumerated, so a behaviour is one  *)
(* of a single part, and the others stay as they began.                           *)
EXTENDS UsageForwarder, Insights, InsightsQuery, TLC

CONSTANTS Checked, b1, b2, b3

VARIABLE part

\* Two small batches fit in one post, the large one only by itself.
MCBatch == {b1, b2, b3}
MCBytes == [b \in MCBatch |-> IF b = b3 THEN 2 ELSE 1]

MCRegistered == {"a", "b"}
MCTokens == [d \in MCRegistered |-> IF d = "a" THEN "secret" ELSE ""]

\* The right token, a wrong one, a second word, no bearer.
MCHeader ==
  {[scheme |-> "bearer", words |-> <<"secret">>], [scheme |-> "bearer", words |-> <<"other">>],
   [scheme |-> "bearer", words |-> <<"secret", "x">>], [scheme |-> "basic", words |-> <<"secret">>]}

Conflict(ts, failed, comp, table) ==
  [type |-> "FunctionCall", occ |-> TRUE, failed |-> failed, ts |-> ts, udf |-> "f",
   comp |-> comp, table |-> table, calls |-> <<>>]

ReadOf(ts, udf, calls) ==
  [type |-> "InsightReadLimit", occ |-> FALSE, failed |-> FALSE, ts |-> ts, udf |-> udf,
   comp |-> "", table |-> "", calls |-> calls]

Calls(bytes, documents) == [bytes |-> bytes, documents |-> documents]

\* Two ticks to the hour: day 0 ends at tick 48.
MCEvent ==
  {Conflict(46, FALSE, "", "t"), Conflict(47, FALSE, "", "t"), Conflict(48, FALSE, "", "u"),
   Conflict(NoTime, TRUE, "c", ""),
   [Conflict(0, FALSE, "", "t") EXCEPT !.occ = FALSE],
   ReadOf(47, "f", <<Calls(3, 0), Calls(1, 0)>>), ReadOf(48, "f", <<Calls(2, 1)>>),
   ReadOf(NoTime, "g", <<>>)}

\* The ratio is a half; the second are out of range.
MCLimits ==
  {[documents |-> 1, bytes |-> 4, num |-> 1, den |-> 2],
   [documents |-> 2, bytes |-> 5, num |-> 1, den |-> 1],
   [documents |-> 1, bytes |-> 4, num |-> 3, den |-> 2]}

MCInit == part \in Checked /\ ForwarderInit /\ Init /\ QueryInit

MCNext ==
  \/ part = "forwarder" /\ ForwarderNext /\ UNCHANGED <<part, vars, queryVars>>
  \/ part = "store" /\ Next /\ UNCHANGED <<part, forwarderVars, queryVars>>
  \/ part = "query" /\ QueryNext /\ UNCHANGED <<part, forwarderVars, vars>>

MCSpec ==
  /\ MCInit /\ [][MCNext]_<<part, forwarderVars, vars, queryVars>>
  /\ part = "forwarder" => ForwarderFairness
================================================================================
