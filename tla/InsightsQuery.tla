----------------------------- MODULE InsightsQuery -----------------------------
(***************************************************************************)
(* The insights of a deployment: the usage events a backend posts are      *)
(* turned into rows, and a query of the dashboard aggregates the rows of   *)
(* a range of days into insights.  The rows kept are those of RecentRows.  *)
(*                                                                         *)
(* Abstracted: time is a number of ticks; an insight's JSON body is a      *)
(* record, of its recent events the timestamps are kept (which of several  *)
(* rows of one instant are cut off is open in the code, its sort is not    *)
(* stable) and the insights are a set, as their final order is one of      *)
(* strings; the product of a limit and its ratio is exact; identifiers and *)
(* request IDs of a row are left out.                                      *)
(***************************************************************************)
EXTENDS Integers, Sequences, FiniteSets, SequencesExt, FiniteSetsExt

CONSTANTS
  Registered,
  usageTokens,       \* the token of each deployment, "" for none
  Header,            \* Authorization headers: [scheme, words]
  Event,             \* what a backend may post
  Limits,            \* read limits: [documents, bytes, num, den]
  NoTime,            \* an event without a timestamp
  BadDate,           \* a date that does not parse
  NoDate,            \* a date that was not given
  Date,              \* the dates of queries, as day numbers
  Now,               \* the time of day
  HourTicks,         \* ticks in an hour
  MaxStored,           \* BIGBRAIN_INSIGHTS_RING_CAP
  MaxRecent,         \* maxRecentPerGroup
  MaxEvents          \* bound on the events of a post

ASSUME InsightsQueryAssumption ==
  /\ HourTicks \in Nat \ {0} /\ MaxStored \in Nat \ {0} /\ MaxRecent \in Nat /\ MaxEvents \in Nat
  /\ Now \in Nat /\ Date \subseteq Int
  /\ \A d \in Registered : d # ""

ASSUME PostAssumption ==
  /\ \A e \in Event : /\ e.ts \in Int \union {NoTime} /\ e.occ \in BOOLEAN /\ e.failed \in BOOLEAN
                      /\ e.calls \in Seq([bytes : Int, documents : Int])
  /\ Limits \subseteq [documents : Int, bytes : Int, num : Int, den : Nat \ {0}]

VARIABLES
  stored,    \* the rows of each deployment, oldest first
  lastLimits,  \* the limits that came with the last post
  answer   \* the answer to the last request

queryVars == <<stored, lastLimits, answer>>

Day == 24 * HourTicks

-----------------------------------------------------------------------------
(* Authorization. *)

bearerToken(h) == IF h.scheme = "bearer" /\ Len(h.words) = 1 THEN h.words[1] ELSE ""

bearerOK(h, d) ==
  d \in Registered /\ usageTokens[d] # "" /\ bearerToken(h) = usageTokens[d]

-----------------------------------------------------------------------------
(* Events become rows. *)

valid(l) == l.documents > 0 /\ l.bytes > 0 /\ l.num > 0 /\ l.num <= l.den

eventTime(e) == IF e.ts = NoTime THEN Now ELSE e.ts
derefOr(v, default) == IF v = "" THEN default ELSE v
component(e) == derefOr(e.comp, "root")

\* The rows of one event: none of a call without a conflict, none of other kinds.
makeRow(e) ==
  CASE e.type = "FunctionCall" /\ e.occ ->
         << [kind |-> IF e.failed THEN "occFailedPermanently" ELSE "occRetried",
             ts |-> eventTime(e), udf |-> e.udf, comp |-> component(e), table |-> e.table,
             calls |-> <<>>] >>
    [] e.type = "InsightReadLimit" ->
         << [kind |-> "read", ts |-> eventTime(e), udf |-> e.udf, comp |-> component(e),
             table |-> "", calls |-> e.calls] >>
    [] OTHER -> << >>

makeRows(es) == FlattenSeq([i \in DOMAIN es |-> makeRow(es[i])])

Newest(s) == SubSeq(s, Max({1, Len(s) - MaxStored + 1}), Len(s))

-----------------------------------------------------------------------------
(* The aggregation of a query: s are the rows of a deployment, a group of them is *)
(* the set of their positions.                                                    *)

\* Mutant: the last day ends at its first instant.
rowsIn_ExclusiveEnd(s, from, to) ==
  {n \in DOMAIN s : s[n].ts >= from * Day /\ s[n].ts < to * Day}

\* Insights.rows between two midnights; the end is exclusive.
rowsIn(s, from, to) ==
  {n \in DOMAIN s : s[n].ts >= from * Day /\ s[n].ts < to * Day + Day}

hourOf(r) == r.ts \div HourTicks

\* The rows of each hour that has any.
bucket(s, grp) ==
  [h \in {hourOf(s[n]) : n \in grp} |-> Cardinality({n \in grp : hourOf(s[n]) = h})]

NewestFirst(s, order) ==
  \A j, k \in DOMAIN order : j < k => order[j] # order[k] /\ s[order[j]].ts >= s[order[k]].ts

\* The newest first, and no more than fit.
recentOf(s, grp) ==
  LET order == CHOOSE o \in [1..Cardinality(grp) -> grp] : NewestFirst(s, o)
  IN  [k \in 1..Min({Cardinality(grp), MaxRecent}) |-> s[order[k]].ts]

Insight(kind, udf, comp, table, s, grp) ==
  [kind |-> kind, udf |-> udf, comp |-> comp, table |-> table, count |-> Cardinality(grp),
   hourly |-> bucket(s, grp), recent |-> recentOf(s, grp)]

occKey(r) == <<r.kind, r.udf, r.comp, r.table>>

aggregateOCC(s, asked) ==
  LET occ == {n \in asked : s[n].kind # "read"}
  IN  {Insight(s[n].kind, s[n].udf, s[n].comp, s[n].table, s,
               {m \in occ : occKey(s[m]) = occKey(s[n])}) : n \in occ}

total(f) ==
  LET sum[n \in 0..Len(f)] == IF n = 0 THEN 0 ELSE sum[n - 1] + f[n]
  IN  sum[Len(f)]

bytesRead(r) == total([n \in 1..Len(r.calls) |-> r.calls[n].bytes])
documentsRead(r) == total([n \in 1..Len(r.calls) |-> r.calls[n].documents])

threshold(l, limit) == (limit * l.num) \div l.den

kindFor(peak, limit, kindLimit, kindThreshold) ==
  IF peak >= limit THEN kindLimit ELSE kindThreshold

\* readDimension.row: the rows at or above the threshold, under the kind that the
\* highest of them calls for; measure says what each row read.
dimensionRow(measure, limit, least, kindLimit, kindThreshold, udf, comp, s, grp) ==
  LET over == {n \in grp : measure[n] >= least}
      peak == Max({0} \union {measure[n] : n \in over})
  IN  IF over = {} THEN {}
      ELSE {Insight(kindFor(peak, limit, kindLimit, kindThreshold), udf, comp, "", s, over)}

aggregateRead(s, asked, l) ==
  LET reads == {n \in asked : s[n].kind = "read"}
      bytes == [n \in reads |-> bytesRead(s[n])]
      documents == [n \in reads |-> documentsRead(s[n])]
      group(n) == {m \in reads : s[m].udf = s[n].udf /\ s[m].comp = s[n].comp}
  IN  UNION {
        dimensionRow(bytes, l.bytes, threshold(l, l.bytes),
                     "bytesReadLimit", "bytesReadThreshold", s[n].udf, s[n].comp, s, group(n))
        \union
        dimensionRow(documents, l.documents, threshold(l, l.documents),
                     "documentsReadLimit", "documentsReadThreshold", s[n].udf, s[n].comp,
                     s, group(n)) : n \in reads}

-----------------------------------------------------------------------------
(* The handlers. *)

Failed(status) == [status |-> status]
Today == Now \div Day

QueryInit ==
  /\ stored = [d \in Registered |-> << >>]
  /\ lastLimits = [d \in Registered |-> [documents |-> 0, bytes |-> 0, num |-> 0, den |-> 1]]
  /\ answer = Failed(0)

\* POST /internal/usage; the body may be too large, malformed, or have events that
\* are, and the last is found out after the token was checked.
handleUsageIngest(body, d, h, l, es) ==
  \/ /\ body \in {"large", "malformed"} \/ d = ""
     /\ answer' = Failed(IF body = "large" THEN 413 ELSE 400) /\ UNCHANGED <<stored, lastLimits>>
  \/ /\ body \in {"badEvents", "good"} /\ d # "" /\ ~bearerOK(h, d)
     /\ answer' = Failed(401) /\ UNCHANGED <<stored, lastLimits>>
  \/ /\ bearerOK(h, d) /\ (body = "badEvents" \/ (body = "good" /\ ~valid(l)))
     /\ answer' = Failed(400) /\ UNCHANGED <<stored, lastLimits>>
  \/ /\ bearerOK(h, d) /\ body = "good" /\ valid(l)
     /\ stored' = [stored EXCEPT ![d] = Newest(@ \o makeRows(es))]
     /\ lastLimits' = [lastLimits EXCEPT ![d] = l]
     /\ answer' = [status |-> 200, ingested |-> Len(makeRows(es))]

\* GET /api/dashboard/teams/0/usage/query
handleUsageQuery(d, h, fromDate, toDate) ==
  LET from == IF fromDate = NoDate THEN Today - 3 ELSE fromDate
      to == IF toDate = NoDate THEN Today ELSE toDate
      asked == rowsIn(stored[d], from, to)
  IN  /\ UNCHANGED <<stored, lastLimits>>
      /\ \/ d = "" /\ answer' = Failed(400)
         \/ d # "" /\ ~bearerOK(h, d) /\ answer' = Failed(401)
         \/ bearerOK(h, d) /\ (from = BadDate \/ to = BadDate) /\ answer' = Failed(400)
         \/ bearerOK(h, d) /\ from # BadDate /\ to # BadDate /\ from > to /\ answer' = Failed(400)
         \/ /\ bearerOK(h, d) /\ from # BadDate /\ to # BadDate /\ from <= to
            /\ answer' = [status |-> 200, deployment |-> d, from |-> from, to |-> to,
                          insights |-> aggregateOCC(stored[d], asked)
                                         \union aggregateRead(stored[d], asked, lastLimits[d])]

Names == Registered \union {"", "unknown"}
Dates == Date \union {NoDate, BadDate}
EventLists == UNION {[1..n -> Event] : n \in 0..MaxEvents}

\* What the events of a body are does not matter when it is refused.
QueryNext ==
  \/ \E d \in Names, h \in Header, l \in Limits :
       \/ \E es \in EventLists : handleUsageIngest("good", d, h, l, es)
       \/ \E body \in {"large", "malformed", "badEvents"} : handleUsageIngest(body, d, h, l, << >>)
  \/ \E d \in Names, h \in Header, from, to \in Dates : handleUsageQuery(d, h, from, to)

QuerySpec == QueryInit /\ [][QueryNext]_queryVars

-----------------------------------------------------------------------------
(* Properties. *)

Kinds == {"occRetried", "occFailedPermanently", "bytesReadLimit", "bytesReadThreshold",
          "documentsReadLimit", "documentsReadThreshold"}

InsightsQueryTypeOK ==
  /\ \A d \in Registered : Len(stored[d]) <= MaxStored
  /\ answer.status \in {0, 200, 400, 401, 413}
  /\ "insights" \in DOMAIN answer => \A i \in answer.insights : i.kind \in Kinds /\ i.count > 0

Reported == "insights" \in DOMAIN answer

\* The rows of the days asked for, the last one included.
Asked ==
  {i \in DOMAIN stored[answer.deployment] :
     stored[answer.deployment][i].ts \div Day \in answer.from..answer.to}

RowAt(i) == stored[answer.deployment][i]

OccKinds == {"occRetried", "occFailedPermanently"}
ByteKinds == {"bytesReadLimit", "bytesReadThreshold"}

\* The rows that an insight stands for: the conflicts under its key, or the reads of
\* its function that came to the threshold.
RowsOf(i) ==
  LET l == lastLimits[answer.deployment]
  IN  IF i.kind \in OccKinds THEN {n \in Asked : occKey(RowAt(n)) = occKey(i)}
      ELSE {n \in Asked :
              /\ RowAt(n).kind = "read" /\ RowAt(n).udf = i.udf /\ RowAt(n).comp = i.comp
              /\ IF i.kind \in ByteKinds THEN bytesRead(RowAt(n)) >= threshold(l, l.bytes)
                 ELSE documentsRead(RowAt(n)) >= threshold(l, l.documents)}

\* Every conflict of the days asked for is in exactly one insight, and each insight
\* counts its rows once, each in its own hour (groupByOCC, buildOCCRow, bucket).
CountedOnce ==
  Reported =>
    /\ \A n \in Asked : RowAt(n).kind # "read" =>
         \E i \in answer.insights : \A j \in answer.insights : n \in RowsOf(j) <=> j = i
    /\ \A i \in answer.insights :
         /\ i.count = Cardinality(RowsOf(i))
         /\ DOMAIN i.hourly = {RowAt(n).ts \div HourTicks : n \in RowsOf(i)}
         /\ \A h \in DOMAIN i.hourly :
              i.hourly[h] = Cardinality({n \in RowsOf(i) : RowAt(n).ts \div HourTicks = h})

\* A function is reported at a read limit exactly when one of its calls of those
\* days reached the limit that the deployment sent last, and at the threshold when
\* one reached that and none the limit (aggregateRead, readDimension.row).
ReadVerdicts ==
  Reported =>
    LET l == lastLimits[answer.deployment]
        Reads(u, c) == {n \in Asked : RowAt(n).kind = "read" /\ RowAt(n).udf = u /\ RowAt(n).comp = c}
        Verdict(kind, u, c) == \E i \in answer.insights : i.kind = kind /\ i.udf = u /\ i.comp = c
    IN  \A n \in Asked : RowAt(n).kind = "read" =>
          LET u == RowAt(n).udf
              c == RowAt(n).comp
              bytes == {bytesRead(RowAt(m)) : m \in Reads(u, c)}
              docs == {documentsRead(RowAt(m)) : m \in Reads(u, c)}
          IN  /\ Verdict("bytesReadLimit", u, c) <=> Max(bytes) >= l.bytes
              /\ Verdict("bytesReadThreshold", u, c)
                   <=> Max(bytes) < l.bytes /\ Max(bytes) >= threshold(l, l.bytes)
              /\ Verdict("documentsReadLimit", u, c) <=> Max(docs) >= l.documents
              /\ Verdict("documentsReadThreshold", u, c)
                   <=> Max(docs) < l.documents /\ Max(docs) >= threshold(l, l.documents)

\* The k-th recent event of an insight is the k-th newest of its rows, ties aside:
\* fewer than k are newer, at least k are no older (the sort and the cut of
\* buildOCCRow and readDimension.row).
RecentAreNewest ==
  Reported => \A i \in answer.insights :
    /\ Len(i.recent) = Min({i.count, MaxRecent})
    /\ \A k \in DOMAIN i.recent :
         /\ Cardinality({n \in RowsOf(i) : RowAt(n).ts > i.recent[k]}) < k
         /\ Cardinality({n \in RowsOf(i) : RowAt(n).ts >= i.recent[k]}) >= k

\* A deployment that was given no token takes no events and shows no insights,
\* whatever header comes with a request (bearerOK).
NoTokenNoData ==
  \A d \in Registered : usageTokens[d] = "" =>
    stored[d] = << >> /\ (Reported => answer.deployment # d)

\* What a query answers is what the stored rows say: conflicts once each, reads
\* against the last limits, the newest events, and of a deployment that the caller
\* has the token of (handleUsageQuery, Insights.Query).
QueryInv ==
  InsightsQueryTypeOK /\ CountedOnce /\ ReadVerdicts /\ RecentAreNewest /\ NoTokenNoData
================================================================================
