-------------------------------- MODULE Metrics --------------------------------
(***************************************************************************)
(* bigbrain's custom metrics API: a scraper asks the funrun pods of every  *)
(* namespace how busy they are, all namespaces and all pods at the same    *)
(* time, and then replaces what the API answers the autoscaler from.       *)
(*                                                                         *)
(* Abstracted: time passes in ticks, and a sample carries its age in place *)
(* of its timestamp; a pod's labels are its workload; a scraped page is    *)
(* its lines about isolate threads; deletion, a missing address and a      *)
(* failing readiness condition are one state, "unready".                   *)
(***************************************************************************)
EXTENDS Integers, Sequences, SequencesExt, FiniteSets

CONSTANTS
  Namespace,
  Pod,
  namespaceOf,   \* the namespace of each pod
  workloadOf,    \* its labels
  Page,          \* what a pod may answer: a sequence of [gauge, value], None for no number
  Interval,      \* the scrape interval, in ticks
  ListTimeout,
  ScrapeTimeout

-----------------------------------------------------------------------------
(* One page. *)

None == << >>

\* The last value of the gauge that parses, or nothing.
lastGauge(gauge, page) ==
  FoldLeft(LAMBDA v, l : IF l.gauge = gauge /\ l.value # None THEN l.value ELSE v, None, page)

milliPercent(busy, total) == (100 * busy * 1000) \div total

\* The samples of one scraped page: none when a gauge is missing or there are no
\* threads at all.
sampleOf(p, page, age) ==
  LET busy == lastGauge("busy", page)
      total == lastGauge("total", page)
  IN  IF busy = None \/ total = None \/ total = <<0>> THEN {}
      ELSE {[pod |-> p, value |-> milliPercent(busy[1], total[1]), age |-> age]}

\* A pod counts its threads; whether it counts more busy ones than there are is not
\* checked, nor assumed.
ASSUME MetricsAssumption ==
  /\ namespaceOf \in [Pod -> Namespace]
  /\ \A page \in Page :
       LET busy == lastGauge("busy", page)
           total == lastGauge("total", page)
       IN  busy # None /\ total # None =>
             total = <<total[1]>> /\ total[1] \in Nat /\ busy[1] \in Nat
  /\ Interval \in Nat \ {0} /\ ListTimeout \in Nat /\ ScrapeTimeout \in Nat

VARIABLES
  pods,    \* each pod as the API server shows it
  stage,   \* scrapeNamespace, for each namespace
  took,    \* ticks since its present step began
  asking,  \* pods that are being scraped
  fresh,   \* the samples of this cycle
  cache,   \* FunrunProvider.cache
  running, \* scrapeAll is under way
  ticker,  \* [since, due]: ticks since the last beat, and whether one waits
  alive    \* the context is not cancelled

scrapeVars == <<stage, took, asking, fresh, running>>
metricsVars == <<pods, scrapeVars, cache, ticker, alive>>

Sample == [pod : Pod, value : Nat, age : Nat]

MetricsTypeOK ==
  /\ pods \in [Pod -> {"absent", "unready", "ready"}]
  /\ stage \in [Namespace -> {"idle", "listing", "scraping", "done"}]
  /\ took \in [Namespace -> 0..(ListTimeout + ScrapeTimeout)]
  /\ asking \subseteq Pod
  /\ fresh \union cache \subseteq Sample
  /\ \A s, t \in cache : s.pod = t.pod => s = t
  /\ running \in BOOLEAN /\ alive \in BOOLEAN
  /\ ticker \in [since : 0..(Interval - 1), due : BOOLEAN]

MetricsInit ==
  /\ pods \in [Pod -> {"absent", "ready"}]
  /\ stage = [n \in Namespace |-> "listing"] /\ took = [n \in Namespace |-> 0]
  /\ asking = {} /\ fresh = {} /\ cache = {} /\ running = TRUE
  /\ ticker = [since |-> 0, due |-> FALSE] /\ alive = TRUE

-----------------------------------------------------------------------------
(* The scraper. *)

\* scrapeAll begins: on start, then on the ticker.
CycleStart ==
  /\ ~running /\ ticker.due
  /\ running' = TRUE /\ fresh' = {}
  /\ stage' = [n \in Namespace |-> "listing"] /\ took' = [n \in Namespace |-> 0]
  /\ ticker' = [ticker EXCEPT !.due = FALSE]
  /\ UNCHANGED <<pods, asking, cache, alive>>

Listed(n) ==
  /\ alive /\ stage[n] = "listing"
  /\ stage' = [stage EXCEPT ![n] = "scraping"] /\ took' = [took EXCEPT ![n] = 0]
  /\ asking' = asking \union {p \in Pod : namespaceOf[p] = n /\ pods[p] = "ready"}
  /\ UNCHANGED <<pods, fresh, running, cache, ticker, alive>>

ListFails(n) ==
  /\ stage[n] = "listing"
  /\ stage' = [stage EXCEPT ![n] = "done"]
  /\ UNCHANGED <<pods, took, asking, fresh, running, cache, ticker, alive>>

\* The pod answers; its timestamp is that of the list.
Scraped(p, page) ==
  /\ alive /\ p \in asking
  /\ asking' = asking \ {p}
  /\ fresh' = fresh \union sampleOf(p, page, took[namespaceOf[p]])
  /\ UNCHANGED <<pods, stage, took, running, cache, ticker, alive>>

ScrapeFails(p) ==
  /\ p \in asking /\ asking' = asking \ {p}
  /\ UNCHANGED <<pods, stage, took, fresh, running, cache, ticker, alive>>

NamespaceDone(n) ==
  /\ stage[n] = "scraping" /\ \A p \in asking : namespaceOf[p] # n
  /\ stage' = [stage EXCEPT ![n] = "done"]
  /\ UNCHANGED <<pods, took, asking, fresh, running, cache, ticker, alive>>

\* Mutant: a cycle that found nothing leaves the cache alone.
replace_UnlessEmpty == IF fresh = {} THEN cache ELSE fresh

replace == fresh

CycleEnd ==
  /\ running /\ \A n \in Namespace : stage[n] = "done"
  /\ cache' = replace
  /\ running' = FALSE /\ fresh' = {}
  /\ stage' = [n \in Namespace |-> "idle"] /\ took' = [n \in Namespace |-> 0]
  /\ UNCHANGED <<pods, asking, ticker, alive>>

\* bigbrain stops: what the scraper still asks fails.
CancelScraper ==
  /\ alive /\ alive' = FALSE
  /\ UNCHANGED <<pods, scrapeVars, cache, ticker>>

PodChanges(p) ==
  /\ pods' \in [Pod -> {"absent", "unready", "ready"}] /\ pods'[p] # pods[p]
  /\ \A q \in Pod \ {p} : pods'[q] = pods[q]
  /\ UNCHANGED <<scrapeVars, cache, ticker, alive>>

Older(S) == {[s EXCEPT !.age = @ + 1] : s \in S}

\* No step outlasts its timeout, and what is ready to go on does.
MetricsTick ==
  /\ alive
  /\ running \/ ~ticker.due
  /\ running => \E n \in Namespace : stage[n] # "done"
  /\ \A n \in Namespace :
       /\ stage[n] = "listing" => took[n] < ListTimeout
       /\ stage[n] = "scraping" => took[n] < ScrapeTimeout /\ \E p \in asking : namespaceOf[p] = n
  /\ took' = [n \in Namespace |-> IF stage[n] \in {"listing", "scraping"} THEN took[n] + 1
                                   ELSE took[n]]
  /\ fresh' = Older(fresh) /\ cache' = Older(cache)
  /\ ticker' = IF ticker.since + 1 = Interval THEN [since |-> 0, due |-> TRUE]
               ELSE [ticker EXCEPT !.since = @ + 1]
  /\ UNCHANGED <<pods, stage, asking, running, alive>>

CycleStep ==
  \/ CycleStart \/ CycleEnd
  \/ \E n \in Namespace : Listed(n) \/ ListFails(n) \/ NamespaceDone(n)
  \/ \E p \in Pod : ScrapeFails(p) \/ \E page \in Page : Scraped(p, page)

MetricsNext == CycleStep \/ CancelScraper \/ MetricsTick \/ \E p \in Pod : PodChanges(p)

MetricsSpec == MetricsInit /\ [][MetricsNext]_metricsVars

-----------------------------------------------------------------------------
(* The API. *)

GetMetricByName(p, metric) ==
  IF metric # "funrun_isolate_utilization" THEN {} ELSE {s \in cache : s.pod = p}

GetMetricBySelector(n, workload, metric) ==
  IF metric # "funrun_isolate_utilization" THEN {}
  ELSE {s \in cache : namespaceOf[s.pod] = n /\ workloadOf[s.pod] = workload}

-----------------------------------------------------------------------------
(* Properties. *)

Longest == IF Interval > ListTimeout + ScrapeTimeout THEN Interval ELSE ListTimeout + ScrapeTimeout

\* However long lists and scrapes take, whatever fails and whichever pods go, the
\* autoscaler never reads a sample older than one interval (or one cycle, if that is
\* longer) and one cycle (scrapeAll, replace, the two timeouts).
SamplesAreFresh ==
  alive => \A s \in cache : s.age <= Longest + ListTimeout + ScrapeTimeout

\* What the API answers is of one cycle: the samples of a namespace have one timestamp,
\* however long the scrapes of its pods took and whenever the other namespaces were
\* done, and a pod has one sample (scrapeNamespace takes the time once, after its list).
AnswersOfOneCycle ==
  \A n \in Namespace, w \in {workloadOf[p] : p \in Pod} :
    LET answer == GetMetricBySelector(n, w, "funrun_isolate_utilization")
    IN  /\ \A s, t \in answer : s.age = t.age
        /\ \A s \in answer : GetMetricByName(s.pod, "funrun_isolate_utilization") = {s}

\* The autoscaler reads utilisations that are fresh and of one cycle (scrapeAll, replace).
MetricsInv == MetricsTypeOK /\ SamplesAreFresh /\ AnswersOfOneCycle

-----------------------------------------------------------------------------
(* What makes it inductive. *)

\* A namespace whose list is out has no samples yet, one that is being scraped has
\* those of its list, and nobody else is asked.
SamplesOfLists ==
  /\ \A p \in asking : stage[namespaceOf[p]] = "scraping"
  /\ \A s \in fresh : LET n == namespaceOf[s.pod]
                      IN  /\ s.pod \notin asking /\ stage[n] \in {"scraping", "done"}
                          /\ stage[n] = "scraping" => s.age = took[n]
  /\ \A S \in {fresh, cache} : \A s, t \in S : namespaceOf[s.pod] = namespaceOf[t.pod] => s.age = t.age
  /\ \A s, t \in fresh : s.pod = t.pod => s = t

\* How long the cycle may have been under way, by what a namespace still waits for.
Under(age, n) ==
  /\ stage[n] = "listing" => age <= took[n]
  /\ stage[n] = "scraping" => age <= ListTimeout + took[n]

\* Time is kept: a step is within its timeout, what this cycle has found is no older
\* than the cycle, and what is served no older than the cycle it comes from, which
\* began, unless the next is late, within the present interval.
CycleClock ==
  /\ \A n \in Namespace :
       /\ stage[n] = "listing" => took[n] <= ListTimeout
       /\ stage[n] = "scraping" => took[n] <= ScrapeTimeout
       /\ stage[n] \in {"listing", "scraping"} => /\ ~ticker.due => took[n] <= ticker.since
                                                 /\ \A m \in Namespace : Under(took[n], m)
  /\ \A s \in fresh : /\ s.age \in 0..(ListTimeout + ScrapeTimeout)
                      /\ ~ticker.due => s.age <= ticker.since
                      /\ \A n \in Namespace : Under(s.age, n)
  /\ running => \A s \in cache : /\ s.age \in 0..(Longest + ListTimeout + ScrapeTimeout)
                                 /\ \A n \in Namespace : Under(s.age - Longest, n)
  /\ ~running => \A s \in cache : /\ s.age \in 0..Longest
                                  /\ ~ticker.due => s.age <= ticker.since
  /\ ~running => fresh = {}
  /\ \A n \in Namespace : stage[n] = "idle" <=> ~running

MetricsFits == MetricsTypeOK /\ SamplesOfLists /\ CycleClock
================================================================================
