------------------------------- MODULE MCBigbrain -------------------------------
(* Instance for TLC of the bigbrain process and of its metrics API.  They share   *)
(* no state beyond what Bigbrain says of the API server, so a behaviour is one of *)
(* a single part, and the other stays as it began.                                *)
EXTENDS Bigbrain, Metrics

CONSTANT Checked

VARIABLE part

Entry(name, namespace) == [name |-> name, namespace |-> namespace]
Blank == Entry("", "")

\* A blank entry before the last, a name twice, a namespace by itself, none.
MCEntries ==
  {<<Entry("a", ""), Blank, Entry("b", "x")>>, <<Entry("a", "x"), Entry("a", "")>>,
   <<Entry("", "x")>>, <<Blank>>, <<Entry("a", "no_label")>>}

MCTokenLists == {<<"s", "t">>, <<"s">>, <<"s", "unsafe">>}

\* Two pods of one workload, and one elsewhere.
MCPod == {"a1", "a2", "b1"}
MCNamespaceOf == [p \in MCPod |-> IF p = "b1" THEN "b" ELSE "a"]
MCWorkloadOf == [p \in MCPod |-> "funrun"]

Line(gauge, value) == [gauge |-> gauge, value |-> value]

\* More busy threads than threads, and a line that does not parse; no threads.
MCPage == {<<Line("busy", <<5>>), Line("busy", None), Line("total", <<4>>)>>,
           <<Line("busy", <<0>>), Line("total", <<0>>)>>}

MCInit ==
  /\ part \in Checked
  /\ BigbrainInit /\ MetricsInit
  /\ part # "process" => phase = "exited"
  /\ part # "metrics" => \A p \in Pod : pods[p] = "absent"

MCNext ==
  \/ part = "process" /\ BigbrainNext /\ UNCHANGED <<part, metricsVars>>
  \/ part = "metrics" /\ MetricsNext /\ UNCHANGED <<part, bigbrainVars>>

MCSpec ==
  /\ MCInit /\ [][MCNext]_<<part, bigbrainVars, metricsVars>>
  /\ part = "process" => BigbrainFairness
===============================================================================
