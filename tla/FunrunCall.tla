------------------------------ MODULE FunrunCall ------------------------------
(***************************************************************************)
(* One function call that a backend hands to its funrun pods: the client's *)
(* attempts, what a pod does with each of them, and the scheduled job that *)
(* may have asked for it.  An attempt that the client gave up goes on at   *)
(* its pod until the pod notices; a request may reach a pod late.          *)
(*                                                                         *)
(* Abstracted: a mutation is treated as a query is and stands under "query" *)
(* (the backend commits what the delivered result holds and nothing else); *)
(* the parts of an HTTP response are log lines; a status is "rejected"     *)
(* (before execution), "transport" (Unavailable, Cancelled, Unknown) or    *)
(* "fatal"; the waits between attempts are not steps.                      *)
(***************************************************************************)
EXTENDS Naturals, Sequences, FiniteSets

CONSTANTS
  MaxAttempts, \* FUNRUN_CLIENT_MAX_RETRIES + 1
  MaxRuns,     \* bound on the runs of one scheduled job
  MaxLines     \* bound on the log lines of one execution

ASSUME FunrunCallAssumption ==
  MaxAttempts \in Nat \ {0} /\ MaxRuns \in Nat \ {0} /\ MaxLines \in Nat

VARIABLES
  kind,      \* the type of the function
  scheduled, \* a scheduled job or a cron job asked for it
  runs,      \* calls made, one unless a job is set back to pending
  client,    \* what the caller is doing
  attempt,   \* attempts made before this one in the present call
  parts,     \* parts_received of the attempt
  held,      \* the attempt holds a terminal result
  outcome,   \* how the last call ended
  server,    \* for each request sent, what the pod does with it
  lines,     \* log lines that the function has written and the pod still holds
  wire,      \* what was sent of the present attempt and is not read yet
  written,   \* for each request, the lines written; read by no action
  heard      \* the lines the caller was given, by request; read by no action

clientVars == <<runs, client, attempt, parts, held, outcome>>
callVars == <<kind, scheduled, clientVars, server, lines, wire, written, heard>>

Status == {"rejected", "transport", "fatal"}
Failure == Status \union {"noEndpoints", "timedOut", "internal"}
Part == Status \union {"head", "log", "result", "end"}

Requests == 1..Len(server)
Present == Len(server)

CallTypeOK ==
  /\ kind \in {"query", "action", "http"} /\ scheduled \in BOOLEAN
  /\ runs \in 1..MaxRuns
  /\ client \in {"start", "asked", "streaming", "over"}
  /\ attempt \in 0..(MaxAttempts - 1) /\ parts \in BOOLEAN /\ held \in BOOLEAN
  /\ outcome \in {"none", "result", "rejected", "error"}
  /\ server \in Seq({"sent", "preparing", "running", "ran", "over"})
  /\ Len(server) <= MaxAttempts * MaxRuns
  /\ lines \in [Requests -> 0..MaxLines] /\ written \in [Requests -> 0..MaxLines]
  /\ wire \in Seq(Part) /\ heard \in [Requests -> Nat]

CallInit ==
  /\ kind \in {"query", "action", "http"}
  /\ scheduled \in {FALSE, kind = "action"}
  /\ runs = 1 /\ client = "start" /\ attempt = 0 /\ parts = FALSE /\ held = FALSE
  /\ outcome = "none"
  /\ server = <<>> /\ lines = <<>> /\ wire = <<>> /\ written = <<>> /\ heard = <<>>

-----------------------------------------------------------------------------
(* The client. *)

hasDeadline == kind = "query"

\* Mutant: whatever the transport says is tried again.
is_retryable_rpc_Any(status) == status \in {"rejected", "transport"}

is_retryable_rpc(status) ==
  \/ status = "rejected" /\ kind # "http"
  \/ status = "transport" /\ kind = "query"

retryReason(f) ==
  /\ kind # "http"
  /\ \/ f = "noEndpoints"
     \/ f = "timedOut" /\ hasDeadline
     \/ f \in Status /\ is_retryable_rpc(f)

\* Mutant: what was received does not keep the client from trying again.
mayRetry_Heard(f, received) == retryReason(f) /\ attempt + 1 < MaxAttempts

mayRetry(f, received) == retryReason(f) /\ attempt + 1 < MaxAttempts /\ ~received

\* The attempt failed; the stream, if there is one, is dropped with it.
Fails(f, received) ==
  /\ wire' = <<>> /\ parts' = FALSE /\ held' = FALSE
  /\ IF mayRetry(f, received)
     THEN client' = "start" /\ attempt' = attempt + 1 /\ UNCHANGED outcome
     ELSE /\ client' = "over" /\ UNCHANGED attempt
          /\ outcome' = IF f \in {"noEndpoints", "rejected"} THEN "rejected" ELSE "error"
  /\ UNCHANGED <<kind, scheduled, runs>>

Quiet == UNCHANGED <<server, lines, written, heard>>

\* wait_for_endpoints lets the attempt through.
Send ==
  /\ client = "start"
  /\ client' = "asked" /\ server' = Append(server, "sent")
  /\ lines' = Append(lines, 0) /\ written' = Append(written, 0) /\ heard' = Append(heard, 0)
  /\ UNCHANGED <<kind, scheduled, runs, attempt, parts, held, outcome, wire>>

NoEndpoints == client = "start" /\ Fails("noEndpoints", FALSE) /\ Quiet

\* Mutant: only a query's headers have a deadline.
HeaderTimeout_QueryOnly == client = "asked" /\ hasDeadline /\ Fails("timedOut", parts) /\ Quiet

\* FUNRUN_RESPONSE_TIMEOUT passes before the headers.
HeaderTimeout == client = "asked" /\ Fails("timedOut", parts) /\ Quiet

\* The deadline of a query's whole attempt.
DeadlinePasses ==
  hasDeadline /\ client \in {"asked", "streaming"} /\ Fails("timedOut", parts) /\ Quiet

ReadHead ==
  /\ client = "asked" /\ wire # <<>> /\ Head(wire) = "head"
  /\ client' = "streaming" /\ wire' = Tail(wire)
  /\ UNCHANGED <<kind, scheduled, runs, attempt, parts, held, outcome>> /\ Quiet

\* One turn of the loop over the stream; a pod sends one result, and the client's
\* complaint about a second one is left out.
ReadPart ==
  /\ client = "streaming" /\ wire # <<>>
  /\ \/ /\ Head(wire) = "log"
        /\ wire' = Tail(wire) /\ parts' = TRUE
        /\ heard' = [heard EXCEPT ![Present] = @ + 1]
        /\ UNCHANGED <<kind, scheduled, runs, client, attempt, held, outcome, server, lines, written>>
     \/ /\ Head(wire) = "result"
        /\ wire' = Tail(wire) /\ parts' = TRUE /\ held' = TRUE
        /\ UNCHANGED <<kind, scheduled, runs, client, attempt, outcome>> /\ Quiet
     \/ /\ Head(wire) = "end" /\ held
        /\ wire' = <<>> /\ client' = "over" /\ outcome' = "result"
        /\ UNCHANGED <<kind, scheduled, runs, attempt, parts, held>> /\ Quiet
     \/ /\ Head(wire) = "end" /\ ~held
        /\ Fails("internal", parts) /\ Quiet

\* The server's status, in place of the headers or after them.
ReadStatus ==
  /\ client \in {"asked", "streaming"} /\ wire # <<>> /\ Head(wire) \in Status
  /\ Fails(Head(wire), parts) /\ Quiet

\* The connection breaks, or keep-alives notice that the pod has died.
Breaks ==
  /\ client \in {"asked", "streaming"}
  /\ \E s \in {"transport", "fatal"} : Fails(s, parts) /\ Quiet

\* The caller of an HTTP action went away.
Disconnect ==
  /\ kind = "http" /\ client # "over" /\ Fails("internal", parts) /\ Quiet

\* The job is pending again, and comes up once more.
Reschedule ==
  /\ scheduled /\ client = "over" /\ outcome = "rejected" /\ runs < MaxRuns
  /\ runs' = runs + 1 /\ client' = "start" /\ attempt' = 0
  /\ UNCHANGED <<kind, scheduled, parts, held, outcome, wire>> /\ Quiet

ClientStep ==
  \/ Send \/ NoEndpoints \/ HeaderTimeout \/ DeadlinePasses
  \/ ReadHead \/ ReadPart \/ ReadStatus
  \/ Breaks \/ Disconnect \/ Reschedule

-----------------------------------------------------------------------------
(* The pod. *)

Connected(i) == i = Present /\ client \in {"asked", "streaming"}

\* What the pod sends is lost when nobody reads any more.
Put(i, ps) == wire' = IF Connected(i) THEN wire \o ps ELSE wire

Becomes(i, from, to) == server[i] = from /\ server' = [server EXCEPT ![i] = to]

PodOnly == UNCHANGED <<kind, scheduled, clientVars, heard>>

\* The handler spawns the run and answers with the headers.
Accept(i) == Becomes(i, "sent", "preparing") /\ Put(i, <<"head">>) /\ UNCHANGED <<lines, written>>

\* The caller is not known to the pod.
Refuse(i) == Becomes(i, "sent", "over") /\ Put(i, <<"fatal">>) /\ UNCHANGED <<lines, written>>

\* snapshot_inputs: the deadline passed or the tailer exited.
Reject(i) == Becomes(i, "preparing", "over") /\ Put(i, <<"rejected">>) /\ UNCHANGED <<lines, written>>

\* The snapshot is there, and the function starts.
Execute(i) == Becomes(i, "preparing", "running") /\ UNCHANGED <<lines, written, wire>>

WriteLine(i) ==
  /\ server[i] = "running" /\ written[i] < MaxLines
  /\ lines' = [lines EXCEPT ![i] = @ + 1] /\ written' = [written EXCEPT ![i] = @ + 1]
  /\ UNCHANGED <<server, wire>>

\* forward_log_line
Forward(i) ==
  /\ server[i] = "running" /\ lines[i] > 0
  /\ lines' = [lines EXCEPT ![i] = @ - 1] /\ Put(i, <<"log">>)
  /\ UNCHANGED <<server, written>>

\* The function returned: the lines left, then the result, then the end.
Complete(i) ==
  /\ Becomes(i, "running", "ran")
  /\ lines' = [lines EXCEPT ![i] = 0]
  /\ Put(i, [n \in 1..lines[i] |-> "log"] \o <<"result", "end">>)
  /\ UNCHANGED written

\* The run is over one way or the other, and its body was started or not.
Stopped(i) ==
  /\ server[i] \in {"preparing", "running"}
  /\ server' = [server EXCEPT ![i] = IF @ = "running" THEN "ran" ELSE "over"]

\* The execution, the check of its timestamp or the conversion failed, with a
\* status that does not say "rejected before execution".
Err(i) ==
  /\ Stopped(i)
  /\ lines' = [lines EXCEPT ![i] = 0]
  /\ \E s \in {"transport", "fatal"} : Put(i, [n \in 1..lines[i] |-> "log"] \o <<s>>)
  /\ UNCHANGED written

\* The task panics, and its half of the stream is dropped without a result.
Panic(i) ==
  /\ Stopped(i) /\ Put(i, <<"end">>)
  /\ UNCHANGED <<lines, written>>

\* Nobody reads any more (part_tx is closed, the dropped stream ends the task), or
\* the pod dies.
Cancel(i) == Stopped(i) /\ UNCHANGED <<lines, wire, written>>

PodStep(i) ==
  /\ PodOnly
  /\ \/ Accept(i) \/ Refuse(i) \/ Reject(i) \/ Execute(i)
     \/ WriteLine(i) \/ Forward(i) \/ Complete(i) \/ Err(i) \/ Panic(i) \/ Cancel(i)

-----------------------------------------------------------------------------

CallNext == ClientStep \/ \E i \in Requests : PodStep(i)

CallSpec == CallInit /\ [][CallNext]_callVars

\* Timers fire, what has arrived is read, and an execution ends: a pod bounds
\* the snapshot wait and the isolate bounds the function.
CallFairness ==
  /\ WF_callVars(Send \/ NoEndpoints) /\ WF_callVars(HeaderTimeout)
  /\ WF_callVars(ReadHead \/ ReadPart \/ ReadStatus)
  /\ WF_callVars(\E i \in Requests : Present = i /\ PodOnly
                 /\ (Reject(i) \/ Execute(i) \/ Complete(i) \/ Err(i)))
  /\ WF_callVars(Breaks /\ wire = <<>> /\ server[Present] \in {"over", "ran"})

FairCallSpec == CallSpec /\ CallFairness

-----------------------------------------------------------------------------
(* Properties. *)

Executed == {i \in Requests : server[i] \in {"running", "ran"}}

\* Whatever is lost, late, timed out or tried again, and however often its job is
\* set back to pending, the body of an action is started at most once, and never
\* under a call that ended as "rejected before execution" (run_function_remote,
\* the rejected branch of the cron and scheduled jobs).
ActionAtMostOnce ==
  kind # "query" =>
    /\ Cardinality(Executed) <= 1
    /\ outcome = "rejected" => \A i \in Executed : i = Present /\ client # "over"

\* The caller never hears of two executions: log lines come from one attempt, and
\* the result from the same one (parts_received).
OneAttemptHeard ==
  LET Heard == {i \in Requests : heard[i] > 0}
  IN  Cardinality(Heard) <= 1 /\ (outcome = "result" /\ client = "over" => Heard \subseteq {Present})

\* A result comes after every line that its execution wrote
\* (drive_and_stream_log_lines).
ResultAfterLines ==
  outcome = "result" => heard[Present] = written[Present]

\* What is not read yet: the headers, lines, and how the attempt ended.
WireIs(heads, n, ending) ==
  /\ Len(wire) = heads + n + Len(ending)
  /\ \A k \in 1..Len(wire) :
       wire[k] = IF k <= heads THEN "head" ELSE IF k <= heads + n THEN "log"
                 ELSE ending[k - heads - n]

Endings == {<<s>> : s \in Status \union {"end"}} \union {<<"result", "end">>, <<>>}

\* The present attempt as the pod has it and as the client has it: no line is lost
\* between them, nothing comes after an ending, and a rejection is the only word.
AttemptIs(heads, n, ending) ==
  /\ WireIs(heads, n, ending)
  /\ heard[Present] + n + lines[Present] = written[Present]
  /\ heard[Present] > 0 => parts
  /\ client = "streaming" => heads = 0 /\ server[Present] # "sent"
  /\ client = "asked" =>
       /\ ~parts /\ ~held
       /\ heads = 0 => n = 0 /\ (server[Present] = "sent" \/ ending = <<"fatal">>)
  /\ server[Present] \in {"sent", "preparing"} => ~parts /\ n = 0
  /\ server[Present] = "sent" => heads = 0
  /\ server[Present] \in {"sent", "preparing", "running"} => ending = <<>> /\ ~held
  /\ ending = <<"rejected">> => server[Present] = "over" /\ ~parts /\ n = 0
  /\ held \/ ending = <<"result", "end">> => server[Present] = "ran" /\ lines[Present] = 0
  /\ held => n = 0 /\ ending = <<"end">>

AttemptFits ==
  client \in {"asked", "streaming"} =>
    /\ server # <<>>
    /\ \E heads \in {0, 1}, n \in 0..Len(wire), ending \in Endings : AttemptIs(heads, n, ending)

\* Between two attempts, and after the last.
ClientFits ==
  /\ scheduled => kind = "action"
  /\ client \in {"start", "over"} => wire = <<>>
  /\ client = "start" \/ (outcome = "rejected" /\ client = "over") => ~parts /\ ~held
  /\ outcome \in {"result", "error"} => client = "over"
  /\ outcome = "result" =>
       server # <<>> /\ server[Present] = "ran" /\ heard[Present] = written[Present]

\* What was sent, by all attempts of all runs.
RequestsFit ==
  /\ Len(server) <= (runs - 1) * MaxAttempts + attempt + (IF client = "start" THEN 0 ELSE 1)
  /\ \A i \in Requests :
       /\ lines[i] <= written[i]
       /\ server[i] \in {"sent", "preparing"} => written[i] = 0
       /\ heard[i] > 0 =>
            i = Present /\ (client = "streaming" \/ (client = "over" /\ outcome # "rejected"))
       /\ kind # "query" /\ server[i] # "over" =>
            i = Present /\ client # "start" /\ (client = "over" => outcome # "rejected")

CallFits == CallTypeOK /\ AttemptFits /\ ClientFits /\ RequestsFit

\* What a caller is told is of one execution and whole: no lines of another attempt,
\* no result before its lines, within the attempts there are (run_function_remote).
CallInv == CallFits /\ OneAttemptHeard /\ ResultAfterLines

\* A call that was sent ends, even when its request was lost or its pod died half way.
CallEnds == (client \in {"asked", "streaming"}) ~> (client = "over")
===============================================================================
