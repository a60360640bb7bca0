---------------------------- MODULE FunrunEndpoints ----------------------------
(***************************************************************************)
(* How a backend follows the funrun pods: a task resolves the Service's    *)
(* name again and again and tells the balancing channel which addresses    *)
(* came and went, and callers wait until the first of them was sent.       *)
(*                                                                         *)
(* Abstracted: an address is its pod, and the order in which the members   *)
(* of a difference are sent is left open; time passes in ticks, of which   *)
(* only those before the first endpoint count; the channel outlives the    *)
(* task, so that a send does not fail.                                     *)
(***************************************************************************)
EXTENDS Naturals, Sequences

CONSTANTS
  Pod,
  Caller,
  ChannelCap, \* changes the channel holds
  Budget      \* FUNRUN_EMPTY_ENDPOINTS_FAIL_FAST, in ticks

ASSUME FunrunEndpointsAssumption == ChannelCap \in Nat \ {0} /\ Budget \in Nat

VARIABLES
  current,  \* what the task takes the channel to have
  unique,   \* the answer it is working on, empty between two answers
  next,     \* what current becomes
  gone,     \* addresses it has yet to remove
  changes,  \* changes on their way to the balancer
  balanced, \* the balancer's endpoints
  empty,    \* endpoints_empty_since is set
  elapsed,  \* ticks since then
  caller    \* what each caller does in wait_for_endpoints

taskVars == <<current, unique, next, gone>>
endpointsVars == <<taskVars, changes, balanced, empty, elapsed, caller>>

Change == {"insert", "remove"} \X Pod

EndpointsTypeOK ==
  /\ current \subseteq Pod /\ unique \subseteq Pod /\ next \subseteq unique /\ gone \subseteq Pod
  /\ changes \in Seq(Change) /\ Len(changes) <= ChannelCap
  /\ balanced \subseteq Pod
  /\ empty \in BOOLEAN /\ elapsed \in 0..Budget
  /\ caller \in [Caller -> {"idle", "waiting", "sent", "failed"}]

EndpointsInit ==
  /\ current = {} /\ unique = {} /\ next = {} /\ gone = {}
  /\ changes = <<>> /\ balanced = {}
  /\ empty = TRUE /\ elapsed = 0
  /\ caller = [c \in Caller |-> "idle"]

-----------------------------------------------------------------------------
(* spawn_endpoint_refresher *)

\* lookup_host answers or fails; an empty answer and a failure change nothing.
Resolve(answer) ==
  /\ unique = {}
  /\ IF answer = {} THEN UNCHANGED taskVars
     ELSE /\ unique' = answer /\ next' = answer \intersect current /\ gone' = current \ answer
          /\ UNCHANGED current
  /\ empty' = (empty /\ current = {})
  /\ UNCHANGED <<changes, balanced, elapsed, caller>>

SendInsert(p) ==
  /\ p \in unique \ next
  /\ Len(changes) < ChannelCap
  /\ changes' = Append(changes, <<"insert", p>>)
  /\ next' = next \union {p} /\ empty' = FALSE
  /\ UNCHANGED <<current, unique, gone, balanced, elapsed, caller>>

\* Mutant: removals may go first.
SendRemove_Early(p) ==
  /\ p \in gone /\ Len(changes) < ChannelCap
  /\ changes' = Append(changes, <<"remove", p>>)
  /\ gone' = gone \ {p}
  /\ UNCHANGED <<current, unique, next, balanced, empty, elapsed, caller>>

\* After every insertion.
SendRemove(p) ==
  /\ p \in gone /\ next = unique /\ Len(changes) < ChannelCap
  /\ changes' = Append(changes, <<"remove", p>>)
  /\ gone' = gone \ {p}
  /\ UNCHANGED <<current, unique, next, balanced, empty, elapsed, caller>>

Settle ==
  /\ unique # {} /\ next = unique /\ gone = {}
  /\ current' = next /\ unique' = {} /\ next' = {} /\ empty' = FALSE
  /\ UNCHANGED <<gone, changes, balanced, elapsed, caller>>

RefresherStep ==
  \/ \E answer \in SUBSET Pod : Resolve(answer)
  \/ \E p \in Pod : SendInsert(p) \/ SendRemove(p)
  \/ Settle

\* What the balancer has once it has taken the first n changes.
BalancedAfter(n) ==
  LET Removed(p, i) == \E j \in i..n : changes[j] = <<"remove", p>>
  IN  {p \in Pod : \/ p \in balanced /\ ~Removed(p, 1)
                   \/ \E i \in 1..n : changes[i] = <<"insert", p>> /\ ~Removed(p, i + 1)}

\* The balancing channel takes a change.
Balance ==
  /\ changes # <<>>
  /\ balanced' = BalancedAfter(1) /\ changes' = Tail(changes)
  /\ UNCHANGED <<taskVars, empty, elapsed, caller>>

-----------------------------------------------------------------------------
(* wait_for_endpoints *)

Moves(c, from, to) ==
  /\ caller[c] = from /\ caller' = [caller EXCEPT ![c] = to]
  /\ UNCHANGED <<taskVars, changes, balanced, empty, elapsed>>

Call(c) == Moves(c, "idle", IF empty THEN "waiting" ELSE "sent")

Woken(c) == ~empty /\ Moves(c, "waiting", "sent")

\* Mutant: a caller waits for the flag and for nothing else.
FailFast_Untimed(c) == ~empty /\ Moves(c, "waiting", "failed")

\* What is left of the budget has passed, measured from the start and not from
\* the call.
FailFast(c) == empty /\ elapsed = Budget /\ Moves(c, "waiting", "failed")

\* The call is over, and the caller may call again.
Again(c) == Moves(c, "sent", "idle") \/ Moves(c, "failed", "idle")

Tick ==
  /\ empty /\ elapsed < Budget /\ elapsed' = elapsed + 1
  /\ UNCHANGED <<taskVars, changes, balanced, empty, caller>>

CallerStep(c) == Call(c) \/ Woken(c) \/ FailFast(c) \/ Again(c)

EndpointsNext == RefresherStep \/ Balance \/ Tick \/ \E c \in Caller : CallerStep(c)

EndpointsSpec == EndpointsInit /\ [][EndpointsNext]_endpointsVars

\* Time passes and a waiting task is woken; the DNS answers when it likes.
EndpointsFairness ==
  WF_endpointsVars(Tick) /\ \A c \in Caller : WF_endpointsVars(Woken(c) \/ FailFast(c))

FairEndpointsSpec == EndpointsSpec /\ EndpointsFairness

-----------------------------------------------------------------------------
(* Properties. *)

\* A caller that is let through finds an endpoint, at once or when the changes
\* before it are taken; and however the answers of the DNS turn over, the balancer
\* is never left without one again.
SentHasEndpoint ==
  /\ ~empty => BalancedAfter(Len(changes)) # {}
  /\ \A n, m \in 0..Len(changes) : n <= m /\ BalancedAfter(n) # {} => BalancedAfter(m) # {}

\* Between two answers the task knows what the balancer will have, and amid one too.
TaskKnowsBalancer ==
  /\ BalancedAfter(Len(changes)) = IF unique = {} THEN current ELSE next \union gone
  /\ unique = {} => next = {} /\ gone = {}
  /\ gone \intersect unique = {}

\* The balancer has an endpoint for whoever is let through, and the task that feeds
\* it through the channel knows which (spawn_endpoint_refresher).
EndpointsInv == EndpointsTypeOK /\ SentHasEndpoint /\ TaskKnowsBalancer

\* A waiting caller is let through or told to give up.
WaitEnds == \A c \in Caller : (caller[c] = "waiting") ~> (caller[c] # "waiting")
================================================================================
