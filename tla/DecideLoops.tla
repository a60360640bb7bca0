----------------------------- MODULE DecideLoops -----------------------------
(***************************************************************************)
(* decide.go as it is written: loops over the list of observations, each   *)
(* keeping the best element so far, composed by decide into one decision.  *)
(* The result is compared with the order-free definitions of Decide, which *)
(* is what Election acts on.                                               *)
(*                                                                         *)
(* The state is one call: its arguments, and its result once it returned.  *)
(***************************************************************************)
EXTENDS Decide, SequencesExt

CONSTANTS
  Listed,     \* the pods, as positive numbers
  Answers,    \* what a poll of a pod may have brought
  Attempts,   \* what the order of a promote attempt may be, 0 for none
  Priors      \* the failback states a call may start from

ASSUME LoopsAssumption ==
  /\ Listed \subseteq Nat \ {NoPod} /\ IsFiniteSet(Listed) /\ Priority \in [Listed -> Nat]
  /\ Answers \subseteq Observation /\ Attempts \subseteq Nat

VARIABLES
  list,      \* the pods in the order of the pod list
  obs,       \* their observations
  attempted, \* promoteAttempts
  prior,     \* the failback state before
  result     \* what decide returned

decideVars == <<list, obs, attempted, prior, result>>

NoResult == [leader |-> NoPod]

-----------------------------------------------------------------------------
(* The loops. *)

\* The element of s that a scan for those in eligible keeps, when it replaces the
\* one it has by each that beats it; NoPod for none.  beaten[p] is what p beats.
scan(s, eligible, beaten) ==
  LET best[n \in 0..Len(s)] ==
        IF n = 0 THEN NoPod
        ELSE IF s[n] \in eligible /\ (best[n - 1] = NoPod \/ best[n - 1] \in beaten[s[n]])
             THEN s[n] ELSE best[n - 1]
  IN  best[Len(s)]

pickLeader ==
  scan(list, claimedLeaders(obs), [p \in Listed |-> {q \in Listed : betterLeader(obs, p, q)}])

bestCandidate ==
  scan(list, promotable(obs),
       [p \in Listed |-> {q \in Listed : lessRecentlyAttempted(obs, attempted, p, q)}])

bestFailbackCandidate(leader) ==
  scan(list, failbackCandidates(obs, leader),
       [p \in Listed |-> {q \in Listed : morePreferredCandidate(obs, p, q)}])

evaluateFailback(leader) ==
  LET cand == IF FailbackEnabled THEN bestFailbackCandidate(leader) ELSE NoPod
      next == nextFailback(obs, prior, cand)
  IN  IF cand = NoPod THEN [target |-> NoPod, state |-> NoFailback]
      ELSE [target |-> IF failbackDue(next) THEN cand ELSE NoPod, state |-> next]

decideLeaderless ==
  [leader |-> NoPod, demotes |-> {}, failbackTarget |-> NoPod,
   failbackState |-> retainedFailback(obs, prior),
   promoteTarget |-> IF anyTransitioning(obs) THEN NoPod ELSE bestCandidate]

decideLed(leader) ==
  LET others == {p \in claimedLeaders(obs) : p # leader}
      fb == evaluateFailback(leader)
  IN  [leader |-> leader, demotes |-> others, promoteTarget |-> NoPod,
       failbackState |-> fb.state,
       failbackTarget |-> IF others = {} /\ ~anyTransitioning(obs) THEN fb.target ELSE NoPod]

decide == IF claimedLeaders(obs) = {} THEN decideLeaderless ELSE decideLed(pickLeader)

-----------------------------------------------------------------------------

DecideInit ==
  /\ list \in SetToSeqs(Listed)
  /\ obs \in [Listed -> Answers]
  /\ attempted \in [Listed -> Attempts]
  /\ prior \in Priors
  /\ result = NoResult

Decide ==
  /\ result = NoResult
  /\ result' = decide
  /\ UNCHANGED <<list, obs, attempted, prior>>

DecideNext == Decide

DecideSpec == DecideInit /\ [][DecideNext]_decideVars

\* What Election's ActLeaderless and ActLed take for the call: the choices among
\* the pods are the unique best ones, whatever the order of the list.
Specified ==
  /\ claimedLeaders(obs) = {} =>
       /\ result.leader = NoPod /\ result.demotes = {} /\ result.failbackTarget = NoPod
       /\ result.failbackState = retainedFailback(obs, prior)
       /\ IF anyTransitioning(obs) \/ promotable(obs) = {} THEN result.promoteTarget = NoPod
          ELSE \A p \in Listed : BestCandidate(obs, attempted, p) <=> p = result.promoteTarget
  /\ claimedLeaders(obs) # {} =>
       /\ \A p \in Listed : PickLeader(obs, p) <=> p = result.leader
       /\ result.promoteTarget = NoPod
       /\ result.demotes = claimedLeaders(obs) \ {result.leader}
       /\ IF ~FailbackEnabled \/ failbackCandidates(obs, result.leader) = {}
          THEN result.failbackState = NoFailback /\ result.failbackTarget = NoPod
          ELSE \E p \in Listed :
                 /\ BestFailbackCandidate(obs, result.leader, p)
                 /\ result.failbackState = nextFailback(obs, prior, p)
                 /\ result.failbackTarget =
                      IF /\ failbackDue(result.failbackState)
                         /\ claimedLeaders(obs) = {result.leader} /\ ~anyTransitioning(obs)
                      THEN p ELSE NoPod

\* decide computes what is specified: the comparisons (betterLeader,
\* lessRecentlyAttempted, morePreferredCandidate) are strict total orders, so the
\* loops' results do not depend on the order in which the pods are listed.
LoopsDecide == result # NoResult => Specified

\* A round never works against itself: at most one pod is to be promoted, never
\* one that claims to lead or is to be demoted, and while a pod may be on its way
\* to leadership no other is sent after it (decide's early returns).
OneActuation ==
  result # NoResult =>
    LET promoted == {result.promoteTarget, result.failbackTarget} \ {NoPod}
    IN  /\ \A p \in promoted, q \in promoted : p = q
        /\ promoted # {} =>
             /\ result.demotes = {}
             /\ \A p \in promoted : p # result.leader /\ ~obs[p].isLeader /\ obs[p].reach
             /\ \A q \in Listed : obs[q].reach /\ (obs[q].promoting \/ obs[q].lease # 0) =>
                                q = result.leader \/ obs[q].isLeader

\* What a round decides is what is specified, in whatever order the pods are listed,
\* and never works against itself (decide).
DecisionsSound == LoopsDecide /\ OneActuation
==============================================================================
