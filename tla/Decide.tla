-------------------------------- MODULE Decide --------------------------------
(***************************************************************************)
(* What bigbrain's election decides from one round of leadership polls:    *)
(* who leads, whom to demote, whom to promote, whether a higher-priority   *)
(* replica should take over (failback).                                    *)
(*                                                                         *)
(* A round is a function obs from the discovered pods to what their        *)
(* GET /instance/leadership answered.  The loops of the code keep the best *)
(* element seen so far; here the result is the one element that beats all  *)
(* the others, and DecideLoops has the loops and shows that they find it.  *)
(*                                                                         *)
(* Abstracted: pod names are numbers in their order, a lease of 0 is none, *)
(* "unverified" says that lease_unverified_secs exceeds the grace, and the *)
(* time a failback candidate has been eligible is counted in rounds.       *)
(***************************************************************************)
EXTENDS Naturals

CONSTANTS
  Priority,       \* of a pod, from its role label
  WarmthLag,      \* FailbackWarmthLagNs
  FailbackEnabled,
  StabilityTicks  \* FailbackStability, in reconcile rounds

ASSUME DecideAssumption ==
  WarmthLag \in Nat /\ FailbackEnabled \in BOOLEAN /\ StabilityTicks \in Nat \ {0}

NoPod == 0

Observation ==
  [reach : BOOLEAN, isLeader : BOOLEAN, promoting : BOOLEAN, lease : Nat,
   unverified : BOOLEAN, healthy : BOOLEAN, latest : Nat, restarts : Nat,
   wasTransitioning : BOOLEAN]

-----------------------------------------------------------------------------
(* One observation. *)

isLiveLeaderClaim(o) == o.reach /\ o.isLeader /\ ~o.unverified

isTransitioning(o) ==
  IF o.reach THEN ~o.isLeader /\ (o.lease # 0 \/ o.promoting) ELSE o.wasTransitioning

isPromotable(o) == o.reach /\ ~o.isLeader /\ ~isTransitioning(o) /\ o.healthy

-----------------------------------------------------------------------------
(* A round of them. *)

claimedLeaders(obs) == {p \in DOMAIN obs : isLiveLeaderClaim(obs[p])}

anyTransitioning(obs) == \E p \in DOMAIN obs : isTransitioning(obs[p])

promotable(obs) == {p \in DOMAIN obs : isPromotable(obs[p])}

incumbentDiscoveredUnreachable(obs, incumbent) ==
  incumbent \in DOMAIN obs /\ ~obs[incumbent].reach

\* Higher lease first, a lease before none, then the pod name.
betterLeader(obs, p, q) ==
  \/ obs[p].lease > obs[q].lease
  \/ obs[p].lease = obs[q].lease /\ p < q

\* Higher priority first, then the later snapshot, then the pod name.
morePreferredCandidate(obs, p, q) ==
  \/ Priority[p] > Priority[q]
  \/ Priority[p] = Priority[q] /\ obs[p].latest > obs[q].latest
  \/ Priority[p] = Priority[q] /\ obs[p].latest = obs[q].latest /\ p < q

\* Mutant: an attempt as old as the other's counts as less recent.
lessRecentlyAttempted_OrEqual(obs, attempted, p, q) == attempted[p] <= attempted[q]

\* attempted[p] orders the promote attempts, 0 for a pod never attempted.
lessRecentlyAttempted(obs, attempted, p, q) ==
  \/ attempted[p] < attempted[q]
  \/ attempted[p] = attempted[q] /\ morePreferredCandidate(obs, p, q)

PickLeader(obs, p) ==
  /\ p \in claimedLeaders(obs)
  /\ \A q \in claimedLeaders(obs) \ {p} : betterLeader(obs, p, q)

BestCandidate(obs, attempted, p) ==
  /\ p \in promotable(obs)
  /\ \A q \in promotable(obs) \ {p} : lessRecentlyAttempted(obs, attempted, p, q)

-----------------------------------------------------------------------------
(* Failback. *)

NoFailback == [candidate |-> NoPod, restarts |-> 0, age |-> 0]

warmEnough(cand, leader) == cand >= leader \/ leader - cand <= WarmthLag

failbackCandidates(obs, leader) ==
  {p \in promotable(obs) :
     /\ Priority[p] > Priority[leader]
     /\ warmEnough(obs[p].latest, obs[leader].latest)}

BestFailbackCandidate(obs, leader, p) ==
  /\ FailbackEnabled
  /\ p \in failbackCandidates(obs, leader)
  /\ \A q \in failbackCandidates(obs, leader) \ {p} : morePreferredCandidate(obs, p, q)

SameCandidate(obs, prior, p) ==
  prior.candidate = p /\ prior.restarts = obs[p].restarts

\* What a leaderless round keeps of the candidate's clock.
retainedFailback(obs, prior) ==
  IF \E p \in promotable(obs) : SameCandidate(obs, prior, p) THEN prior ELSE NoFailback

\* Mutant: the stability window begins anew in every round.
nextFailback_Now(obs, prior, p) == [candidate |-> p, restarts |-> obs[p].restarts, age |-> 0]

\* The state evaluateFailback returns with candidate p.
nextFailback(obs, prior, p) ==
  [candidate |-> p, restarts |-> obs[p].restarts,
   age |-> IF SameCandidate(obs, prior, p) THEN prior.age ELSE 0]

failbackDue(state) == state.age >= StabilityTicks
=============================================================================
