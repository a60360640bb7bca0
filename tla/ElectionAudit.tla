---------------------------- MODULE ElectionAudit ----------------------------
(***************************************************************************)
(* Election with history variables, for what it promises about a sequence  *)
(* of rounds.  The history follows the behaviour and restricts nothing.    *)
(***************************************************************************)
EXTENDS Election

VARIABLES
  quiet,      \* rounds acted on since one saw a live leader
  fit,        \* rounds in a row that saw a pod promotable, and its restart count
  unexpected  \* promoting pods whose request the controller had given up

auditVars == <<quiet, fit, unexpected>>

AuditInit ==
  /\ Init
  /\ quiet = 0
  /\ fit = [p \in Pod |-> [restarts |-> 0, rounds |-> 0]]
  /\ unexpected = {}

Promoting == {p \in Pod : role[p] = "promoting"}

fitNext(p) ==
  IF p \notin DOMAIN obs \/ ~isPromotable(obs[p]) THEN [fit[p] EXCEPT !.rounds = 0]
  ELSE [restarts |-> obs[p].restarts,
        rounds |-> IF fit[p].restarts = obs[p].restarts
                   THEN AtMost(fit[p].rounds + 1, StabilityTicks + 1) ELSE 1]

AuditAct ==
  /\ Act
  /\ quiet' = IF claimedLeaders(obs) # {} THEN 0 ELSE AtMost(quiet + 1, PromoteDebounce)
  /\ fit' = [p \in Pod |-> fitNext(p)]
  /\ UNCHANGED unexpected

AuditNext ==
  \/ AuditAct
  \/ DiscoverFails /\ fit' = [p \in Pod |-> [fit[p] EXCEPT !.rounds = 0]]
                   /\ UNCHANGED <<quiet, unexpected>>
  \/ \E p \in Pod : /\ StrayPromote(p)
                    /\ unexpected' = unexpected \union ({p} \cap (Promoting' \ Promoting))
                    /\ UNCHANGED <<quiet, fit>>
  \/ /\ RoundStep \/ PromoteStep \/ DemoteStep \/ ReplicaStep \/ ControllerCrash
     /\ unexpected' = unexpected \cap Promoting'
     /\ UNCHANGED <<quiet, fit>>

AuditSpec == AuditInit /\ [][AuditNext]_<<vars, auditVars>>

PromotionStarts(p) == rpc = NoCall /\ rpc' = [pod |-> p, stage |-> "dial"]

\* The controller never promotes a second replica while the first promotion it
\* asked for is under way, unless that replica was unreachable or not listed,
\* or its request was one the controller had given up (rememberTransitions,
\* tryAcquirePromote): polls that are older than the first promotion do not
\* fool it.
NoSecondPromotion ==
  [][\A p \in Pod : PromotionStarts(p) =>
       \A q \in Promoting \ {p} :
         q \in unexpected \/ q \notin DOMAIN obs \/ ~obs[q].reach]_<<vars, auditVars>>

\* Nothing is promoted before its rounds are full, whatever lists, losses and
\* restarts of bigbrain there were in between: PromoteDebounce rounds without a live
\* leader, or, while one sits, more than StabilityTicks that each saw the replica fit
\* and not restarted, although the clock of the candidate survives leaderless rounds
\* and changes of leader (commitState, actLeaderless, act).
RoundsCounted ==
  [][\A p \in Pod : PromotionStarts(p) =>
       IF claimedLeaders(obs) = {} THEN quiet' >= PromoteDebounce
                                   ELSE fit'[p].rounds > StabilityTicks]_<<vars, auditVars>>

\* Why the controller is not fooled: a replica that promotes at its request has its
\* call still out, its entry in transitioningSeen made after this round's polls
\* began, or a poll of this round that shows it promoting.
PromotionsKnown ==
  /\ phase = "idle" => obs = NoRound
  /\ \A q \in Promoting \ unexpected :
       \/ rpc = [pod |-> q, stage |-> "replied"]
       \/ seen[q] = 0
       \/ q \in DOMAIN obs /\ obs[q].reach => obs[q].promoting /\ ~obs[q].isLeader

\* Why the rounds are full: neither the streak nor the candidate's clock is ahead
\* of the rounds there were.
CountsHonest ==
  /\ streak <= quiet
  /\ failback.candidate # NoPod =>
       LET seenFit == fit[failback.candidate]
       IN  /\ seenFit.restarts = failback.restarts
           /\ IF phase = "idle" THEN seenFit.rounds > failback.age
                               ELSE seenFit.rounds >= failback.age

AuditTypeOK ==
  /\ quiet \in 0..PromoteDebounce
  /\ fit \in [Pod -> [restarts : Nat, rounds : 0..(StabilityTicks + 1)]]
  /\ unexpected \subseteq Pod

\* The inductive invariant behind the two properties.
AuditInv == ElectionInv /\ AuditTypeOK /\ PromotionsKnown /\ CountsHonest
=============================================================================
