------------------------------ MODULE LeaderFeed ------------------------------
(***************************************************************************)
(* What the registry and a tracker promise together: leaders are published *)
(* one after another, and the proxy routes to one of them, moving forward  *)
(* only.  It may skip publications and never goes back to an earlier one.  *)
(***************************************************************************)
EXTENDS Naturals, Sequences

CONSTANTS
  Url,      \* what may be published as the leader
  NoLeader  \* where the proxy routes before it knows

VARIABLES
  log,     \* the leaders published so far
  view,    \* which of them the proxy knows of, 0 for none
  shown    \* where the proxy routes

FeedVars == <<log, view, shown>>

FeedInit == log = <<>> /\ view = 0 /\ shown = NoLeader

Publish == \E u \in Url : log' = Append(log, u) /\ UNCHANGED <<view, shown>>

Observe ==
  /\ view' \in (view + 1)..Len(log)
  /\ shown' = log[view']
  /\ UNCHANGED log

FeedNext == Publish \/ Observe

FeedSpec == FeedInit /\ [][FeedNext]_FeedVars
===============================================================================
