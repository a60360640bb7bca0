----------------------------- MODULE MCReplica -----------------------------
(* Instance of Replica for TLC. *)
EXTENDS Replica, TLC
CONSTANTS p1, p2
Symmetry2 == Permutations({p1, p2})
=============================================================================
