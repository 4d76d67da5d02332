------------------------------ MODULE MCRouting -----------------------------
(* An instance of Routing for TLC: four nodes on a ring of 16 identifiers.  *)
(* No finger target is a node's identifier (with 160 bits none ever is); one *)
(* of the identifiers looked up is.                                         *)
EXTENDS Routing

MCNodes == {0, 3, 6, 9}
MCFixIdx == {1, 3}
MCCallers == {0, 6}
MCTargets == {2, 6, 7, 12}

=============================================================================
