------------------------------ MODULE MCClient ------------------------------
(* An instance of Client for TLC: tasks are interchangeable, and so are      *)
(* hosts.                                                                     *)
EXTENDS Client, TLC

MCSymmetry == Permutations(Tasks) \cup Permutations(Hosts)

=============================================================================
