------------------------------ MODULE MCPanel -------------------------------
(* An instance of MetricsPanel for TLC.                                      *)
EXTENDS MetricsPanel

=============================================================================
