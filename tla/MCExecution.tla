----------------------------- MODULE MCExecution -----------------------------
(* Instances of Execution for TLC.                                          *)
EXTENDS Execution, TLC

CONSTANTS s1, s2, d1, d2
=============================================================================
