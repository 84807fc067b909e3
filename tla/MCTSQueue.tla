------------------------------ MODULE MCTSQueue -----------------------------
(* The instance of TSQueue that TLC checks.                                *)
EXTENDS TSQueue

CONSTANTS t1, t2
=============================================================================
