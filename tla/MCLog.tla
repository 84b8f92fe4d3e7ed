------------------------------- MODULE MCLog -------------------------------
(* Small instances of Log for TLC.                                         *)
EXTENDS LogInv, TLC

CONSTANTS p1, p2, v0, v1
=============================================================================
