---------------------------- MODULE MCBufCache ----------------------------
(* Small instances of BufCache for TLC.                                    *)
EXTENDS BufInv

CONSTANTS p1, p2, v0, v1
=============================================================================
