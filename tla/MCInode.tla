------------------------------ MODULE MCInode ------------------------------
(* A small instance of Inode for TLC.                                      *)
EXTENDS InodeInv, TLC

CONSTANTS p1, p2, n1, n2

SymP == Permutations(Procs) \cup Permutations(Names)
=============================================================================
