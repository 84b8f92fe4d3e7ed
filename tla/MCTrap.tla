------------------------------- MODULE MCTrap -------------------------------
(* Small instances of Trap for TLC.                                        *)
EXTENDS TrapInv, TLC

CONSTANTS t1, t2

Sym == Permutations(Threads)
=============================================================================
