----------------------------- MODULE MCConsole -----------------------------
(* A small instance of Console for TLC.                                    *)
EXTENDS Console, TLC

CONSTANTS p1, p2, b1, b2

(* Processes, and bytes, are interchangeable.                              *)
Sym == Permutations({p1, p2}) \cup Permutations({b1, b2})
=============================================================================
