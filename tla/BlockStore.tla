----------------------------- MODULE BlockStore -----------------------------
(***************************************************************************)
(* What bread(), log_write() and brelse() promise their callers: every     *)
(* block has one current value, and at most one process at a time may look *)
(* at it or change it.                                                     *)
(***************************************************************************)
CONSTANTS Procs, Blocks, Val, Zero, NoProc

VARIABLES
  val,    \* current contents of every block
  owner   \* the process between bread() and brelse() of the block

vars == <<val, owner>>

Init ==
  /\ val = [k \in Blocks |-> Zero]
  /\ owner = [k \in Blocks |-> NoProc]

Lock(p, k) ==
  /\ owner[k] = NoProc
  /\ owner' = [owner EXCEPT ![k] = p]
  /\ UNCHANGED val

Change(p, k, v) ==
  /\ owner[k] = p
  /\ val' = [val EXCEPT ![k] = v]
  /\ UNCHANGED owner

Unlock(p, k) ==
  /\ owner[k] = p
  /\ owner' = [owner EXCEPT ![k] = NoProc]
  /\ UNCHANGED val

Next ==
  \E p \in Procs, k \in Blocks :
    Lock(p, k) \/ Unlock(p, k) \/ \E v \in Val : Change(p, k, v)

Spec == Init /\ [][Next]_vars
=============================================================================
