----------------------------- MODULE AtomicDisk -----------------------------
(***************************************************************************)
(* What the logging layer promises to the file system (the comment at the  *)
(* head of kernel/log.c): a block store whose contents move from one       *)
(* transaction boundary to the next in a single step.                      *)
(*                                                                         *)
(*   cur     what a system call that reads a block sees now                *)
(*   dur     what the disk holds after a crash and the recovery at boot    *)
(*   active  the processes between begin_op() and end_op()                 *)
(***************************************************************************)
CONSTANTS Procs,   \* processes that make file-system calls
          Home,    \* block numbers
          Val,     \* block contents
          Zero     \* contents of a block of the image mkfs wrote

VARIABLES cur, dur, active

vars == <<cur, dur, active>>

Init == /\ cur = [b \in Home |-> Zero]
        /\ dur = [b \in Home |-> Zero]
        /\ active = {}

Begin(p) == /\ p \notin active
            /\ active' = active \cup {p}
            /\ UNCHANGED <<cur, dur>>

Write(p, b, v) == /\ p \in active
                  /\ cur' = [cur EXCEPT ![b] = v]
                  /\ UNCHANGED <<dur, active>>

End(p) == /\ p \in active
          /\ active' = active \ {p}
          /\ UNCHANGED <<cur, dur>>

(* Every finished call becomes durable at once, and no half-finished one.  *)
Commit == /\ active = {}
          /\ dur' = cur
          /\ UNCHANGED <<cur, active>>

(* A crash loses exactly the calls that were not yet committed.            *)
Crash == /\ cur' = dur
         /\ active' = {}
         /\ UNCHANGED dur

Next == \/ \E p \in Procs : \/ Begin(p)
                            \/ End(p)
                            \/ \E b \in Home, v \in Val : Write(p, b, v)
        \/ Commit
        \/ Crash

Spec == Init /\ [][Next]_vars
=============================================================================
