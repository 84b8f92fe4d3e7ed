------------------------------ MODULE ProcInv ------------------------------
(***************************************************************************)
(* The inductive invariant of Proc.  A thread that has a CPU holds its own *)
(* p->lock around swtch(), or wait_lock, or nothing; only in the last case *)
(* may it be interrupted.                                                  *)
(***************************************************************************)
EXTENDS Proc

InSwitch == {"sched", "forkret", "yielded", "woken"}
Exiting == {"wake_init", "wake_parent", "zombie"}
InWaitLock == Exiting \cup {"wait_scan", "wait_sleep"}
Plain == {"user", "fork_parent", "fork_ready", "exit", "wait"}
Resting == {"RUNNABLE", "SLEEPING", "ZOMBIE"}
Gone == {"UNUSED", "USED", "ZOMBIE"}

(* The lock of p is held by CPU c for swtch(): the thread is on its way    *)
(* out of sched() or back from it, or scheduler() has not yet let go.      *)
Switching(c, p) == cproc[c] = p /\ (thread[c] = "scheduler" \/ pc[p] \in InSwitch)

(* CPUs and the processes they have.  A process has given up RUNNING when  *)
(* it enters sched(), and has it again when it leaves.                     *)
CpuInv ==
  /\ \A c \in CPUs : thread[c] = "proc" => cproc[c] # None
  /\ \A c, d \in CPUs : (cproc[c] # None /\ cproc[c] = cproc[d]) => c = d
  /\ \A c \in CPUs, p \in Procs :
       cproc[c] = p =>
         IF thread[c] = "proc" /\ pc[p] # "sched" THEN state[p] = "RUNNING"
         ELSE state[p] \in Resting
  /\ \A p \in Procs : state[p] = "RUNNING" \/ pc[p] # "sched" => \E c \in CPUs : Runs(c, p)

(* Who holds the locks.                                                    *)
LockInv ==
  /\ \A c \in CPUs, p \in Procs : plock[p] = c <=> Switching(c, p)
  /\ \A c \in CPUs, p \in Procs : Runs(c, p) => (wlock = c <=> pc[p] \in InWaitLock)
  /\ \A c \in CPUs : wlock = c => thread[c] = "proc"

(* Where threads resume, and where their loops are.                        *)
FlowInv ==
  \A p \in Procs :
    /\ pc[p] # "zombie_exit"
    /\ state[p] \in {"RUNNABLE", "SLEEPING"} => ctx[p] \in {"forkret", "yielded", "woken"}
    /\ state[p] = "USED" => ctx[p] = "forkret"
    /\ cont[p] \in Plain
    /\ pc[p] \notin InSwitch => cont[p] = "user"
    /\ scan[p] # 1 => pc[p] \in {"wake_init", "wake_parent", "wait_scan"}
    /\ scan[p] = NPROC + 1 => pc[p] = "wait_scan"

(* A process under construction belongs to one kfork().                    *)
ChildInv ==
  /\ \A p \in Procs : child[p] # None => state[child[p]] = "USED"
  /\ \A p, q \in Procs : (child[p] # None /\ child[p] = child[q]) => p = q
  /\ \A p \in Procs : \A l \in {pc[p], cont[p]} :
       /\ l \in {"fork_parent", "fork_ready"} => child[p] # None
       /\ l = "fork_ready" => parent[child[p]] # None

(* A parent lives and has not yet given its children away; init stays.     *)
ParentInv ==
  /\ state[initproc] \notin Gone
  /\ \A l \in {pc[initproc], cont[initproc]} : l \notin Exiting \cup {"exit"}
  /\ \A q \in Procs \ {initproc} : state[q] \notin {"UNUSED", "USED"} => parent[q] # None
  /\ \A q \in Procs : parent[q] # None =>
       state[parent[q]] \notin Gone /\ pc[parent[q]] \notin Exiting

PidInv ==
  /\ \A p \in Procs : pid[p] < nextpid
  /\ \A p, q \in Procs : (p # q /\ pid[p] = pid[q]) => pid[p] = 0

Sleeps(p) == state[p] = "SLEEPING" /\ chan[p] = p
Lost(p) == Sleeps(p) /\ \E q \in Kids(p) : state[q] = "ZOMBIE"

(* Nobody sleeps in kwait() beside a zombie child, except init while       *)
(* reparent() is about to wake it.  What a thread that holds wait_lock has *)
(* seen of the table so far stays true.                                    *)
ExitInv ==
  /\ \A p \in Procs : Lost(p) =>
       p = initproc /\ \E x \in Procs : pc[x] = "wake_init" /\ scan[x] = 1
  /\ \A p \in Procs :
       /\ pc[p] = "wait_scan" => \A q \in Kids(p) : q < scan[p] => state[q] # "ZOMBIE"
       /\ pc[p] = "wait_sleep" => \A q \in Kids(p) : state[q] # "ZOMBIE"
       /\ pc[p] = "wake_parent" /\ parent[p] < scan[p] => ~Sleeps(parent[p])
       /\ pc[p] = "zombie" => ~Sleeps(parent[p])

(* The parts together: inductive, and strong enough for the invariants of  *)
(* Proc.                                                                   *)
PInv ==
  /\ TypeOK
  /\ CpuInv /\ LockInv /\ FlowInv /\ ChildInv /\ ParentInv /\ PidInv /\ ExitInv
=============================================================================
