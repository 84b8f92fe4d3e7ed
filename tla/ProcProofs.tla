----------------------------- MODULE ProcProofs -----------------------------
(***************************************************************************)
(* PInv, the inductive invariant of process management, is preserved by    *)
(* every step, for any number of CPUs and process slots; from it follow    *)
(* the invariants of Proc.  In a lemma <1>0 names the parts of PInv, some  *)
(* steps say where the action finds the process, and then there is one     *)
(* step for each part that must hold again.                                *)
(***************************************************************************)
EXTENDS ProcInv, TLAPS

(* What the code takes for granted of proc[]: slots are numbered from 1,   *)
(* the first is that of init, and None, the null pointer, is not one.      *)
LEMMA SlotFacts ==
  /\ initproc \in Procs /\ None \notin Procs
  /\ \A p \in Procs : p \in Nat /\ 1 <= p /\ p <= NPROC
BY ProcAssumption DEF initproc, None, Procs

(* wait_lock excludes: while one thread is inside kexit() or kwait() with  *)
(* the lock, no other is.                                                  *)
LEMMA Exclusive ==
  ASSUME PInv, NEW c \in CPUs, NEW p \in Procs, Runs(c, p), pc[p] \in InWaitLock
  PROVE  wlock = c /\ \A q \in Procs \ {p} : pc[q] \notin InWaitLock
<1> USE SlotFacts, ProcAssumption
<1>1. wlock = c
  BY DEF PInv, LockInv
<1>2. ASSUME NEW q \in Procs \ {p}, pc[q] \in InWaitLock
      PROVE  FALSE
  <2>1. PICK d \in CPUs : Runs(d, q)
    BY <1>2 DEF PInv, CpuInv, InWaitLock, Exiting
  <2> QED
    BY <1>1, <1>2, <2>1 DEF PInv, LockInv, Runs
<1> QED
  BY <1>1, <1>2

(* When wait_lock is free no thread is between its acquire() and its       *)
(* release().                                                              *)
LEMMA NobodyInside ==
  ASSUME PInv, wlock = NoCpu
  PROVE  \A q \in Procs : pc[q] \notin InWaitLock
BY ProcAssumption DEF PInv, CpuInv, LockInv, InWaitLock, Exiting

(* push_off() keeps the timer out: where noff is 0, so that an interrupt   *)
(* can come, the thread is outside the critical sections and outside       *)
(* swtch().                                                                *)
LEMMA Uninterrupted ==
  ASSUME PInv, NEW c \in CPUs, NEW p \in Procs, Runs(c, p), Holds(c, {})
  PROVE  pc[p] \in Plain
<1>1. pc[p] \notin InSwitch
  BY DEF Holds, PInv, LockInv, Switching, Runs
<1> QED
  BY <1>1
     DEF Holds, PInv, TypeOK, Labels, LockInv, FlowInv, InSwitch, InWaitLock,
         Exiting, Plain

(* userinit() leaves the table in order.                                   *)
LEMMA InitHolds == Init => PInv
<1> SUFFICES ASSUME Init PROVE PInv
  OBVIOUS
<1> USE SlotFacts, ProcAssumption
<1>1. TypeOK
  BY DEF Init, TypeOK, Labels
<1>2. CpuInv /\ LockInv
  BY DEF Init, CpuInv, LockInv, Runs, Switching, Resting, InWaitLock, Exiting,
         InSwitch
<1>3. FlowInv
  BY DEF Init, FlowInv, Plain, InSwitch
<1>4. ChildInv /\ ParentInv /\ PidInv
  BY DEF Init, ChildInv, ParentInv, PidInv, Gone, Exiting, None, initproc
<1>5. ExitInv
  BY DEF Init, ExitInv, Lost, Sleeps, Kids
<1> QED
  BY <1>1, <1>2, <1>3, <1>4, <1>5 DEF PInv

(* scheduler() takes a runnable process. Its lock is free, so no CPU is    *)
(* still on its stack, and it starts where ctx says.                       *)
LEMMA ScheduleInv ==
  ASSUME PInv, NEW c \in CPUs, NEW p \in Procs,
         Schedule(c, p)
  PROVE  PInv'
<1>0. /\ TypeOK /\ CpuInv /\ LockInv /\ FlowInv
      /\ ChildInv /\ ParentInv /\ PidInv /\ ExitInv
  BY DEF PInv
<1> USE SlotFacts, ProcAssumption DEF Schedule, Go, TypeOK
<1>1. \A d \in CPUs : cproc[d] # p
  BY <1>0 DEF Schedule, Free, TypeOK, CpuInv, LockInv, Switching, InSwitch
<1>2. /\ pc[p] = "sched" /\ plock[p] = NoCpu /\ scan[p] = 1
      /\ ctx[p] \in {"forkret", "yielded", "woken"}
  BY <1>0 DEF Schedule, Free, TypeOK, CpuInv, FlowInv, Runs
<1>3. TypeOK' /\ PidInv'
  BY <1>0, <1>2 DEF Labels, PidInv
<1>4. FlowInv' /\ ChildInv' /\ ParentInv'
  BY <1>0, <1>2 DEF FlowInv, Plain, InSwitch, ChildInv, ParentInv, Gone, Exiting
<1>5. CpuInv' /\ LockInv'
  BY <1>0, <1>1, <1>2
     DEF CpuInv, LockInv, Switching, Runs, Resting, InSwitch, InWaitLock,
         Exiting
<1>6. ExitInv'
  BY <1>0, <1>2 DEF ExitInv, Lost, Sleeps, Kids
<1> QED
  BY ONLY <1>3, <1>4, <1>5, <1>6 DEF PInv

(* Back in scheduler(): the lock of the process that has left its stack is *)
(* released.                                                               *)
LEMMA ResumesInv ==
  ASSUME PInv, NEW c \in CPUs,
         SchedulerResumes(c)
  PROVE  PInv'
<1>0. /\ TypeOK /\ CpuInv /\ LockInv /\ FlowInv
      /\ ChildInv /\ ParentInv /\ PidInv /\ ExitInv
  BY DEF PInv
<1> USE SlotFacts, ProcAssumption DEF SchedulerResumes, table, locals, TypeOK
<1>1. TypeOK' /\ PidInv'
  BY <1>0 DEF Labels, PidInv
<1>2. FlowInv' /\ ChildInv' /\ ParentInv'
  BY <1>0 DEF FlowInv, Plain, InSwitch, ChildInv, ParentInv, Gone, Exiting
<1>3. CpuInv' /\ LockInv'
  BY <1>0
     DEF CpuInv, LockInv, Switching, Runs, Resting, InSwitch, InWaitLock,
         Exiting
<1>4. ExitInv'
  BY <1>0 DEF ExitInv, Lost, Sleeps, Kids
<1> QED
  BY ONLY <1>1, <1>2, <1>3, <1>4 DEF PInv

(* sched(): the thread leaves the CPU with its lock held, and not RUNNING. *)
LEMMA SchedInv ==
  ASSUME PInv, NEW c \in CPUs, NEW p \in Procs,
         Sched(c, p)
  PROVE  PInv'
<1>0. /\ TypeOK /\ CpuInv /\ LockInv /\ FlowInv
      /\ ChildInv /\ ParentInv /\ PidInv /\ ExitInv
  BY DEF PInv
<1> USE SlotFacts, ProcAssumption DEF Sched, table, locks, locals, TypeOK
<1>1. TypeOK' /\ PidInv'
  BY <1>0 DEF Labels, PidInv
<1>2. FlowInv' /\ ChildInv' /\ ParentInv'
  BY <1>0 DEF FlowInv, Plain, InSwitch, ChildInv, ParentInv, Gone, Exiting
<1>3. CpuInv' /\ LockInv'
  BY <1>0
     DEF CpuInv, LockInv, Switching, Runs, Resting, InSwitch, InWaitLock,
         Exiting
<1>4. ExitInv'
  BY <1>0 DEF ExitInv, Lost, Sleeps, Kids
<1> QED
  BY ONLY <1>1, <1>2, <1>3, <1>4 DEF PInv

(* The thread has come back from swtch() and releases the lock that        *)
(* scheduler() took for it.                                                *)
LEMMA ResumeInv ==
  ASSUME PInv, NEW c \in CPUs, NEW p \in Procs,
         Resume(c, p)
  PROVE  PInv'
<1>0. /\ TypeOK /\ CpuInv /\ LockInv /\ FlowInv
      /\ ChildInv /\ ParentInv /\ PidInv /\ ExitInv
  BY DEF PInv
<1> USE SlotFacts, ProcAssumption DEF Resume, Go, cpus, TypeOK
<1>1. pc'[p] \in Plain /\ state[p] = "RUNNING" /\ scan[p] = 1 /\ pc[p] \notin Plain
  BY <1>0 DEF Resume, Go, TypeOK, CpuInv, FlowInv, Runs, Plain
<1>2. TypeOK' /\ PidInv'
  BY <1>0, <1>1 DEF Labels, PidInv
<1>3. FlowInv' /\ ChildInv' /\ ParentInv'
  BY <1>0, <1>1 DEF FlowInv, Plain, InSwitch, ChildInv, ParentInv, Gone, Exiting
<1>4. CpuInv' /\ LockInv'
  BY <1>0, <1>1
     DEF CpuInv, LockInv, Switching, Runs, Resting, InSwitch, InWaitLock,
         Exiting, Plain
<1>5. ExitInv'
  BY <1>0, <1>1 DEF ExitInv, Lost, Sleeps, Kids, Plain
<1> QED
  BY ONLY <1>2, <1>3, <1>4, <1>5 DEF PInv

(* yield(): the timer interrupts only a thread that holds no lock, which   *)
(* takes its own.                                                          *)
LEMMA YieldInv ==
  ASSUME PInv, NEW c \in CPUs, NEW p \in Procs,
         Yield(c, p)
  PROVE  PInv'
<1>0. /\ TypeOK /\ CpuInv /\ LockInv /\ FlowInv
      /\ ChildInv /\ ParentInv /\ PidInv /\ ExitInv
  BY DEF PInv
<1> USE SlotFacts, ProcAssumption DEF Yield, TimerYields, Go, cpus, Free, TypeOK
<1>1. pc[p] \in Plain /\ state[p] = "RUNNING"
  BY <1>0, Uninterrupted DEF Yield, TimerYields, CpuInv, Runs, Plain
<1>2. TypeOK' /\ PidInv'
  BY <1>0, <1>1 DEF Labels, PidInv
<1>3. FlowInv' /\ ChildInv' /\ ParentInv'
  BY <1>0, <1>1 DEF FlowInv, Plain, InSwitch, ChildInv, ParentInv, Gone, Exiting
<1>4. CpuInv' /\ LockInv'
  BY <1>0, <1>1
     DEF CpuInv, LockInv, Switching, Runs, Resting, InSwitch, InWaitLock,
         Exiting, Plain
<1>5. ExitInv'
  BY <1>0, <1>1 DEF ExitInv, Lost, Sleeps, Kids, Plain
<1> QED
  BY ONLY <1>2, <1>3, <1>4, <1>5 DEF PInv

(* kfork() takes a free slot, which is no one's parent, child under        *)
(* construction or stack in use, and a fresh pid.                          *)
LEMMA ForkInv ==
  ASSUME PInv, NEW c \in CPUs, NEW p \in Procs, NEW q \in Procs,
         Fork(c, p, q)
  PROVE  PInv'
<1>0. /\ TypeOK /\ CpuInv /\ LockInv /\ FlowInv
      /\ ChildInv /\ ParentInv /\ PidInv /\ ExitInv
  BY DEF PInv
<1> USE SlotFacts, ProcAssumption
   DEF Fork, AllocProc, AllocPid, UserCall, Go, locks, cpus, TypeOK
<1>1. TypeOK' /\ PidInv'
  BY <1>0 DEF Labels, PidInv
<1>2. FlowInv' /\ ChildInv'
  BY <1>0 DEF FlowInv, Plain, InSwitch, ChildInv
<1>3. ParentInv'
  BY <1>0 DEF ParentInv, Gone, Exiting
<1>4. CpuInv' /\ LockInv'
  BY <1>0
     DEF CpuInv, LockInv, Switching, Runs, Resting, InSwitch, InWaitLock,
         Exiting
<1>5. ExitInv'
  BY <1>0 DEF ExitInv, Lost, Sleeps, Kids
<1> QED
  BY ONLY <1>1, <1>2, <1>3, <1>4, <1>5 DEF PInv

(* kfork() without memory gives the slot back.                             *)
LEMMA ForkFailsInv ==
  ASSUME PInv, NEW c \in CPUs, NEW p \in Procs, NEW q \in Procs,
         ForkFails(c, p, q)
  PROVE  PInv'
<1>0. /\ TypeOK /\ CpuInv /\ LockInv /\ FlowInv
      /\ ChildInv /\ ParentInv /\ PidInv /\ ExitInv
  BY DEF PInv
<1> USE SlotFacts, ProcAssumption
   DEF ForkFails, AllocProc, AllocPid, FreeProc, locks, cpus, locals, TypeOK
<1>1. pc[q] = "sched" /\ \A d \in CPUs : cproc[d] # q
  <2>1. state[q] = "UNUSED"
    BY DEF ForkFails, AllocProc
  <2> QED
    BY <1>0, <2>1 DEF CpuInv, Runs, Resting
<1>2. TypeOK' /\ PidInv'
  BY <1>0 DEF Labels, PidInv
<1>3. FlowInv' /\ ChildInv' /\ ParentInv'
  BY <1>0 DEF FlowInv, Plain, InSwitch, ChildInv, ParentInv, Gone, Exiting
<1>4. CpuInv' /\ LockInv'
  BY <1>0
     DEF CpuInv, LockInv, Switching, Runs, Resting, InSwitch, InWaitLock,
         Exiting
<1>5. ExitInv'
  BY <1>0, <1>1 DEF ExitInv, Lost, Sleeps, Kids
<1> QED
  BY ONLY <1>2, <1>3, <1>4, <1>5 DEF PInv

(* kfork() sets the parent of the child while nobody looks at parents.     *)
LEMMA ForkParentInv ==
  ASSUME PInv, NEW c \in CPUs, NEW p \in Procs,
         ForkParent(c, p)
  PROVE  PInv'
<1>0. /\ TypeOK /\ CpuInv /\ LockInv /\ FlowInv
      /\ ChildInv /\ ParentInv /\ PidInv /\ ExitInv
  BY DEF PInv
<1> USE SlotFacts, ProcAssumption DEF ForkParent, Go, locks, cpus, TypeOK
<1>1. state[p] = "RUNNING" /\ Runs(c, p)
  BY <1>0 DEF ForkParent, Runs, CpuInv
<1>2. child[p] \in Procs /\ state[child[p]] = "USED"
  BY <1>0 DEF ForkParent, ChildInv, TypeOK
<1>3. \A q \in Procs : pc[q] \notin InWaitLock
  BY NobodyInside DEF ForkParent
<1>4. TypeOK' /\ PidInv'
  BY <1>0, <1>1 DEF Labels, PidInv
<1>5. FlowInv' /\ ChildInv' /\ ParentInv'
  <2>1. FlowInv'
    BY <1>0 DEF FlowInv, Plain, InSwitch
  <2>2. ChildInv'
    BY <1>0, <1>2 DEF ChildInv
  <2>3. ParentInv'
    BY <1>0, <1>1, <1>2 DEF ParentInv, Gone, Exiting
  <2> QED
    BY <2>1, <2>2, <2>3
<1>6. CpuInv' /\ LockInv'
  BY <1>0
     DEF CpuInv, LockInv, Switching, Runs, Resting, InSwitch, InWaitLock,
         Exiting
<1>7. ExitInv'
  BY <1>0, <1>2, <1>3 DEF ExitInv, Lost, Sleeps, Kids, InWaitLock, Exiting
<1> QED
  BY ONLY <1>4, <1>5, <1>6, <1>7 DEF PInv

(* kfork() makes the child runnable: it has its parent by now.             *)
LEMMA ForkReadyInv ==
  ASSUME PInv, NEW c \in CPUs, NEW p \in Procs,
         ForkReady(c, p)
  PROVE  PInv'
<1>0. /\ TypeOK /\ CpuInv /\ LockInv /\ FlowInv
      /\ ChildInv /\ ParentInv /\ PidInv /\ ExitInv
  BY DEF PInv
<1> USE SlotFacts, ProcAssumption DEF ForkReady, Go, locks, cpus, TypeOK
<1>1. state[p] = "RUNNING" /\ Runs(c, p)
  BY <1>0 DEF ForkReady, Runs, CpuInv
<1>2. /\ child[p] \in Procs /\ child[p] # p
      /\ state[child[p]] = "USED" /\ parent[child[p]] # None
  BY <1>0, <1>1 DEF ForkReady, ChildInv, TypeOK
<1>3. TypeOK' /\ PidInv'
  BY <1>0, <1>2 DEF Labels, PidInv
<1>4. FlowInv' /\ ChildInv' /\ ParentInv'
  BY <1>0, <1>2 DEF FlowInv, Plain, InSwitch, ChildInv, ParentInv, Gone, Exiting
<1>5. CpuInv' /\ LockInv'
  BY <1>0, <1>2
     DEF CpuInv, LockInv, Switching, Runs, Resting, InSwitch, InWaitLock,
         Exiting
<1>6. ExitInv'
  BY <1>0 DEF ExitInv, Lost, Sleeps, Kids
<1> QED
  BY ONLY <1>3, <1>4, <1>5, <1>6 DEF PInv

(* kkill() marks a process and ends its sleep; it touches no parent and no *)
(* lock.                                                                   *)
LEMMA KillInv ==
  ASSUME PInv, NEW c \in CPUs, NEW p \in Procs, NEW q \in Procs, NEW n \in KillPids,
         Kill(c, p, n, q)
  PROVE  PInv'
<1>0. /\ TypeOK /\ CpuInv /\ LockInv /\ FlowInv
      /\ ChildInv /\ ParentInv /\ PidInv /\ ExitInv
  BY DEF PInv
<1> USE SlotFacts, ProcAssumption DEF Kill, locks, cpus, locals, TypeOK
<1>1. TypeOK' /\ PidInv'
  BY <1>0 DEF Labels, PidInv, Free
<1>2. FlowInv' /\ ChildInv' /\ ParentInv'
  BY <1>0 DEF FlowInv, Plain, InSwitch, ChildInv, ParentInv, Gone, Exiting, Free
<1>3. CpuInv' /\ LockInv'
  BY <1>0
     DEF CpuInv, LockInv, Switching, Runs, Resting, InSwitch, InWaitLock,
         Exiting
<1>4. ExitInv'
  <2>1. /\ UNCHANGED <<chan, parent, pc, scan>>
        /\ \A r \in Procs : state'[r] \in {"SLEEPING", "ZOMBIE"} => state'[r] = state[r]
    BY <1>0 DEF Kill, locals, TypeOK
  <2>2. \A r \in Procs : Sleeps(r)' => Sleeps(r)
    BY <2>1 DEF Sleeps
  <2>3. \A r \in Procs : Lost(r)' => Lost(r)
    BY <2>1, <2>2 DEF Lost, Kids
  <2>4. \A r \in Procs : pc[r] \in {"wake_parent", "zombie"} => parent[r] \in Procs
    BY <1>0 DEF TypeOK, ParentInv, CpuInv, Runs, Exiting
  <2> QED
    BY <1>0, <2>1, <2>2, <2>3, <2>4 DEF ExitInv, Kids
<1> QED
  BY ONLY <1>1, <1>2, <1>3, <1>4 DEF PInv

(* A process other than init enters kexit().                               *)
LEMMA ExitCallInv ==
  ASSUME PInv, NEW c \in CPUs, NEW p \in Procs,
         Exit(c, p)
  PROVE  PInv'
<1>0. /\ TypeOK /\ CpuInv /\ LockInv /\ FlowInv
      /\ ChildInv /\ ParentInv /\ PidInv /\ ExitInv
  BY DEF PInv
<1> USE SlotFacts, ProcAssumption DEF Exit, Go, table, locks, cpus, TypeOK
<1>1. TypeOK' /\ PidInv'
  BY <1>0 DEF Labels, PidInv
<1>2. FlowInv' /\ ChildInv' /\ ParentInv'
  BY <1>0 DEF FlowInv, Plain, InSwitch, ChildInv, ParentInv, Gone, Exiting
<1>3. CpuInv' /\ LockInv'
  BY <1>0
     DEF CpuInv, LockInv, Switching, Runs, Resting, InSwitch, InWaitLock,
         Exiting
<1>4. ExitInv'
  BY <1>0 DEF ExitInv, Lost, Sleeps, Kids
<1> QED
  BY ONLY <1>1, <1>2, <1>3, <1>4 DEF PInv

(* reparent(): the children go to init, which may sleep and is to be woken *)
(* when one of them is a zombie.                                           *)
LEMMA ReparentInv ==
  ASSUME PInv, NEW c \in CPUs, NEW p \in Procs,
         Reparent(c, p)
  PROVE  PInv'
<1>0. /\ TypeOK /\ CpuInv /\ LockInv /\ FlowInv
      /\ ChildInv /\ ParentInv /\ PidInv /\ ExitInv
  BY DEF PInv
<1> USE SlotFacts, ProcAssumption DEF Reparent, Go, cpus, TypeOK
<1>1. state[p] = "RUNNING" /\ Runs(c, p)
  BY <1>0 DEF Reparent, Runs, CpuInv
<1>2. \A q \in Procs : pc[q] \notin InWaitLock
  BY NobodyInside DEF Reparent
<1>3. /\ p # initproc /\ parent[p] # None
      /\ state[initproc] \notin Gone /\ pc[initproc] \notin Exiting
  BY <1>0, <1>1 DEF Reparent, ParentInv
<1>4. scan[p] = 1
  BY <1>0 DEF Reparent, FlowInv
<1>5. TypeOK' /\ PidInv'
  BY <1>0 DEF Labels, PidInv
<1>6. FlowInv' /\ ChildInv' /\ ParentInv'
  BY <1>0 DEF FlowInv, Plain, InSwitch, ChildInv, ParentInv, Gone, Exiting
<1>7. CpuInv' /\ LockInv'
  BY <1>0
     DEF CpuInv, LockInv, Switching, Runs, Resting, InSwitch, InWaitLock,
         Exiting
<1>8. ExitInv'
  BY <1>0, <1>2, <1>3, <1>4
     DEF ExitInv, Lost, Sleeps, Kids, InWaitLock, Exiting, initproc
<1> QED
  BY ONLY <1>5, <1>6, <1>7, <1>8 DEF PInv

(* One iteration of wakeup(): whoever sleeps on the channel, in the slots  *)
(* passed so far, has been woken.                                          *)
LEMMA WakeupInv ==
  ASSUME PInv, NEW c \in CPUs, NEW p \in Procs,
         Wakeup(c, p)
  PROVE  PInv'
<1>0. /\ TypeOK /\ CpuInv /\ LockInv /\ FlowInv
      /\ ChildInv /\ ParentInv /\ PidInv /\ ExitInv
  BY DEF PInv
<1> USE SlotFacts, ProcAssumption DEF Wakeup, Go, locks, cpus, Channel, TypeOK
<1>1. state[p] = "RUNNING" /\ Runs(c, p)
  BY <1>0 DEF Wakeup, Runs, CpuInv
<1>2. scan[p] \in Procs
  <2>1. scan[p] \in 1 .. NPROC + 1 /\ pc[p] \in {"wake_init", "wake_parent"}
    BY <1>0
  <2>2. scan[p] = NPROC + 1 => pc[p] = "wait_scan"
    BY <1>0 DEF FlowInv
  <2> QED
    BY <2>1, <2>2 DEF Procs
<1>3. wlock = c /\ \A q \in Procs \ {p} : pc[q] \notin InWaitLock
  BY <1>1, Exclusive DEF Wakeup, InWaitLock, Exiting
<1>4. p # initproc /\ parent[p] # None
  BY <1>0, <1>1 DEF Wakeup, ParentInv, Exiting
<1>5. TypeOK' /\ PidInv'
  BY <1>0, <1>2 DEF Labels, PidInv
<1>6. FlowInv' /\ ChildInv'
  BY <1>0, <1>2 DEF FlowInv, Plain, InSwitch, ChildInv
<1>7. ParentInv'
  BY <1>0, <1>2 DEF ParentInv, Gone, Exiting
<1>8. CpuInv' /\ LockInv'
  BY <1>0
     DEF CpuInv, LockInv, Switching, Runs, Resting, InSwitch, InWaitLock,
         Exiting
<1>9. ExitInv'
  BY <1>0, <1>1, <1>2, <1>3, <1>4
     DEF ExitInv, Lost, Sleeps, Kids, InWaitLock, Exiting, initproc
<1> QED
  BY ONLY <1>5, <1>6, <1>7, <1>8, <1>9 DEF PInv

(* kexit() turns into a zombie, with no children, and with a parent that   *)
(* has been woken.                                                         *)
LEMMA ZombieInv ==
  ASSUME PInv, NEW c \in CPUs, NEW p \in Procs,
         Zombie(c, p)
  PROVE  PInv'
<1>0. /\ TypeOK /\ CpuInv /\ LockInv /\ FlowInv
      /\ ChildInv /\ ParentInv /\ PidInv /\ ExitInv
  BY DEF PInv
<1> USE SlotFacts, ProcAssumption DEF Zombie, Go, cpus, Free, TypeOK
<1>1. state[p] = "RUNNING" /\ Runs(c, p)
  BY <1>0 DEF Zombie, Runs, CpuInv
<1>2. wlock = c /\ \A q \in Procs \ {p} : pc[q] \notin InWaitLock
  BY <1>1, Exclusive DEF Zombie, InWaitLock, Exiting
<1>3. TypeOK' /\ PidInv'
  BY <1>0, <1>1 DEF Labels, PidInv
<1>4. FlowInv' /\ ChildInv' /\ ParentInv'
  BY <1>0, <1>1 DEF FlowInv, Plain, InSwitch, ChildInv, ParentInv, Gone, Exiting
<1>5. CpuInv' /\ LockInv'
  BY <1>0
     DEF CpuInv, LockInv, Switching, Runs, Resting, InSwitch, InWaitLock,
         Exiting
<1>6. ExitInv'
  BY <1>0, <1>2 DEF ExitInv, Lost, Sleeps, Kids, InWaitLock, Exiting
<1> QED
  BY ONLY <1>3, <1>4, <1>5, <1>6 DEF PInv

(* A process enters kwait().                                               *)
LEMMA WaitCallInv ==
  ASSUME PInv, NEW c \in CPUs, NEW p \in Procs,
         WaitCall(c, p)
  PROVE  PInv'
<1>0. /\ TypeOK /\ CpuInv /\ LockInv /\ FlowInv
      /\ ChildInv /\ ParentInv /\ PidInv /\ ExitInv
  BY DEF PInv
<1> USE SlotFacts, ProcAssumption
   DEF WaitCall, UserCall, Go, table, locks, cpus, TypeOK
<1>1. TypeOK' /\ PidInv'
  BY <1>0 DEF Labels, PidInv
<1>2. FlowInv' /\ ChildInv' /\ ParentInv'
  BY <1>0 DEF FlowInv, Plain, InSwitch, ChildInv, ParentInv, Gone, Exiting
<1>3. CpuInv' /\ LockInv'
  BY <1>0
     DEF CpuInv, LockInv, Switching, Runs, Resting, InSwitch, InWaitLock,
         Exiting
<1>4. ExitInv'
  BY <1>0 DEF ExitInv, Lost, Sleeps, Kids
<1> QED
  BY ONLY <1>1, <1>2, <1>3, <1>4 DEF PInv

(* kwait() takes wait_lock and starts its scan.                            *)
LEMMA WaitLockInv ==
  ASSUME PInv, NEW c \in CPUs, NEW p \in Procs,
         WaitLock(c, p)
  PROVE  PInv'
<1>0. /\ TypeOK /\ CpuInv /\ LockInv /\ FlowInv
      /\ ChildInv /\ ParentInv /\ PidInv /\ ExitInv
  BY DEF PInv
<1> USE SlotFacts, ProcAssumption DEF WaitLock, Go, table, cpus, TypeOK
<1>1. scan[p] = 1
  BY <1>0 DEF WaitLock, FlowInv
<1>2. TypeOK' /\ PidInv'
  BY <1>0 DEF Labels, PidInv
<1>3. FlowInv' /\ ChildInv'
  BY <1>0 DEF FlowInv, Plain, InSwitch, ChildInv
<1>4. ParentInv'
  BY <1>0 DEF ParentInv, Gone, Exiting
<1>5. CpuInv' /\ LockInv'
  BY <1>0
     DEF CpuInv, LockInv, Switching, Runs, Resting, InSwitch, InWaitLock,
         Exiting
<1>6. ExitInv'
  BY <1>0, <1>1 DEF ExitInv, Lost, Sleeps, Kids
<1> QED
  BY ONLY <1>2, <1>3, <1>4, <1>5, <1>6 DEF PInv

(* kwait() passes a child that is not a zombie; what it passed stays so,   *)
(* since becoming a zombie takes wait_lock.                                *)
LEMMA WaitSkipInv ==
  ASSUME PInv, NEW c \in CPUs, NEW p \in Procs, NEW q \in Procs,
         WaitSkip(c, p, q)
  PROVE  PInv'
<1>0. /\ TypeOK /\ CpuInv /\ LockInv /\ FlowInv
      /\ ChildInv /\ ParentInv /\ PidInv /\ ExitInv
  BY DEF PInv
<1> USE SlotFacts, ProcAssumption
   DEF WaitSkip, NextChild, table, locks, cpus, TypeOK
<1>1. parent[q] = p /\ scan[p] <= q /\ \A r \in Unseen(p) : q <= r
  BY DEF WaitSkip, NextChild, Unseen, Kids
<1>2. TypeOK' /\ PidInv'
  BY <1>0, <1>1 DEF Labels, PidInv
<1>3. FlowInv' /\ ChildInv' /\ ParentInv'
  BY <1>0, <1>1 DEF FlowInv, Plain, InSwitch, ChildInv, ParentInv, Gone, Exiting
<1>4. CpuInv' /\ LockInv'
  BY <1>0
     DEF CpuInv, LockInv, Switching, Runs, Resting, InSwitch, InWaitLock,
         Exiting
<1>5. ExitInv'
  <2>1. /\ UNCHANGED <<state, chan, parent, pc>> /\ scan' = [scan EXCEPT ![p] = q + 1]
        /\ pc[p] = "wait_scan" /\ state[q] # "ZOMBIE"
    BY <1>1 DEF WaitSkip, table
  <2>2. \A r \in Kids(p) : r < q + 1 => r < scan[p] \/ r = q
    <3>1. ASSUME NEW r \in Kids(p), r < q + 1, ~ (r < scan[p]) PROVE r = q
      <4>1. r \in Nat /\ scan[p] \in Nat
        BY <1>0 DEF TypeOK, Kids
      <4>2. q <= r
        BY <1>1, <3>1, <4>1 DEF Unseen
      <4> QED
        BY <3>1, <4>1, <4>2
    <3> QED
      BY <3>1
  <2>3. \A r \in Kids(p) : r < q + 1 => state[r] # "ZOMBIE"
    BY <1>0, <2>1, <2>2 DEF ExitInv
  <2> QED
    BY <1>0, <2>1, <2>3 DEF TypeOK, ExitInv, Lost, Sleeps, Kids
<1> QED
  BY ONLY <1>2, <1>3, <1>4, <1>5 DEF PInv

(* kwait() frees a zombie child. Its lock is free, so it has left its      *)
(* stack, and it has no children and is not under construction.            *)
LEMMA WaitReapInv ==
  ASSUME PInv, NEW c \in CPUs, NEW p \in Procs, NEW q \in Procs,
         WaitReap(c, p, q)
  PROVE  PInv'
<1>0. /\ TypeOK /\ CpuInv /\ LockInv /\ FlowInv
      /\ ChildInv /\ ParentInv /\ PidInv /\ ExitInv
  BY DEF PInv
<1> USE SlotFacts, ProcAssumption
   DEF WaitReap, NextChild, FreeProc, Go, cpus, TypeOK
<1>1. state[p] = "RUNNING" /\ Runs(c, p)
  BY <1>0 DEF WaitReap, Runs, CpuInv
<1>2. parent[q] = p /\ scan[p] <= q /\ \A r \in Unseen(p) : q <= r
  BY DEF WaitReap, NextChild, Unseen, Kids
<1>3. wlock = c /\ \A r \in Procs \ {p} : pc[r] \notin InWaitLock
  BY <1>1, Exclusive DEF WaitReap, InWaitLock, Exiting
<1>4. /\ q # p /\ q # initproc
      /\ \A r \in Procs : parent[r] # q /\ child[r] # q
      /\ \A d \in CPUs : cproc[d] # q
  <2>1. state[q] = "ZOMBIE" /\ plock[q] = NoCpu /\ parent[q] = p
    BY <1>2 DEF WaitReap, Free
  <2>2. q # p /\ q # initproc /\ \A r \in Procs : parent[r] # q /\ child[r] # q
    BY <1>0, <2>1 DEF ParentInv, Gone, ChildInv
  <2>3. \A d \in CPUs : cproc[d] # q
    BY <1>0, <2>1 DEF TypeOK, CpuInv, LockInv, Switching, InSwitch
  <2> QED
    BY <2>2, <2>3
<1>5. TypeOK' /\ PidInv'
  BY <1>0, <1>2, <1>4 DEF Labels, PidInv
<1>6. FlowInv' /\ ChildInv'
  BY <1>0, <1>2, <1>4 DEF FlowInv, Plain, InSwitch, ChildInv
<1>7. ParentInv'
  BY <1>0, <1>2, <1>4 DEF ParentInv, Gone, Exiting
<1>8. CpuInv'
  BY <1>0, <1>2, <1>4 DEF CpuInv, Runs, Resting
<1>9. LockInv'
  <2>1. /\ wlock' = NoCpu /\ pc' = [pc EXCEPT ![p] = "user"] /\ pc[p] = "wait_scan"
        /\ UNCHANGED <<plock, cproc, thread>> /\ wlock = c /\ Runs(c, p)
    BY <1>0 DEF WaitReap, Go, cpus, LockInv, InWaitLock
  <2> QED
    BY <1>0, <2>1
       DEF TypeOK, LockInv, CpuInv, Switching, Runs, InSwitch, InWaitLock, Exiting
<1>10. ExitInv'
  <2>1. /\ state' = [state EXCEPT ![q] = "UNUSED"]
        /\ chan' = [chan EXCEPT ![q] = None]
        /\ parent' = [parent EXCEPT ![q] = None] /\ scan' = [scan EXCEPT ![p] = 1]
        /\ pc' = [pc EXCEPT ![p] = "user"] /\ pc[p] = "wait_scan"
    BY <1>2 DEF WaitReap, FreeProc, Go
  <2>2. \A r \in Procs : pc'[r] \notin InWaitLock
    BY <1>0, <1>3, <2>1 DEF TypeOK, InWaitLock, Exiting
  <2>3. \A r \in Procs : ~Lost(r)
    BY <1>0, <1>3, <2>1 DEF ExitInv, InWaitLock, Exiting
  <2>4. \A r \in Procs : ~Lost(r)'
    BY <1>0, <1>4, <2>1, <2>3 DEF TypeOK, Lost, Sleeps, Kids
  <2> QED
    BY <2>2, <2>4 DEF ExitInv, Lost, InWaitLock, Exiting
<1> QED
  BY ONLY <1>5, <1>6, <1>7, <1>8, <1>9, <1>10 DEF PInv

(* kwait() returns -1 after a failed copyout().                            *)
LEMMA WaitFaultInv ==
  ASSUME PInv, NEW c \in CPUs, NEW p \in Procs, NEW q \in Procs,
         WaitFault(c, p, q)
  PROVE  PInv'
<1>0. /\ TypeOK /\ CpuInv /\ LockInv /\ FlowInv
      /\ ChildInv /\ ParentInv /\ PidInv /\ ExitInv
  BY DEF PInv
<1> USE SlotFacts, ProcAssumption DEF WaitFault, Go, table, cpus, TypeOK
<1>1. TypeOK' /\ PidInv'
  BY <1>0 DEF Labels, PidInv
<1>2. FlowInv' /\ ChildInv'
  BY <1>0 DEF FlowInv, Plain, InSwitch, ChildInv
<1>3. ParentInv'
  BY <1>0 DEF ParentInv, Gone, Exiting
<1>4. CpuInv' /\ LockInv'
  BY <1>0
     DEF CpuInv, LockInv, Switching, Runs, Resting, InSwitch, InWaitLock,
         Exiting
<1>5. ExitInv'
  BY <1>0 DEF ExitInv, Lost, Sleeps, Kids
<1> QED
  BY ONLY <1>1, <1>2, <1>3, <1>4, <1>5 DEF PInv

(* kwait() has seen all children: none is a zombie when it decides to      *)
(* sleep.                                                                  *)
LEMMA WaitScannedInv ==
  ASSUME PInv, NEW c \in CPUs, NEW p \in Procs,
         WaitScanned(c, p)
  PROVE  PInv'
<1>0. /\ TypeOK /\ CpuInv /\ LockInv /\ FlowInv
      /\ ChildInv /\ ParentInv /\ PidInv /\ ExitInv
  BY DEF PInv
<1> USE SlotFacts, ProcAssumption DEF WaitScanned, Go, table, cpus, TypeOK
<1>1. TypeOK' /\ PidInv'
  BY <1>0 DEF Labels, PidInv
<1>2. FlowInv' /\ ChildInv'
  BY <1>0 DEF FlowInv, Plain, InSwitch, ChildInv
<1>3. ParentInv'
  BY <1>0 DEF ParentInv, Gone, Exiting
<1>4. CpuInv' /\ LockInv'
  BY <1>0
     DEF CpuInv, LockInv, Switching, Runs, Resting, InSwitch, InWaitLock,
         Exiting
<1>5. ExitInv'
  <2>1. /\ UNCHANGED <<state, chan, parent>> /\ scan' = [scan EXCEPT ![p] = 1]
        /\ \E l \in {"user", "wait_sleep"} : pc' = [pc EXCEPT ![p] = l]
        /\ pc[p] = "wait_scan"
    BY DEF WaitScanned, Go, table
  <2>2. \A q \in Kids(p) : state[q] # "ZOMBIE"
    BY <1>0 DEF WaitScanned, Unseen, Kids, ExitInv, TypeOK
  <2> QED
    BY ONLY p \in Procs, <1>0, <2>1, <2>2
       DEF TypeOK, ExitInv, Lost, Sleeps, Kids
<1> QED
  BY ONLY <1>1, <1>2, <1>3, <1>4, <1>5 DEF PInv

(* sleep() in kwait() releases wait_lock only with p->lock held: the       *)
(* process sleeps with no zombie child.                                    *)
LEMMA WaitSleepInv ==
  ASSUME PInv, NEW c \in CPUs, NEW p \in Procs,
         WaitSleep(c, p)
  PROVE  PInv'
<1>0. /\ TypeOK /\ CpuInv /\ LockInv /\ FlowInv
      /\ ChildInv /\ ParentInv /\ PidInv /\ ExitInv
  BY DEF PInv
<1> USE SlotFacts, ProcAssumption DEF WaitSleep, Go, cpus, Free, TypeOK
<1>1. state[p] = "RUNNING" /\ Runs(c, p)
  BY <1>0 DEF WaitSleep, Runs, CpuInv
<1>2. wlock = c /\ \A r \in Procs \ {p} : pc[r] \notin InWaitLock
  BY <1>1, Exclusive DEF WaitSleep, InWaitLock, Exiting
<1>3. TypeOK' /\ PidInv'
  BY <1>0, <1>1 DEF Labels, PidInv
<1>4. FlowInv' /\ ChildInv'
  BY <1>0, <1>1 DEF FlowInv, Plain, InSwitch, ChildInv
<1>5. ParentInv'
  BY <1>0, <1>1 DEF ParentInv, Gone, Exiting
<1>6. CpuInv' /\ LockInv'
  BY <1>0
     DEF CpuInv, LockInv, Switching, Runs, Resting, InSwitch, InWaitLock,
         Exiting
<1>7. ExitInv'
  <2>1. /\ pc[p] = "wait_sleep" /\ pc' = [pc EXCEPT ![p] = "sched"]
        /\ state' = [state EXCEPT ![p] = "SLEEPING"] /\ chan' = [chan EXCEPT ![p] = p]
        /\ UNCHANGED <<parent, scan>>
    BY DEF WaitSleep, Go
  <2>2. \A r \in Procs : pc'[r] \notin InWaitLock
    BY <1>0, <1>2, <2>1 DEF TypeOK, InWaitLock, Exiting
  <2>3. \A r \in Procs : ~Lost(r)
    BY <1>0, <1>2, <2>1 DEF ExitInv, InWaitLock, Exiting
  <2>4. \A r \in Procs : ~Lost(r)'
    BY <1>0, <2>1, <2>3 DEF TypeOK, ExitInv, Lost, Sleeps, Kids
  <2> QED
    BY <2>2, <2>4 DEF ExitInv, InWaitLock, Exiting
<1> QED
  BY ONLY <1>3, <1>4, <1>5, <1>6, <1>7 DEF PInv

(* Steps that leave the table alone.                                       *)
LEMMA StutterInv ==
  ASSUME PInv, UNCHANGED vars
  PROVE  PInv'
<1>0. /\ TypeOK /\ CpuInv /\ LockInv /\ FlowInv
      /\ ChildInv /\ ParentInv /\ PidInv /\ ExitInv
  BY DEF PInv
<1> USE DEF vars, table, locks, cpus, locals
<1>1. TypeOK'
  BY <1>0 DEF TypeOK
<1>2. CpuInv' /\ LockInv'
  BY <1>0 DEF CpuInv, LockInv, Runs, Switching
<1>3. FlowInv' /\ ChildInv'
  BY <1>0 DEF FlowInv, ChildInv
<1>4. ParentInv' /\ PidInv'
  BY <1>0 DEF ParentInv, PidInv
<1>5. ExitInv'
  BY <1>0 DEF ExitInv, Lost, Sleeps, Kids
<1> QED
  BY <1>1, <1>2, <1>3, <1>4, <1>5 DEF PInv

(* PInv holds in every reachable state, whatever the number of CPUs and    *)
(* slots.                                                                  *)
THEOREM Invariance == Spec => []PInv
<1>1. PInv /\ [Next]_vars => PInv'
  <2> SUFFICES ASSUME PInv, Next PROVE PInv'
    BY StutterInv
  <2>1. PICK c \in CPUs :
          \/ SchedulerResumes(c)
          \/ \E p \in Procs :
               \/ Schedule(c, p) \/ Sched(c, p) \/ Resume(c, p) \/ Yield(c, p)
               \/ ForkParent(c, p) \/ ForkReady(c, p)
               \/ Exit(c, p) \/ Reparent(c, p) \/ Wakeup(c, p) \/ Zombie(c, p)
               \/ WaitCall(c, p) \/ WaitLock(c, p) \/ WaitScanned(c, p)
               \/ WaitSleep(c, p)
               \/ \E q \in Procs :
                    \/ WaitSkip(c, p, q) \/ WaitReap(c, p, q) \/ WaitFault(c, p, q)
                    \/ Fork(c, p, q) \/ ForkFails(c, p, q)
                    \/ \E n \in KillPids : Kill(c, p, n, q)
    BY DEF Next
  <2>2. CASE SchedulerResumes(c)
    BY <2>2, ResumesInv
  <2>3. ASSUME NEW p \in Procs,
               Schedule(c, p) \/ Sched(c, p) \/ Resume(c, p) \/ Yield(c, p)
        PROVE  PInv'
    BY <2>3, ScheduleInv, SchedInv, ResumeInv, YieldInv
  <2>4. ASSUME NEW p \in Procs,
               ForkParent(c, p) \/ ForkReady(c, p)
        PROVE  PInv'
    BY <2>4, ForkParentInv, ForkReadyInv
  <2>5. ASSUME NEW p \in Procs,
               Exit(c, p) \/ Reparent(c, p) \/ Wakeup(c, p) \/ Zombie(c, p)
        PROVE  PInv'
    BY <2>5, ExitCallInv, ReparentInv, WakeupInv, ZombieInv
  <2>6. ASSUME NEW p \in Procs,
               \/ WaitCall(c, p) \/ WaitLock(c, p) \/ WaitScanned(c, p)
               \/ WaitSleep(c, p)
        PROVE  PInv'
    BY <2>6, WaitCallInv, WaitLockInv, WaitScannedInv, WaitSleepInv
  <2>7. ASSUME NEW p \in Procs, NEW q \in Procs,
               \/ WaitSkip(c, p, q) \/ WaitReap(c, p, q) \/ WaitFault(c, p, q)
               \/ Fork(c, p, q) \/ ForkFails(c, p, q)
               \/ \E n \in KillPids : Kill(c, p, n, q)
        PROVE  PInv'
    BY <2>7, WaitSkipInv, WaitReapInv, WaitFaultInv, ForkInv, ForkFailsInv, KillInv
  <2> QED
    BY <2>1, <2>2, <2>3, <2>4, <2>5, <2>6, <2>7
<1> QED
  BY <1>1, InitHolds, PTL DEF Spec

(* No two CPUs are on the kernel stack of one process, a process is        *)
(* RUNNING only on a CPU, and kwait() frees no process that has not left   *)
(* its stack: the hand-over of p->lock in scheduler() and sched() works    *)
(* for any number of CPUs.                                                 *)
THEOREM StacksAreSafe == Spec => []OneStack
<1>1. PInv => OneStack
  BY SlotFacts DEF PInv, TypeOK, CpuInv, OneStack, Resting
<1> QED
  BY <1>1, Invariance, PTL

(* The panics of sched() ("sched p->lock", "sched locks", "sched RUNNING") *)
(* and "zombie exit" in kexit() are not reached.                           *)
THEOREM SchedNeverPanics == Spec => []SchedChecks
<1>1. ASSUME PInv, NEW c \in CPUs, NEW p \in Procs, Runs(c, p), pc[p] = "sched"
      PROVE  Holds(c, {p}) /\ state[p] # "RUNNING"
  <2>0. CpuInv /\ LockInv
    BY <1>1 DEF PInv
  <2>1. plock[p] = c /\ state[p] # "RUNNING" /\ wlock # c
    <3>1. plock[p] = c
      BY <1>1, <2>0 DEF LockInv, Switching, Runs, InSwitch
    <3>2. state[p] # "RUNNING"
      BY <1>1, <2>0 DEF CpuInv, Runs, Resting
    <3>3. wlock # c
      BY <1>1, <2>0 DEF LockInv, InWaitLock, Exiting
    <3> QED
      BY <3>1, <3>2, <3>3
  <2>2. {q \in Procs : plock[q] = c} = {p}
    BY <1>1, <2>0, <2>1 DEF LockInv, Switching, Runs
  <2> QED
    BY <2>1, <2>2 DEF Holds
<1>2. PInv => SchedChecks
  BY <1>1 DEF SchedChecks, PInv, FlowInv
<1> QED
  BY <1>2, Invariance, PTL

(* No exit is missed: while wait_lock is free nobody sleeps in kwait()     *)
(* beside a zombie child, however kexit(), reparent(), kwait() and kkill() *)
(* interleave.                                                             *)
THEOREM ExitsAreSeen == Spec => []NoLostExit
<1>1. ASSUME PInv, wlock = NoCpu
      PROVE  \A p \in Procs : ~Lost(p)
  BY <1>1, NobodyInside DEF PInv, ExitInv, InWaitLock, Exiting
<1>2. PInv => NoLostExit
  BY <1>1 DEF NoLostExit, Lost, Sleeps
<1> QED
  BY <1>2, Invariance, PTL

(* Every process but init keeps a parent that can wait for it, and live    *)
(* processes have different pids.                                          *)
THEOREM ChildrenCanBeWaitedFor == Spec => []CanBeWaitedFor
<1>1. PInv => CanBeWaitedFor
  BY SlotFacts DEF PInv, ParentInv, PidInv, Gone, CanBeWaitedFor
<1> QED
  BY <1>1, Invariance, PTL
=============================================================================
