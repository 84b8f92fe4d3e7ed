-------------------------------- MODULE Proc --------------------------------
(***************************************************************************)
(* Processes, from kernel/proc.c: the scheduler of every CPU, sched(),     *)
(* yield(), sleep() and wakeup(), and the life of a process through        *)
(* kfork(), kexit(), kwait() and kkill().                                  *)
(*                                                                         *)
(* A process is a slot of proc[].  Its kernel thread runs on one CPU at a  *)
(* time and reaches the CPU's scheduler through swtch(), with p->lock held *)
(* across the switch: the thread that acquired the lock is not the one     *)
(* that releases it.  Every step below ends just before the next           *)
(* acquire(), so that all interleavings of the critical sections occur.    *)
(*                                                                         *)
(* The transaction in which kexit() drops the current directory, and the   *)
(* first call of forkret(), which mounts the file system, change nothing   *)
(* of this state.                                                          *)
(***************************************************************************)
EXTENDS Integers, FiniteSets

CONSTANTS
  NPROC,     \* size of proc[]
  CPUs,      \* processors
  NoCpu,     \* "lock not held"
  KillPids,  \* arguments that user programs give to kill()
  MaxPid     \* bound on nextpid

Procs == 1 .. NPROC
None == 0
initproc == 1

ASSUME ProcAssumption ==
  /\ NPROC \in Nat \ {0}
  /\ NoCpu \notin CPUs /\ IsFiniteSet(CPUs)
  /\ KillPids \subseteq Nat \ {1}     \* killing init is answered by a panic
  /\ MaxPid \in Nat

VARIABLES
  state,    \* p->state
  chan,     \* p->chan: a process, None when it waits for nothing
  killed,   \* p->killed
  pid,      \* p->pid
  parent,   \* p->parent
  plock,    \* the CPU that holds p->lock
  wlock,    \* the CPU that holds wait_lock
  nextpid,  \* next pid of allocpid()
  cproc,    \* c->proc
  thread,   \* what CPU c executes: its scheduler or the thread of c->proc
  pc,       \* where the thread of each process is
  ctx,      \* p->context: where swtch() resumes the thread
  cont,     \* where the thread continues when yield() returns
  child,    \* local np of kfork()
  scan      \* loop index of wakeup() and kwait()

table == <<state, chan, killed, pid, parent, nextpid>>
locks == <<plock, wlock>>
cpus == <<cproc, thread>>
locals == <<pc, ctx, cont, child, scan>>
vars == <<table, locks, cpus, locals>>

Runs(c, p) == cproc[c] = p /\ thread[c] = "proc"
Free(p) == plock[p] = NoCpu
Kids(p) == {q \in Procs : parent[q] = p}

(* The spinlocks that c holds are the locks of the processes in S; noff,   *)
(* the depth of push_off(), is their number.                               *)
Holds(c, S) == {p \in Procs : plock[p] = c} = S /\ wlock # c

Go(p, l) == pc' = [pc EXCEPT ![p] = l]

(* The user program of p is about to make a system call: usertrap() has    *)
(* found that it was not killed.                                           *)
UserCall(c, p) == Runs(c, p) /\ pc[p] = "user" /\ ~killed[p]

(* kerneltrap() or usertrap() calls yield() for a timer interrupt that     *)
(* comes where interrupts are on; usertrap() looks at p->killed first.     *)
TimerYields(c, p) == Runs(c, p) /\ Holds(c, {}) /\ (pc[p] = "user" => ~killed[p])

(* userinit() has made the first process.                                  *)
Init ==
  /\ state = [p \in Procs |-> IF p = initproc THEN "RUNNABLE" ELSE "UNUSED"]
  /\ chan = [p \in Procs |-> None]
  /\ killed = [p \in Procs |-> FALSE]
  /\ pid = [p \in Procs |-> IF p = initproc THEN 1 ELSE 0]
  /\ parent = [p \in Procs |-> None]
  /\ plock = [p \in Procs |-> NoCpu] /\ wlock = NoCpu
  /\ nextpid = 2
  /\ cproc = [c \in CPUs |-> None] /\ thread = [c \in CPUs |-> "scheduler"]
  /\ pc = [p \in Procs |-> "sched"]
  /\ ctx = [p \in Procs |-> "forkret"]
  /\ cont = [p \in Procs |-> "user"]
  /\ child = [p \in Procs |-> None]
  /\ scan = [p \in Procs |-> 1]

-----------------------------------------------------------------------------
(* The scheduler of a CPU and the hand-over of p->lock.                    *)

(* scheduler() finds a runnable process and switches to it.                *)
Schedule(c, p) ==
  /\ thread[c] = "scheduler" /\ cproc[c] = None
  /\ Free(p) /\ state[p] = "RUNNABLE"
  /\ plock' = [plock EXCEPT ![p] = c]
  /\ state' = [state EXCEPT ![p] = "RUNNING"]
  /\ cproc' = [cproc EXCEPT ![c] = p]
  /\ thread' = [thread EXCEPT ![c] = "proc"]
  /\ Go(p, ctx[p])
  /\ UNCHANGED <<chan, killed, pid, parent, nextpid, wlock, ctx, cont, child, scan>>

(* Mutant: the scheduler forgets to release the lock of the process.       *)
SchedulerKeepsLock(c) ==
  /\ thread[c] = "scheduler" /\ cproc[c] # None
  /\ cproc' = [cproc EXCEPT ![c] = None]
  /\ UNCHANGED <<table, locks, thread, locals>>

(* Back in scheduler() after swtch(): c->proc = 0 and release(&p->lock).   *)
SchedulerResumes(c) ==
  /\ thread[c] = "scheduler" /\ cproc[c] # None
  /\ plock' = [plock EXCEPT ![cproc[c]] = NoCpu]
  /\ cproc' = [cproc EXCEPT ![c] = None]
  /\ UNCHANGED <<table, wlock, thread, locals>>

(* sched(): the thread leaves the CPU, p->lock stays held.                 *)
Sched(c, p) ==
  /\ Runs(c, p) /\ pc[p] = "sched"
  /\ thread' = [thread EXCEPT ![c] = "scheduler"]
  /\ UNCHANGED <<table, locks, cproc, locals>>

(* The thread runs again, still with p->lock, which it now releases: in    *)
(* forkret(), at the end of yield(), or in sleep(), which goes on to       *)
(* reacquire the lock it was called with.                                  *)
Resume(c, p) ==
  /\ Runs(c, p) /\ pc[p] \in {"forkret", "yielded", "woken"}
  /\ plock' = [plock EXCEPT ![p] = NoCpu]
  /\ chan' = [chan EXCEPT ![p] = IF pc[p] = "woken" THEN None ELSE @]
  /\ Go(p, CASE pc[p] = "forkret" -> "user"
             [] pc[p] = "yielded" -> cont[p]
             [] pc[p] = "woken"   -> "wait")
  /\ cont' = [cont EXCEPT ![p] = "user"]
  /\ UNCHANGED <<state, killed, pid, parent, nextpid, wlock, cpus, ctx, child, scan>>

Yield(c, p) ==
  /\ TimerYields(c, p) /\ Free(p)
  /\ plock' = [plock EXCEPT ![p] = c]
  /\ state' = [state EXCEPT ![p] = "RUNNABLE"]
  /\ cont' = [cont EXCEPT ![p] = pc[p]]
  /\ ctx' = [ctx EXCEPT ![p] = "yielded"]
  /\ Go(p, "sched")
  /\ UNCHANGED <<chan, killed, pid, parent, nextpid, wlock, cpus, child, scan>>

-----------------------------------------------------------------------------
(* fork                                                                    *)

(* allocpid(); MaxPid is far below the limit of int.                       *)
AllocPid == nextpid < MaxPid /\ nextpid' = nextpid + 1

(* allocproc(): a free slot under its lock, and the next pid.              *)
AllocProc(np) == Free(np) /\ state[np] = "UNUSED" /\ AllocPid

(* freeproc()                                                              *)
FreeProc(q) ==
  /\ pid' = [pid EXCEPT ![q] = 0]
  /\ parent' = [parent EXCEPT ![q] = None]
  /\ chan' = [chan EXCEPT ![q] = None]
  /\ killed' = [killed EXCEPT ![q] = FALSE]
  /\ state' = [state EXCEPT ![q] = "UNUSED"]

(* allocproc() and the copy of the parent, under np->lock: p->killed of a  *)
(* fresh slot is what it was.                                              *)
Fork(c, p, np) ==
  /\ UserCall(c, p)
  /\ AllocProc(np)
  /\ state' = [state EXCEPT ![np] = "USED"]
  /\ pid' = [pid EXCEPT ![np] = nextpid]
  /\ ctx' = [ctx EXCEPT ![np] = "forkret"]
  /\ child' = [child EXCEPT ![p] = np]
  /\ Go(p, "fork_parent")
  /\ UNCHANGED <<chan, killed, parent, locks, cpus, cont, scan>>

(* No memory: freeproc() gives the slot back, the pid is spent.            *)
ForkFails(c, p, np) ==
  /\ UserCall(c, p)
  /\ AllocProc(np)
  /\ FreeProc(np)
  /\ UNCHANGED <<locks, cpus, locals>>

ForkParent(c, p) ==
  /\ Runs(c, p) /\ pc[p] = "fork_parent" /\ wlock = NoCpu
  /\ parent' = [parent EXCEPT ![child[p]] = p]
  /\ Go(p, "fork_ready")
  /\ UNCHANGED <<state, chan, killed, pid, nextpid, locks, cpus, ctx, cont, child, scan>>

ForkReady(c, p) ==
  /\ Runs(c, p) /\ pc[p] = "fork_ready" /\ Free(child[p])
  /\ state' = [state EXCEPT ![child[p]] = "RUNNABLE"]
  /\ child' = [child EXCEPT ![p] = None]
  /\ Go(p, "user")
  /\ UNCHANGED <<chan, killed, pid, parent, nextpid, locks, cpus, ctx, cont, scan>>

-----------------------------------------------------------------------------
(* exit                                                                    *)

(* Mutant: usertrap() does not look at p->killed.                          *)
ExitByCall(c, p) ==
  /\ Runs(c, p) /\ pc[p] = "user" /\ p # initproc /\ ~killed[p]
  /\ Go(p, "exit")
  /\ UNCHANGED <<table, locks, cpus, ctx, cont, child, scan>>

(* exit(), or a trap that finds the process killed.                        *)
Exit(c, p) ==
  /\ Runs(c, p) /\ pc[p] = "user" /\ p # initproc
  /\ Go(p, "exit")
  /\ UNCHANGED <<table, locks, cpus, ctx, cont, child, scan>>

(* Mutant: reparent() passes over zombies.                                 *)
ReparentLive(c, p) ==
  /\ Runs(c, p) /\ pc[p] = "exit" /\ wlock = NoCpu
  /\ wlock' = c
  /\ parent' = [q \in Procs |-> IF parent[q] = p /\ state[q] # "ZOMBIE"
                                THEN initproc ELSE parent[q]]
  /\ Go(p, IF Kids(p) = {} THEN "wake_parent" ELSE "wake_init")
  /\ UNCHANGED <<state, chan, killed, pid, nextpid, plock, cpus, ctx, cont, child, scan>>

(* acquire(&wait_lock) and reparent(), up to its wakeup(initproc).         *)
Reparent(c, p) ==
  /\ Runs(c, p) /\ pc[p] = "exit" /\ wlock = NoCpu
  /\ wlock' = c
  /\ parent' = [q \in Procs |-> IF parent[q] = p THEN initproc ELSE parent[q]]
  /\ Go(p, IF Kids(p) = {} THEN "wake_parent" ELSE "wake_init")
  /\ UNCHANGED <<state, chan, killed, pid, nextpid, plock, cpus, ctx, cont, child, scan>>

(* Mutant: kexit() wakes its own channel, not that of its parent.          *)
ChannelOwn(p) == IF pc[p] = "wake_init" THEN initproc ELSE p

(* The channel of wakeup(initproc) or wakeup(p->parent).                   *)
Channel(p) == IF pc[p] = "wake_init" THEN initproc ELSE parent[p]

(* One iteration of wakeup().                                              *)
Wakeup(c, p) ==
  LET q == scan[p]
      woken == q # p /\ state[q] = "SLEEPING" /\ chan[q] = Channel(p) IN
  /\ Runs(c, p) /\ pc[p] \in {"wake_init", "wake_parent"}
  /\ q = p \/ Free(q)
  /\ state' = IF woken THEN [state EXCEPT ![q] = "RUNNABLE"] ELSE state
  /\ scan' = [scan EXCEPT ![p] = IF q = NPROC THEN 1 ELSE q + 1]
  /\ IF q < NPROC THEN pc' = pc
     ELSE Go(p, IF pc[p] = "wake_init" THEN "wake_parent" ELSE "zombie")
  /\ UNCHANGED <<chan, killed, pid, parent, nextpid, locks, cpus, ctx, cont, child>>

(* Mutant: kexit() becomes a zombie without p->lock.                       *)
ZombieUnlocked(c, p) ==
  /\ Runs(c, p) /\ pc[p] = "zombie"
  /\ wlock' = NoCpu
  /\ state' = [state EXCEPT ![p] = "ZOMBIE"]
  /\ ctx' = [ctx EXCEPT ![p] = "zombie_exit"]
  /\ Go(p, "sched")
  /\ UNCHANGED <<chan, killed, pid, parent, nextpid, plock, cpus, cont, child, scan>>

(* acquire(&p->lock), ZOMBIE, release(&wait_lock).                         *)
Zombie(c, p) ==
  /\ Runs(c, p) /\ pc[p] = "zombie" /\ Free(p)
  /\ plock' = [plock EXCEPT ![p] = c]
  /\ wlock' = NoCpu
  /\ state' = [state EXCEPT ![p] = "ZOMBIE"]
  /\ ctx' = [ctx EXCEPT ![p] = "zombie_exit"]
  /\ Go(p, "sched")
  /\ UNCHANGED <<chan, killed, pid, parent, nextpid, cpus, cont, child, scan>>

-----------------------------------------------------------------------------
(* wait                                                                    *)

WaitCall(c, p) ==
  /\ UserCall(c, p)
  /\ Go(p, "wait")
  /\ UNCHANGED <<table, locks, cpus, ctx, cont, child, scan>>

WaitLock(c, p) ==
  /\ Runs(c, p) /\ pc[p] = "wait" /\ wlock = NoCpu
  /\ wlock' = c
  /\ Go(p, "wait_scan")
  /\ UNCHANGED <<table, plock, cpus, ctx, cont, child, scan>>

(* The children of p that the scan of proc[] has not reached.              *)
Unseen(p) == {q \in Kids(p) : scan[p] <= q}

(* q is the child that the scan comes to next.                             *)
NextChild(p, q) == q \in Unseen(p) /\ \A r \in Unseen(p) : q <= r

(* The next child is not a zombie.                                         *)
WaitSkip(c, p, q) ==
  /\ Runs(c, p) /\ pc[p] = "wait_scan" /\ NextChild(p, q)
  /\ Free(q) /\ state[q] # "ZOMBIE"
  /\ scan' = [scan EXCEPT ![p] = q + 1]
  /\ UNCHANGED <<table, locks, cpus, pc, ctx, cont, child>>

(* The next child is a zombie: freeproc() it and return.                   *)
WaitReap(c, p, q) ==
  /\ Runs(c, p) /\ pc[p] = "wait_scan" /\ NextChild(p, q)
  /\ Free(q) /\ state[q] = "ZOMBIE"
  /\ FreeProc(q)
  /\ wlock' = NoCpu
  /\ scan' = [scan EXCEPT ![p] = 1]
  /\ Go(p, "user")
  /\ UNCHANGED <<nextpid, plock, cpus, ctx, cont, child>>

(* copyout() of the status fails: the child stays a zombie.  init waits    *)
(* with a null address and does not come here.                             *)
WaitFault(c, p, q) ==
  /\ Runs(c, p) /\ pc[p] = "wait_scan" /\ NextChild(p, q) /\ p # initproc
  /\ Free(q) /\ state[q] = "ZOMBIE"
  /\ wlock' = NoCpu
  /\ scan' = [scan EXCEPT ![p] = 1]
  /\ Go(p, "user")
  /\ UNCHANGED <<table, plock, cpus, ctx, cont, child>>

(* Mutant: kwait() drops wait_lock before it goes to sleep.                *)
WaitScannedUnlocks(c, p) ==
  /\ Runs(c, p) /\ pc[p] = "wait_scan" /\ Unseen(p) = {}
  /\ wlock' = NoCpu
  /\ Go(p, IF Kids(p) = {} \/ killed[p] THEN "user" ELSE "wait_sleep")
  /\ scan' = [scan EXCEPT ![p] = 1]
  /\ UNCHANGED <<table, plock, cpus, ctx, cont, child>>

(* The scan is over: return without a child or when killed, else sleep().  *)
WaitScanned(c, p) ==
  /\ Runs(c, p) /\ pc[p] = "wait_scan" /\ Unseen(p) = {}
  /\ IF Kids(p) = {} THEN wlock' = NoCpu /\ Go(p, "user")
     ELSE /\ Free(p)
          /\ wlock' = IF killed[p] THEN NoCpu ELSE wlock
          /\ Go(p, IF killed[p] THEN "user" ELSE "wait_sleep")
  /\ scan' = [scan EXCEPT ![p] = 1]
  /\ UNCHANGED <<table, plock, cpus, ctx, cont, child>>

(* Mutant: sleep() keeps the lock it was called with.                      *)
WaitSleepLocked(c, p) ==
  /\ Runs(c, p) /\ pc[p] = "wait_sleep" /\ Free(p)
  /\ plock' = [plock EXCEPT ![p] = c]
  /\ chan' = [chan EXCEPT ![p] = p]
  /\ state' = [state EXCEPT ![p] = "SLEEPING"]
  /\ ctx' = [ctx EXCEPT ![p] = "woken"]
  /\ Go(p, "sched")
  /\ UNCHANGED <<killed, pid, parent, nextpid, wlock, cpus, cont, child, scan>>

(* sleep(p, &wait_lock)                                                    *)
WaitSleep(c, p) ==
  /\ Runs(c, p) /\ pc[p] = "wait_sleep" /\ Free(p)
  /\ plock' = [plock EXCEPT ![p] = c]
  /\ wlock' = NoCpu
  /\ chan' = [chan EXCEPT ![p] = p]
  /\ state' = [state EXCEPT ![p] = "SLEEPING"]
  /\ ctx' = [ctx EXCEPT ![p] = "woken"]
  /\ Go(p, "sched")
  /\ UNCHANGED <<killed, pid, parent, nextpid, cpus, cont, child, scan>>

-----------------------------------------------------------------------------
(* kill(n), which finds a slot with that pid or none.                      *)
Kill(c, p, n, q) ==
  /\ UserCall(c, p)
  /\ Free(q) /\ pid[q] = n
  /\ killed' = [killed EXCEPT ![q] = TRUE]
  /\ state' = [state EXCEPT ![q] = IF @ = "SLEEPING" THEN "RUNNABLE" ELSE @]
  /\ UNCHANGED <<chan, pid, parent, nextpid, locks, cpus, locals>>

Next ==
  \E c \in CPUs :
    \/ SchedulerResumes(c)
    \/ \E p \in Procs :
         \/ Schedule(c, p) \/ Sched(c, p) \/ Resume(c, p) \/ Yield(c, p)
         \/ ForkParent(c, p) \/ ForkReady(c, p)
         \/ Exit(c, p) \/ Reparent(c, p) \/ Wakeup(c, p) \/ Zombie(c, p)
         \/ WaitCall(c, p) \/ WaitLock(c, p) \/ WaitScanned(c, p) \/ WaitSleep(c, p)
         \/ \E q \in Procs : \/ WaitSkip(c, p, q) \/ WaitReap(c, p, q) \/ WaitFault(c, p, q)
                             \/ Fork(c, p, q) \/ ForkFails(c, p, q)
                             \/ \E n \in KillPids : Kill(c, p, n, q)

(* The steps of the context switch, and those a thread takes in the kernel *)
(* by itself: without a decision of its user program or an interrupt.      *)
SwitchStep(c) ==
  SchedulerResumes(c) \/ \E p \in Procs : Sched(c, p) \/ Resume(c, p)

ThreadStep(c, p) ==
  \/ ForkParent(c, p) \/ ForkReady(c, p)
  \/ (killed[p] /\ Exit(c, p)) \/ Reparent(c, p) \/ Wakeup(c, p) \/ Zombie(c, p)
  \/ WaitLock(c, p) \/ WaitScanned(c, p) \/ WaitSleep(c, p)
  \/ \E q \in Procs : WaitSkip(c, p, q) \/ WaitReap(c, p, q)

(* CPUs do not stop; scheduler() goes round proc[]; a CPU whose threads    *)
(* keep running with interrupts on is interrupted by its timer.  Strong    *)
(* fairness for threads: a time slice is long enough for a step, and       *)
(* acquire() gets a lock that is free again and again.  Of the user        *)
(* programs only init is trusted to go on: it keeps calling wait().        *)
Fairness ==
  /\ \A c \in CPUs : WF_vars(SwitchStep(c)) /\ SF_vars(\E p \in Procs : Yield(c, p))
  /\ \A p \in Procs : /\ SF_vars(\E c \in CPUs : Schedule(c, p))
                      /\ SF_vars(\E c \in CPUs : ThreadStep(c, p))
  /\ SF_vars(\E c \in CPUs : WaitCall(c, initproc))

Spec == Init /\ [][Next]_vars
FairSpec == Spec /\ Fairness
-----------------------------------------------------------------------------
(* Properties.                                                             *)

Labels == {"sched", "forkret", "yielded", "woken", "zombie_exit", "user",
           "fork_parent", "fork_ready", "exit", "wake_init", "wake_parent",
           "zombie", "wait", "wait_scan", "wait_sleep"}

(* Types.  The scan of kwait() ends at most one past the end of proc[].    *)
TypeOK ==
  /\ state \in [Procs -> {"UNUSED", "USED", "SLEEPING", "RUNNABLE", "RUNNING",
                          "ZOMBIE"}]
  /\ chan \in [Procs -> Procs \cup {None}]
  /\ killed \in [Procs -> BOOLEAN] /\ pid \in [Procs -> Nat]
  /\ parent \in [Procs -> Procs \cup {None}]
  /\ plock \in [Procs -> CPUs \cup {NoCpu}] /\ wlock \in CPUs \cup {NoCpu}
  /\ nextpid \in Nat
  /\ cproc \in [CPUs -> Procs \cup {None}]
  /\ thread \in [CPUs -> {"scheduler", "proc"}]
  /\ pc \in [Procs -> Labels] /\ ctx \in [Procs -> Labels]
  /\ cont \in [Procs -> Labels]
  /\ child \in [Procs -> Procs \cup {None}] /\ scan \in [Procs -> 1 .. NPROC + 1]

(* A kernel stack has one user.  No two CPUs are on the stack of the same  *)
(* process, and a process that no CPU has got is never marked RUNNING: a   *)
(* thread that is still on its way out of sched() cannot be picked by the  *)
(* scheduler of another CPU, although its state is already RUNNABLE, nor   *)
(* can kwait() free a child that has not yet left its stack.               *)
OneStack ==
  /\ \A c, d \in CPUs : (cproc[c] # None /\ cproc[c] = cproc[d]) => c = d
  /\ \A p \in Procs : state[p] = "RUNNING" => \E c \in CPUs : Runs(c, p)
  /\ \A c \in CPUs : cproc[c] # None => state[cproc[c]] \notin {"UNUSED", "USED"}

(* The panics of sched() are not reached: the thread holds its own lock    *)
(* and no other, and has given up RUNNING; nor is "zombie exit".           *)
SchedChecks ==
  \A c \in CPUs : \A p \in Procs :
    Runs(c, p) => /\ pc[p] = "sched" => Holds(c, {p}) /\ state[p] # "RUNNING"
                  /\ pc[p] # "zombie_exit"

(* No exit is missed.  Unless some thread is inside the critical section   *)
(* of wait_lock, a process asleep in kwait() has no zombie child.          *)
NoLostExit ==
  wlock = NoCpu =>
    ~ \E p \in Procs : /\ state[p] = "SLEEPING" /\ chan[p] = p
                       /\ \E q \in Kids(p) : state[q] = "ZOMBIE"

(* Every process but init has a parent that can still wait for it: when a  *)
(* process becomes a zombie its children have gone to init, also those it  *)
(* was given meanwhile; a process kfork() is still building has none yet.  *)
(* The pid that kwait() returns for it names no other live process,        *)
(* although slots are used again.  The variables have their types.         *)
CanBeWaitedFor ==
  /\ TypeOK
  /\ \A q \in Procs \ {initproc} :
       state[q] \notin {"UNUSED", "USED"} =>
         /\ parent[q] # None
         /\ state[parent[q]] \notin {"UNUSED", "USED", "ZOMBIE"}
  /\ \A p, q \in Procs : (p # q /\ pid[p] = pid[q]) => pid[p] = 0

(* A thread that wants to run is run.                                      *)
RunnableRuns ==
  \A p \in Procs : (state[p] = "RUNNABLE") ~> (state[p] = "RUNNING")

(* A zombie whose parent is init, its own or by reparent(), is reaped.     *)
OrphansReaped ==
  \A q \in Procs :
    (state[q] = "ZOMBIE" /\ parent[q] = initproc) ~> (state[q] = "UNUSED")

(* A process that is killed does not live on, unless it sleeps in kwait(). *)
KilledExits ==
  \A p \in Procs :
    (killed[p] /\ state[p] # "UNUSED") ~>
      (state[p] \in {"ZOMBIE", "UNUSED"} \/ state[p] = "SLEEPING")
=============================================================================
