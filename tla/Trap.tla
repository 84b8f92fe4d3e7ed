-------------------------------- MODULE Trap --------------------------------
(***************************************************************************)
(* Traps, interrupts and time: kernel/trap.c, the assembly around it       *)
(* (trampoline.S, kernelvec.S, swtch.S), push_off() and pop_off() of       *)
(* kernel/spinlock.c, the context switch of kernel/proc.c, the boot of     *)
(* kernel/main.c, and sys_sleep().                                         *)
(*                                                                         *)
(* What runs on a CPU is a flow of control: a thread (the user program and *)
(* the kernel side of a process) or the scheduler of that CPU, which goes  *)
(* by the number of the CPU.  An interrupt may come between any two steps  *)
(* that run with interrupts enabled, and a timer interrupt may move a      *)
(* thread to another CPU in the middle of its kernel code.                 *)
(*                                                                         *)
(* Two locks stand for all: tickslock, which the clock interrupt takes,    *)
(* and one that a device interrupt and system calls take (vdisk_lock,      *)
(* tx_lock, cons.lock).  The locks of processes are held within a step;    *)
(* Proc has them in detail.                                                *)
(*                                                                         *)
(* A register or variable whose value is not used again (sepc and sstatus  *)
(* after sret, the hart number in a trapframe the kernel has read, what    *)
(* sched() has put back) is cleared when it is used, so that a second use  *)
(* would show.                                                             *)
(***************************************************************************)
EXTENDS Integers

CONSTANTS
  NCPU,      \* CPUs
  Threads,   \* kernel threads, one for each process
  TickMod,   \* ticks is a uint: 2^32 in the code
  Naps,      \* arguments of sleep()
  None       \* "nobody"

CPUs == 0 .. NCPU - 1
Flows == CPUs \cup Threads

ASSUME TrapAssumption ==
  /\ NCPU \in Nat \ {0} /\ TickMod \in Nat \ {0}
  /\ \A n \in Naps : n \in Nat /\ n < TickMod
  /\ Threads \cap Nat = {} /\ None \notin Threads \cup Nat

VARIABLES
  cpu,      \* registers of each CPU, and its struct cpu
  loc,      \* where each flow is
  frame,    \* what kerneltrap() saved on the stack of each flow
  hartid,   \* trapframe->kernel_hartid of each thread
  intena,   \* the local variable of sched() in each thread
  st,       \* p->state
  holder,   \* the CPU that holds each lock
  ticks,    \* ticks
  nap,      \* local variables of sys_sleep(), and how many ticks it has seen
  irq,      \* a device interrupt is pending at the PLIC
  started   \* main.c: CPU 0 has set up the kernel

vars == <<cpu, loc, frame, hartid, intena, st, holder, ticks, nap, irq, started>>

Cur(c) == cpu[c].cur
At(c, l) == loc[Cur(c)] = l
Go(c, l) == loc' = [loc EXCEPT ![Cur(c)] = l]

NoFrame == [at |-> "none", sepc |-> <<None, "none">>, spie |-> FALSE, spp |-> "U"]
Awake == [ticks0 |-> None, n |-> 0, seen |-> 0]

-----------------------------------------------------------------------------
(* Boot: start() leaves the hart number in tp and interrupts off.          *)

Init ==
  /\ cpu = [c \in CPUs |-> [cur |-> c, sie |-> FALSE, noff |-> 0, intena |-> FALSE,
              stvec |-> "unset", sepc |-> <<None, "none">>, spie |-> FALSE, spp |-> "U", tp |-> c]]
  /\ loc = [f \in Flows |-> IF f \in CPUs THEN "boot" ELSE "forkret"]
  /\ frame = [f \in Flows |-> NoFrame]
  /\ hartid = [t \in Threads |-> None] /\ intena = [t \in Threads |-> FALSE]
  /\ st = [t \in Threads |-> "UNUSED"]
  /\ holder = [l \in {"ticks", "dev"} |-> None]
  /\ ticks = 0 /\ nap = [t \in Threads |-> Awake]
  /\ irq = FALSE /\ started = FALSE

(* main(): the other CPUs wait for CPU 0, which makes the first process    *)
(* after it has let them go.                                               *)
Boot(c) ==
  /\ At(c, "boot")
  /\ c = 0 \/ started
  /\ started' = TRUE
  /\ cpu' = [cpu EXCEPT ![c].stvec = "kernelvec"]
  /\ Go(c, IF c = 0 THEN "userinit" ELSE "loop")
  /\ UNCHANGED <<frame, hartid, intena, st, holder, ticks, nap, irq>>

Userinit(c) ==
  /\ At(c, "userinit")
  /\ \E t \in Threads : st' = [st EXCEPT ![t] = "RUNNABLE"]
  /\ Go(c, "loop")
  /\ UNCHANGED <<cpu, frame, hartid, intena, holder, ticks, nap, irq, started>>

-----------------------------------------------------------------------------
(* spinlock.c, on the state k of a CPU.                                    *)

PushOff(k) == [k EXCEPT !.sie = FALSE, !.noff = @ + 1,
                        !.intena = IF k.noff = 0 THEN k.sie ELSE @]

PopOff(k) == [k EXCEPT !.noff = @ - 1, !.sie = (k.noff = 1 /\ k.intena),
                       !.intena = @ /\ k.noff > 1]

(* The places that wait in acquire(), the lock, and the place after it.    *)
Spins == [tick_spin |-> <<"ticks", "tick">>, sleep_spin |-> <<"ticks", "check">>,
          dev_spin |-> <<"dev", "dev">>, intr_spin |-> <<"dev", "intr">>]

Acquire(c, l) == cpu' = [cpu EXCEPT ![c] = PushOff(@)] /\ Go(c, l)

(* The swap in acquire() succeeds.                                         *)
Acquired(c) ==
  \E s \in DOMAIN Spins :
    /\ At(c, s)
    /\ holder[Spins[s][1]] = None
    /\ holder' = [holder EXCEPT ![Spins[s][1]] = c]
    /\ Go(c, Spins[s][2])
    /\ nap' = IF s = "sleep_spin" /\ nap[Cur(c)].ticks0 = None
              THEN [nap EXCEPT ![Cur(c)].ticks0 = ticks] ELSE nap
    /\ UNCHANGED <<cpu, frame, hartid, intena, st, ticks, irq, started>>

Release(c, lock, l) ==
  /\ holder' = [holder EXCEPT ![lock] = None]
  /\ cpu' = [cpu EXCEPT ![c] = PopOff(@)]
  /\ Go(c, l)

-----------------------------------------------------------------------------
(* proc.c: the context switch.  sched() keeps intena for the thread.       *)

Swtch(k, f) == [k EXCEPT !.cur = f]

(* A scheduler that swtch() has returned to releases p->lock.              *)
SwitchOut(c, k, state, l) ==
  LET t == Cur(c) IN
  /\ st' = [st EXCEPT ![t] = state]
  /\ intena' = [intena EXCEPT ![t] = k.intena]
  /\ cpu' = [cpu EXCEPT ![c] = Swtch(PopOff(k), c)]
  /\ loc' = [loc EXCEPT ![t] = l]

(* The scheduler takes p->lock and switches to t, which returns from       *)
(* sched(), or starts in forkret(), and releases it.                       *)
RestoredNot(k, t) == k  \* Mutant: sched() does not put intena back
Restored(k, t) == IF loc[t] = "forkret" THEN k ELSE [k EXCEPT !.intena = intena[t]]

SwitchIn(c, t) ==
  /\ At(c, "scan") /\ st[t] = "RUNNABLE"
  /\ st' = [st EXCEPT ![t] = "RUNNING"]
  /\ cpu' = [cpu EXCEPT ![c] = Swtch(PopOff(Restored(PushOff(@), t)), t)]
  /\ intena' = [intena EXCEPT ![t] = FALSE]
  /\ UNCHANGED <<loc, frame, hartid, holder, ticks, nap, irq, started>>

Scheduler(c) ==
  /\ \/ /\ At(c, "loop") /\ Go(c, "scan")
        /\ cpu' = [cpu EXCEPT ![c].sie = TRUE]
     \/ At(c, "scan") /\ Go(c, "loop") /\ UNCHANGED cpu
  /\ UNCHANGED <<frame, hartid, intena, st, holder, ticks, nap, irq, started>>

-----------------------------------------------------------------------------
(* Traps.  The hardware turns interrupts off, keeps what they were, and    *)
(* jumps to stvec.                                                         *)

Causes == {"clock", "claim"}

Hardware(k, f, spp) == [k EXCEPT !.sie = FALSE, !.spie = k.sie, !.spp = spp,
                                 !.sepc = <<f, loc[f]>>]

(* sret leaves nothing in sepc and sstatus that may be used again.         *)
Spent(k) == [k EXCEPT !.sepc = <<None, "none">>, !.spie = FALSE, !.spp = "U"]
Returned(k) == Spent([k EXCEPT !.sie = k.spie])

(* A sleeper that has been woken runs before ticks comes round once more.  *)
ClockMayTick == \A t \in Threads : nap[t].seen < TickMod - 1

(* uservec takes the hart number from the trapframe.                       *)
Uservec(k, t) == [k EXCEPT !.tp = hartid[t]]

(* usertrap() turns interrupts on for a system call.                       *)
Usertrap(k, why) == [k EXCEPT !.stvec = "kernelvec", !.sie = (why = "sys")]

(* From user mode to usertrap().                                           *)
UserTrap(c, why) ==
  /\ At(c, "user")
  /\ why = "clock" => ClockMayTick
  /\ why = "claim" => irq
  /\ cpu' = [cpu EXCEPT ![c] = Usertrap(Uservec(Spent(Hardware(@, Cur(c), "U")), Cur(c)), why)]
  /\ hartid' = [hartid EXCEPT ![Cur(c)] = None]
  /\ Go(c, why)
  /\ UNCHANGED <<frame, intena, st, holder, ticks, nap, irq, started>>

(* From the kernel, through kernelvec, to kerneltrap().                    *)
KernelTrap(c, why) ==
  LET f == Cur(c)
      k == Hardware(cpu[c], f, "S")
  IN /\ cpu[c].sie /\ ~At(c, "user")
     /\ why = "clock" => ClockMayTick
     /\ why = "claim" => irq
     /\ cpu' = [cpu EXCEPT ![c] = k]
     /\ frame' = [frame EXCEPT ![f] = [at |-> loc[f], sepc |-> k.sepc, spie |-> cpu[c].sie,
                                       spp |-> k.spp]]
     /\ Go(c, why)
     /\ UNCHANGED <<hartid, intena, st, holder, ticks, nap, irq, started>>

(* Where usertrap() or kerneltrap() goes on after devintr().               *)
Handled(c) == IF frame[Cur(c)] = NoFrame THEN "uret" ELSE "restore"

(* clockintr(): CPU 0 keeps the time.                                      *)
Clock(c) ==
  /\ At(c, "clock")
  /\ IF c = 0 THEN Acquire(c, "tick_spin") ELSE Go(c, "yield") /\ UNCHANGED cpu
  /\ UNCHANGED <<frame, hartid, intena, st, holder, ticks, nap, irq, started>>

Wakeup == [t \in Threads |-> IF st[t] = "SLEEPING" THEN "RUNNABLE" ELSE st[t]]

Tick(c) ==
  /\ At(c, "tick")
  /\ ticks' = (ticks + 1) % TickMod
  /\ nap' = [t \in Threads |-> IF nap[t].ticks0 = None THEN nap[t]
                               ELSE [nap[t] EXCEPT !.seen = @ + 1]]
  /\ st' = Wakeup
  /\ Release(c, "ticks", "yield")
  /\ UNCHANGED <<frame, hartid, intena, irq, started>>

(* After a timer interrupt a thread yields; the scheduler goes on.         *)
Yield(c) ==
  /\ At(c, "yield")
  /\ IF Cur(c) \in Threads
     THEN SwitchOut(c, PushOff(cpu[c]), "RUNNABLE", Handled(c))
     ELSE Go(c, "restore") /\ UNCHANGED <<cpu, st, intena>>
  /\ UNCHANGED <<frame, hartid, holder, ticks, nap, irq, started>>

(* plic_claim(): another CPU may have been quicker.                        *)
Claim(c) ==
  /\ At(c, "claim")
  /\ irq' = FALSE
  /\ IF irq THEN Acquire(c, "intr_spin") ELSE Go(c, Handled(c)) /\ UNCHANGED cpu
  /\ UNCHANGED <<frame, hartid, intena, st, holder, ticks, nap, started>>

Intr(c) ==
  /\ At(c, "intr")
  /\ Release(c, "dev", Handled(c))
  /\ UNCHANGED <<frame, hartid, intena, st, ticks, nap, irq, started>>

(* kerneltrap() restores sepc and sstatus, which other traps on this CPU   *)
(* may have used meanwhile, and kernelvec returns.                         *)
Reloaded(k, fr) == [k EXCEPT !.sepc = fr.sepc, !.spie = fr.spie, !.spp = fr.spp]

Restore(c) ==
  /\ At(c, "restore")
  /\ cpu' = [cpu EXCEPT ![c] = Reloaded(@, frame[Cur(c)])]
  /\ Go(c, "sret")
  /\ UNCHANGED <<frame, hartid, intena, st, holder, ticks, nap, irq, started>>

Sret(c) ==
  /\ At(c, "sret")
  /\ cpu' = [cpu EXCEPT ![c] = Returned(@)]
  /\ Go(c, cpu[c].sepc[2])
  /\ frame' = [frame EXCEPT ![Cur(c)] = NoFrame]
  /\ UNCHANGED <<hartid, intena, st, holder, ticks, nap, irq, started>>

(* usertrapret(): interrupts off, then the registers for the next trap.    *)
IntrOffNot(c) ==  \* Mutant: usertrapret() leaves interrupts on
  /\ (At(c, "uret") \/ At(c, "forkret"))
  /\ Go(c, "vector")
  /\ UNCHANGED <<cpu, frame, hartid, intena, st, holder, ticks, nap, irq, started>>

IntrOff(c) ==
  /\ (At(c, "uret") \/ At(c, "forkret"))
  /\ cpu' = [cpu EXCEPT ![c].sie = FALSE]
  /\ Go(c, "vector")
  /\ UNCHANGED <<frame, hartid, intena, st, holder, ticks, nap, irq, started>>

ToUser(k) == [k EXCEPT !.stvec = "uservec", !.spp = "U", !.spie = TRUE,
                       !.sepc = <<k.cur, "user">>]

Vector(c) ==
  /\ At(c, "vector")
  /\ hartid' = [hartid EXCEPT ![Cur(c)] = cpu[c].tp]
  /\ cpu' = [cpu EXCEPT ![c] = ToUser(@)]
  /\ Go(c, "userret")
  /\ UNCHANGED <<frame, intena, st, holder, ticks, nap, irq, started>>

(* The program has its own value in tp.                                    *)
Userret(c) ==
  /\ At(c, "userret")
  /\ cpu' = [cpu EXCEPT ![c] = Returned([@ EXCEPT !.tp = None])]
  /\ Go(c, cpu[c].sepc[2])
  /\ UNCHANGED <<frame, hartid, intena, st, holder, ticks, nap, irq, started>>

-----------------------------------------------------------------------------
(* System calls.                                                           *)

ForkCall(c) ==
  /\ At(c, "sys")
  /\ \E t \in Threads : st[t] = "UNUSED" /\ st' = [st EXCEPT ![t] = "RUNNABLE"]
  /\ Go(c, "uret")
  /\ UNCHANGED <<cpu, frame, hartid, intena, holder, ticks, nap, irq, started>>

(* A call that takes the lock a device interrupt takes.                    *)
DevCall(c) ==
  /\ At(c, "sys")
  /\ Acquire(c, "dev_spin")
  /\ UNCHANGED <<frame, hartid, intena, st, holder, ticks, nap, irq, started>>

DevDone(c) ==
  /\ At(c, "dev")
  /\ Release(c, "dev", "uret")
  /\ UNCHANGED <<frame, hartid, intena, st, ticks, nap, irq, started>>

(* sys_sleep(n), and sys_uptime(), which is sys_sleep(0) to the locks.     *)
(* Nobody is killed here: kill() is in Proc.                               *)
SleepCall(c, n) ==
  /\ At(c, "sys")
  /\ nap' = [nap EXCEPT ![Cur(c)] = [Awake EXCEPT !.n = n]]
  /\ Acquire(c, "sleep_spin")
  /\ UNCHANGED <<frame, hartid, intena, st, holder, ticks, irq, started>>

ElapsedSigned(t) == ticks - nap[t].ticks0  \* Mutant: without the (uint)
Elapsed(t) == (ticks - nap[t].ticks0) % TickMod

(* sleep(): p->lock is taken before tickslock is released.                 *)
Nap(c) ==
  /\ At(c, "check") /\ Elapsed(Cur(c)) < nap[Cur(c)].n
  /\ holder' = [holder EXCEPT !["ticks"] = None]
  /\ SwitchOut(c, PopOff(PushOff(cpu[c])), "SLEEPING", "woken")
  /\ UNCHANGED <<frame, hartid, ticks, nap, irq, started>>

Woken(c) ==
  /\ At(c, "woken")
  /\ Acquire(c, "sleep_spin")
  /\ UNCHANGED <<frame, hartid, intena, st, holder, ticks, nap, irq, started>>

SleepDone(c) ==
  /\ At(c, "check") /\ Elapsed(Cur(c)) >= nap[Cur(c)].n
  /\ nap' = [nap EXCEPT ![Cur(c)] = Awake]
  /\ Release(c, "ticks", "uret")
  /\ UNCHANGED <<frame, hartid, intena, st, ticks, irq, started>>

Device == ~irq /\ irq' = TRUE /\ started
          /\ UNCHANGED <<cpu, loc, frame, hartid, intena, st, holder, ticks, nap, started>>

Next ==
  \/ Device
  \/ \E c \in CPUs :
       \/ Boot(c) \/ Userinit(c) \/ Scheduler(c) \/ Acquired(c)
       \/ Clock(c) \/ Tick(c) \/ Yield(c) \/ Claim(c) \/ Intr(c)
       \/ Restore(c) \/ Sret(c) \/ IntrOff(c) \/ Vector(c) \/ Userret(c)
       \/ ForkCall(c) \/ DevCall(c) \/ DevDone(c) \/ Nap(c) \/ Woken(c) \/ SleepDone(c)
       \/ \E n \in Naps : SleepCall(c, n)
       \/ \E t \in Threads : SwitchIn(c, t)
       \/ \E why \in Causes \cup {"sys"} : UserTrap(c, why)
       \/ \E why \in Causes : KernelTrap(c, why)

Spec == Init /\ [][Next]_vars

-----------------------------------------------------------------------------
(* Properties.                                                             *)

Handlers == {"clock", "tick_spin", "tick", "yield", "claim", "intr_spin", "intr",
             "restore", "sret"}

(* A trap never goes astray.  While an interrupt may come, stvec points to *)
(* the code for the mode the CPU is in; the trapframe of a running program *)
(* names the CPU it runs on, so that cpuid() is right in the kernel; and   *)
(* sret finds in sepc and sstatus what this flow of control, which may     *)
(* have slept or moved to another CPU since, had there.                    *)
TrapsComeHome ==
  \A c \in CPUs :
    LET k == cpu[c]
        f == k.cur
    IN /\ At(c, "user") => k.stvec = "uservec" /\ hartid[f] = c
       /\ ~At(c, "user") => k.tp = c /\ (k.sie => k.stvec = "kernelvec")
       /\ At(c, "sret") => /\ k.sepc = <<f, frame[f].at>> /\ k.spie /\ k.spp = "S"
                           /\ frame[f].at \notin Handlers
       /\ At(c, "userret") => k.sepc = <<f, "user">> /\ k.spp = "U"

(* Interrupts are off exactly where they must be.  A CPU that holds or     *)
(* wants a lock has them off and counts it in noff, so that no handler     *)
(* asks for a lock its own CPU holds; a handler has them off throughout;   *)
(* and when a system call has released its locks they are on again, on     *)
(* whatever CPU it then is: intena follows the thread across sched().      *)
InterruptsFollowLocks ==
  \A c \in CPUs :
    LET k == cpu[c]
        holds(l) == IF holder[l] = c THEN 1 ELSE 0
        wants == IF loc[k.cur] \in DOMAIN Spins THEN 1 ELSE 0
    IN /\ k.noff = holds("ticks") + holds("dev") + wants
       /\ k.noff > 0 => ~k.sie
       /\ wants = 1 => holder[Spins[loc[k.cur]][1]] # c
       /\ loc[k.cur] \in Handlers => ~k.sie
       /\ loc[k.cur] \in {"sys", "woken"} => k.sie

(* sys_sleep(n) sleeps for n ticks, no more and no less, also when ticks   *)
(* wraps: it does not return before, and nobody is asleep once n ticks     *)
(* have passed.                                                            *)
SleepsOnTime ==
  \A t \in Threads :
    /\ st[t] = "SLEEPING" => nap[t].seen < nap[t].n
    /\ loc[t] = "check" => (Elapsed(t) >= nap[t].n <=> nap[t].seen >= nap[t].n)
=============================================================================
