------------------------------ MODULE TrapInv -------------------------------
(***************************************************************************)
(* The inductive invariant behind the theorems of TrapProofs, in named     *)
(* parts: what is so on a CPU is told by where its flow of control is.     *)
(***************************************************************************)
EXTENDS Trap

SchedulerAt == {"boot", "userinit", "loop", "scan"}
CallAt == {"sys", "woken", "sleep_spin", "check", "dev_spin", "dev"}
ReturnAt == {"uret", "forkret", "vector", "userret", "user"}
Locs == SchedulerAt \cup CallAt \cup ReturnAt \cup Handlers

(* Where an interrupt may find the kernel.                                 *)
Open == {"loop", "scan", "sys", "woken", "uret", "forkret"}
(* Where a lock is held or wanted.                                         *)
TicksAt == {"tick", "check"}
DevAt == {"intr", "dev"}
SpinAt == {"tick_spin", "sleep_spin", "dev_spin", "intr_spin"}

Places == (Flows \cup {None}) \X (Locs \cup {"none"})
CpuState ==
  [cur : Flows, sie : BOOLEAN, noff : Nat, intena : BOOLEAN,
   stvec : {"unset", "kernelvec", "uservec"}, sepc : Places,
   spie : BOOLEAN, spp : {"U", "S"}, tp : CPUs \cup {None}]
NapState == [ticks0 : (0 .. TickMod - 1) \cup {None}, n : Nat, seen : Nat]
FrameState == [at : Locs \cup {"none"}, sepc : Places, spie : BOOLEAN, spp : {"U", "S"}]

TypeOK ==
  /\ cpu \in [CPUs -> CpuState]
  /\ loc \in [Flows -> Locs]
  /\ frame \in [Flows -> FrameState]
  /\ hartid \in [Threads -> CPUs \cup {None}] /\ intena \in [Threads -> BOOLEAN]
  /\ st \in [Threads -> {"UNUSED", "RUNNABLE", "RUNNING", "SLEEPING"}]
  /\ holder \in [{"ticks", "dev"} -> CPUs \cup {None}]
  /\ ticks \in 0 .. TickMod - 1
  /\ nap \in [Threads -> NapState]

(* Who runs where.  A flow runs on one CPU at most, and the scheduler of a *)
(* CPU that runs a thread waits in its scan of proc[].  A thread that does *)
(* not run is on its way out of sched(), and sched() has kept for it       *)
(* whether interrupts were on.                                             *)
Rests(l, state, on) ==
  /\ l \notin SchedulerAt
  /\ state # "RUNNING" => l \in {"forkret", "woken", "uret", "restore"}
  /\ state = "SLEEPING" => l = "woken"
  /\ state = "UNUSED" => l = "forkret"
  /\ state # "RUNNING" /\ l # "forkret" => (on <=> l = "woken")

WhoInv ==
  /\ \A c \in CPUs : /\ Cur(c) \in {c} \cup Threads
                     /\ loc[c] \in SchedulerAt \cup Handlers
                     /\ Cur(c) # c => loc[c] = "scan"
                     /\ loc[c] = "userinit" => c = 0
                     /\ \A d \in CPUs : Cur(c) = Cur(d) => c = d
  /\ \A t \in Threads : /\ st[t] = "RUNNING" <=> \E c \in CPUs : Cur(c) = t
                        /\ Rests(loc[t], st[t], intena[t])
  /\ loc[0] \in {"boot", "userinit"} => \A t \in Threads : st[t] = "UNUSED"

(* What kerneltrap() keeps on the stack: where the flow was, and that      *)
(* interrupts were on.                                                     *)
Saved(f, l) == [at |-> l, sepc |-> <<f, l>>, spie |-> TRUE, spp |-> "S"]

FrameIs(f, l, fr) ==
  \/ /\ fr = NoFrame
     /\ l \notin {"restore", "sret"} /\ (f \in CPUs => l \notin Handlers)
  \/ /\ l \in Handlers
     /\ \E m \in Open : fr = Saved(f, m) /\ (f \in CPUs <=> m \in {"loop", "scan"})

FrameInv == \A f \in Flows : FrameIs(f, loc[f], frame[f])

(* The registers and the struct cpu k of CPU c, by the place l where its   *)
(* flow is; fr and hart are what that flow has in frame and hartid.        *)
CpuIs(c, k, l, hold, fr, hart) ==
  /\ hold["ticks"] = c <=> l \in TicksAt
  /\ hold["dev"] = c <=> l \in DevAt
  /\ k.noff = IF l \in TicksAt \cup DevAt \cup SpinAt THEN 1 ELSE 0
  /\ k.intena <=> l \in {"sleep_spin", "check", "dev_spin", "dev"}
  /\ l \notin Open \cup {"user"} => ~k.sie
  /\ l \in {"sys", "woken", "user"} => k.sie
  /\ l # "user" => k.tp = c
  /\ l \in {"userret", "user"} => k.stvec = "uservec" /\ hart = c
  /\ l \notin {"boot", "userret", "user"} => k.stvec = "kernelvec"
  /\ l \in {"tick_spin", "tick"} => c = 0
  /\ l = "sret" => k.sepc = fr.sepc /\ k.spie = fr.spie /\ k.spp = fr.spp
  /\ l = "userret" => k.sepc = <<k.cur, "user">> /\ k.spie /\ k.spp = "U"

CpuInv == \A c \in CPUs : CpuIs(c, cpu[c], loc[Cur(c)], holder, frame[Cur(c)], hartid[Cur(c)])

(* The clock, and the sleepers: each has seen as many ticks as it thinks,  *)
(* and an interrupt on its way to a tick came while that was possible.     *)
ClockAt == {"clock", "tick_spin", "tick"}

TimeInv ==
  /\ \A t \in Threads : IF nap[t].ticks0 = None THEN nap[t].seen = 0 /\ loc[t] # "check"
                        ELSE nap[t].seen < TickMod /\ Elapsed(t) = nap[t].seen
  /\ \A t \in Threads : st[t] = "SLEEPING" => nap[t].ticks0 # None /\ nap[t].seen < nap[t].n
  /\ loc[Cur(0)] \in ClockAt => ClockMayTick

TInv == TypeOK /\ WhoInv /\ FrameInv /\ CpuInv /\ TimeInv
=============================================================================
