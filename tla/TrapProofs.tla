----------------------------- MODULE TrapProofs -----------------------------
(***************************************************************************)
(* TInv is preserved by every step, for any number of CPUs and threads.    *)
(***************************************************************************)
EXTENDS TrapInv, TLAPS

(* ticks wraps as a uint does.                                             *)
LEMMA TickWraps ==
  ASSUME NEW M \in Nat \ {0}, NEW x \in 0 .. M - 1
  PROVE  (x + 1) % M = IF x + 1 = M THEN 0 ELSE x + 1
OBVIOUS

(* A difference of uints.                                                  *)
LEMMA UintDifference ==
  ASSUME NEW M \in Nat \ {0}, NEW x \in 0 .. M - 1, NEW y \in 0 .. M - 1
  PROVE  (x - y) % M = IF y <= x THEN x - y ELSE x - y + M
OBVIOUS

(* Assignments to the registers and the struct cpu of a CPU.               *)
LEMMA Assign ==
  ASSUME NEW k \in CpuState
  PROVE  /\ \A v \in Flows : [k EXCEPT !.cur = v] \in CpuState
         /\ \A v \in BOOLEAN : [k EXCEPT !.sie = v] \in CpuState
         /\ \A v \in Nat : [k EXCEPT !.noff = v] \in CpuState
         /\ \A v \in BOOLEAN : [k EXCEPT !.intena = v] \in CpuState
         /\ \A v \in {"unset", "kernelvec", "uservec"} : [k EXCEPT !.stvec = v] \in CpuState
         /\ \A v \in Places : [k EXCEPT !.sepc = v] \in CpuState
         /\ \A v \in BOOLEAN : [k EXCEPT !.spie = v] \in CpuState
         /\ \A v \in {"U", "S"} : [k EXCEPT !.spp = v] \in CpuState
         /\ \A v \in CPUs \cup {None} : [k EXCEPT !.tp = v] \in CpuState
BY Zenon DEF CpuState

(* push_off(): interrupts are off, and the first call keeps what they      *)
(* were.                                                                   *)
LEMMA PushOffIs ==
  ASSUME NEW k \in CpuState
  PROVE  /\ PushOff(k) \in CpuState
         /\ PushOff(k).noff = k.noff + 1 /\ ~PushOff(k).sie
         /\ k.noff = 0 => (PushOff(k).intena <=> k.sie)
         /\ k.noff # 0 => (PushOff(k).intena <=> k.intena)
         /\ PushOff(k).cur = k.cur /\ PushOff(k).stvec = k.stvec /\ PushOff(k).tp = k.tp
<1> DEFINE j == [k EXCEPT !.sie = FALSE]
           i == [j EXCEPT !.noff = k.noff + 1]
           v == IF k.noff = 0 THEN k.sie ELSE k.intena
<1>1. k.noff + 1 \in Nat /\ v \in BOOLEAN
  BY DEF CpuState
<1>2. j \in CpuState
  BY Assign, Zenon
<1>3. i \in CpuState
  BY <1>1, <1>2, Assign, Zenon
<1>4. [i EXCEPT !.intena = v] \in CpuState
  BY <1>1, <1>3, Assign, Zenon
<1>5. /\ PushOff(k).noff = k.noff + 1 /\ ~PushOff(k).sie
      /\ k.noff = 0 => (PushOff(k).intena <=> k.sie)
      /\ k.noff # 0 => (PushOff(k).intena <=> k.intena)
      /\ PushOff(k).cur = k.cur /\ PushOff(k).stvec = k.stvec /\ PushOff(k).tp = k.tp
  BY DEF PushOff, CpuState
<1> QED
  BY <1>4, <1>5 DEF PushOff

(* pop_off(): the last one turns interrupts on again if they were.         *)
LEMMA PopOffIs ==
  ASSUME NEW k \in CpuState, k.noff > 0
  PROVE  /\ PopOff(k) \in CpuState
         /\ PopOff(k).noff = k.noff - 1
         /\ PopOff(k).sie <=> k.noff = 1 /\ k.intena
         /\ PopOff(k).intena <=> k.noff > 1 /\ k.intena
         /\ PopOff(k).cur = k.cur /\ PopOff(k).stvec = k.stvec /\ PopOff(k).tp = k.tp
<1> DEFINE j == [k EXCEPT !.noff = k.noff - 1]
           i == [j EXCEPT !.sie = (k.noff = 1 /\ k.intena)]
           v == k.intena /\ k.noff > 1
<1>1. k.noff - 1 \in Nat /\ v \in BOOLEAN /\ (k.noff = 1 /\ k.intena) \in BOOLEAN
  BY DEF CpuState
<1>2. j \in CpuState
  BY <1>1, Assign, Zenon
<1>3. i \in CpuState
  BY <1>1, <1>2, Assign, Zenon
<1>4. [i EXCEPT !.intena = v] \in CpuState
  BY <1>1, <1>3, Assign, Zenon
<1>5. /\ PopOff(k).noff = k.noff - 1
      /\ PopOff(k).sie <=> k.noff = 1 /\ k.intena
      /\ PopOff(k).intena <=> k.noff > 1 /\ k.intena
      /\ PopOff(k).cur = k.cur /\ PopOff(k).stvec = k.stvec /\ PopOff(k).tp = k.tp
  BY Zenon DEF PopOff, CpuState
<1> QED
  BY <1>4, <1>5 DEF PopOff

(* swtch() changes the flow of control and nothing else.                   *)
LEMMA SwtchIs ==
  ASSUME NEW k \in CpuState, NEW f \in Flows
  PROVE  /\ Swtch(k, f) \in CpuState /\ Swtch(k, f).cur = f
         /\ Swtch(k, f).noff = k.noff /\ (Swtch(k, f).sie <=> k.sie)
         /\ Swtch(k, f).intena <=> k.intena
         /\ Swtch(k, f).stvec = k.stvec /\ Swtch(k, f).tp = k.tp
BY DEF Swtch, CpuState

(* A trap as the hardware takes it.                                        *)
LEMMA HardwareIs ==
  ASSUME NEW k \in CpuState, NEW f \in Flows, NEW spp \in {"U", "S"}, loc[f] \in Locs
  PROVE  /\ Hardware(k, f, spp) \in CpuState
         /\ ~Hardware(k, f, spp).sie /\ Hardware(k, f, spp).noff = k.noff
         /\ Hardware(k, f, spp).intena <=> k.intena
         /\ Hardware(k, f, spp).sepc = <<f, loc[f]>> /\ Hardware(k, f, spp).spp = spp
         /\ Hardware(k, f, spp).cur = k.cur /\ Hardware(k, f, spp).tp = k.tp
         /\ Hardware(k, f, spp).stvec = k.stvec
<1> DEFINE j == [k EXCEPT !.sie = FALSE]
           i == [j EXCEPT !.spie = k.sie]
           h == [i EXCEPT !.spp = spp]
<1>1. k.sie \in BOOLEAN /\ <<f, loc[f]>> \in Places
  BY DEF CpuState, Places
<1>2. j \in CpuState
  BY Assign, Zenon
<1>3. i \in CpuState
  BY <1>1, <1>2, Assign, Zenon
<1>4. h \in CpuState
  BY <1>3, Assign, Zenon
<1>5. [h EXCEPT !.sepc = <<f, loc[f]>>] \in CpuState
  BY <1>1, <1>4, Assign, Zenon
<1>6. /\ ~Hardware(k, f, spp).sie /\ Hardware(k, f, spp).noff = k.noff
      /\ Hardware(k, f, spp).intena <=> k.intena
      /\ Hardware(k, f, spp).sepc = <<f, loc[f]>> /\ Hardware(k, f, spp).spp = spp
      /\ Hardware(k, f, spp).cur = k.cur /\ Hardware(k, f, spp).tp = k.tp
      /\ Hardware(k, f, spp).stvec = k.stvec
  BY DEF Hardware, CpuState
<1> QED
  BY <1>5, <1>6 DEF Hardware

(* sret clears what it has used.                                           *)
LEMMA SpentIs ==
  ASSUME NEW k \in CpuState
  PROVE  /\ Spent(k) \in CpuState
         /\ Spent(k).noff = k.noff /\ (Spent(k).sie <=> k.sie) /\ (Spent(k).intena <=> k.intena)
         /\ Spent(k).cur = k.cur /\ Spent(k).stvec = k.stvec /\ Spent(k).tp = k.tp
<1> DEFINE j == [k EXCEPT !.sepc = <<None, "none">>]
           i == [j EXCEPT !.spie = FALSE]
<1>1. j \in CpuState
  <2>1. <<None, "none">> \in Places
    BY DEF Places
  <2> QED
    BY <2>1, Assign, Zenon
<1>2. i \in CpuState
  BY <1>1, Assign, Zenon
<1>3. [i EXCEPT !.spp = "U"] \in CpuState
  BY <1>2, Assign, Zenon
<1>4. /\ Spent(k).noff = k.noff /\ (Spent(k).sie <=> k.sie) /\ (Spent(k).intena <=> k.intena)
      /\ Spent(k).cur = k.cur /\ Spent(k).stvec = k.stvec /\ Spent(k).tp = k.tp
  BY DEF Spent, CpuState
<1> QED
  BY <1>3, <1>4 DEF Spent

(* sret gives interrupts back.                                             *)
LEMMA ReturnedIs ==
  ASSUME NEW k \in CpuState
  PROVE  /\ Returned(k) \in CpuState
         /\ Returned(k).noff = k.noff /\ (Returned(k).sie <=> k.spie)
         /\ Returned(k).intena <=> k.intena
         /\ Returned(k).cur = k.cur /\ Returned(k).stvec = k.stvec /\ Returned(k).tp = k.tp
<1> DEFINE j == [k EXCEPT !.sie = k.spie]
<1>1. k.spie \in BOOLEAN
  BY DEF CpuState
<1>2. j \in CpuState
  BY <1>1, Assign, Zenon
<1>3. /\ j.noff = k.noff /\ (j.sie <=> k.spie) /\ (j.intena <=> k.intena)
      /\ j.cur = k.cur /\ j.stvec = k.stvec /\ j.tp = k.tp
  BY DEF CpuState
<1>4. Returned(k) = Spent(j)
  BY DEF Returned
<1> HIDE DEF j
<1> QED
  BY <1>2, <1>3, <1>4, SpentIs

(* kerneltrap() loads sepc and sstatus from its stack.                     *)
LEMMA ReloadedIs ==
  ASSUME NEW k \in CpuState, NEW fr \in FrameState
  PROVE  /\ Reloaded(k, fr) \in CpuState
         /\ Reloaded(k, fr).sepc = fr.sepc /\ Reloaded(k, fr).spie = fr.spie
         /\ Reloaded(k, fr).spp = fr.spp
         /\ Reloaded(k, fr).noff = k.noff /\ (Reloaded(k, fr).sie <=> k.sie)
         /\ Reloaded(k, fr).intena <=> k.intena
         /\ Reloaded(k, fr).cur = k.cur /\ Reloaded(k, fr).stvec = k.stvec
         /\ Reloaded(k, fr).tp = k.tp
<1> DEFINE j == [k EXCEPT !.sepc = fr.sepc]
           i == [j EXCEPT !.spie = fr.spie]
<1>1. fr.sepc \in Places /\ fr.spie \in BOOLEAN /\ fr.spp \in {"U", "S"}
  BY DEF FrameState
<1>2. j \in CpuState
  BY <1>1, Assign, Zenon
<1>3. i \in CpuState
  BY <1>1, <1>2, Assign, Zenon
<1>4. [i EXCEPT !.spp = fr.spp] \in CpuState
  BY <1>1, <1>3, Assign, Zenon
<1>5. /\ Reloaded(k, fr).sepc = fr.sepc /\ Reloaded(k, fr).spie = fr.spie
      /\ Reloaded(k, fr).spp = fr.spp
      /\ Reloaded(k, fr).noff = k.noff /\ (Reloaded(k, fr).sie <=> k.sie)
      /\ Reloaded(k, fr).intena <=> k.intena
      /\ Reloaded(k, fr).cur = k.cur /\ Reloaded(k, fr).stvec = k.stvec
      /\ Reloaded(k, fr).tp = k.tp
  BY DEF Reloaded, CpuState
<1> QED
  BY <1>4, <1>5 DEF Reloaded

(* usertrapret() prepares the next trap and the sret to user mode.         *)
LEMMA ToUserIs ==
  ASSUME NEW k \in CpuState
  PROVE  /\ ToUser(k) \in CpuState
         /\ ToUser(k).stvec = "uservec" /\ ToUser(k).spp = "U" /\ ToUser(k).spie
         /\ ToUser(k).sepc = <<k.cur, "user">>
         /\ ToUser(k).noff = k.noff /\ (ToUser(k).sie <=> k.sie)
         /\ ToUser(k).intena <=> k.intena
         /\ ToUser(k).cur = k.cur /\ ToUser(k).tp = k.tp
<1> DEFINE j == [k EXCEPT !.stvec = "uservec"]
           i == [j EXCEPT !.spp = "U"]
           h == [i EXCEPT !.spie = TRUE]
<1>1. <<k.cur, "user">> \in Places
  BY DEF CpuState, Places, Locs, ReturnAt
<1>2. j \in CpuState
  BY Assign, Zenon
<1>3. i \in CpuState
  BY <1>2, Assign, Zenon
<1>4. h \in CpuState
  BY <1>3, Assign, Zenon
<1>5. [h EXCEPT !.sepc = <<k.cur, "user">>] \in CpuState
  BY <1>1, <1>4, Assign, Zenon
<1>6. /\ ToUser(k).stvec = "uservec" /\ ToUser(k).spp = "U" /\ ToUser(k).spie
      /\ ToUser(k).sepc = <<k.cur, "user">>
      /\ ToUser(k).noff = k.noff /\ (ToUser(k).sie <=> k.sie)
      /\ ToUser(k).intena <=> k.intena
      /\ ToUser(k).cur = k.cur /\ ToUser(k).tp = k.tp
  BY DEF ToUser, CpuState
<1> QED
  BY <1>5, <1>6 DEF ToUser

(* uservec and the first lines of usertrap().                              *)
LEMMA UsertrapIs ==
  ASSUME NEW k \in CpuState, NEW t, hartid[t] \in CPUs \cup {None}, NEW why
  PROVE  LET u == Usertrap(Uservec(k, t), why) IN
         /\ u \in CpuState /\ u.tp = hartid[t] /\ u.stvec = "kernelvec"
         /\ u.sie <=> why = "sys"
         /\ u.noff = k.noff /\ (u.intena <=> k.intena) /\ u.cur = k.cur
<1> DEFINE j == Uservec(k, t)
           i == [j EXCEPT !.stvec = "kernelvec"]
<1>1. j \in CpuState
  BY Assign, Zenon DEF Uservec
<1>2. j.tp = hartid[t] /\ j.noff = k.noff /\ (j.intena <=> k.intena) /\ j.cur = k.cur
  BY DEF Uservec, CpuState
<1> HIDE DEF j
<1>3. i \in CpuState
  BY <1>1, Assign, Zenon
<1>4. (why = "sys") \in BOOLEAN
  OBVIOUS
<1>5. [i EXCEPT !.sie = (why = "sys")] \in CpuState
  BY <1>3, <1>4, Assign, Zenon
<1>6. /\ Usertrap(j, why).tp = j.tp /\ Usertrap(j, why).stvec = "kernelvec"
      /\ Usertrap(j, why).sie <=> why = "sys"
      /\ Usertrap(j, why).noff = j.noff /\ (Usertrap(j, why).intena <=> j.intena)
      /\ Usertrap(j, why).cur = j.cur
  BY <1>1, Zenon DEF Usertrap, CpuState
<1>7. Usertrap(j, why) \in CpuState
  BY <1>5 DEF Usertrap
<1> QED
  BY <1>2, <1>6, <1>7, Zenon DEF j

(* A step of the flow that runs on c.                                      *)
Local(c, k, l) ==
  /\ k \in CpuState /\ k.cur = Cur(c) /\ cpu' = [cpu EXCEPT ![c] = k]
  /\ l \in Locs /\ loc' = [loc EXCEPT ![Cur(c)] = l]
  /\ IF Cur(c) \in CPUs THEN l \in SchedulerAt \cup Handlers ELSE l \notin SchedulerAt
  /\ l # "boot" /\ (l = "userinit" => loc[Cur(c)] = "boot" /\ c = 0)

(* What such a step leaves to the other flows and CPUs.                    *)
Elsewhere(c) ==
  /\ frame' \in [Flows -> FrameState]
  /\ \A g \in Flows \ {Cur(c)} : frame'[g] = frame[g]
  /\ hartid' \in [Threads -> CPUs \cup {None}]
  /\ \A t \in Threads \ {Cur(c)} : hartid'[t] = hartid[t]
  /\ holder' \in [{"ticks", "dev"} -> CPUs \cup {None}]
  /\ \A x \in {"ticks", "dev"}, d \in CPUs \ {c} : holder'[x] = d <=> holder[x] = d

(* The flow of c, and what CPUs and flows are.                             *)
LEMMA CurFacts ==
  ASSUME TInv, NEW c \in CPUs
  PROVE  /\ cpu[c] \in CpuState /\ Cur(c) \in Flows /\ Cur(c) \in {c} \cup Threads
         /\ loc[Cur(c)] \in Locs
         /\ \A d \in CPUs \ {c} : Cur(d) # Cur(c)
         /\ CPUs \cap Threads = {} /\ None \notin Flows
<1>1. CPUs \cap Threads = {} /\ None \notin Flows
  BY TrapAssumption DEF CPUs, Flows
<1>2. Cur(c) \in {c} \cup Threads /\ \A d \in CPUs \ {c} : Cur(d) # Cur(c)
  BY DEF TInv, WhoInv
<1>3. cpu[c] \in CpuState
  BY DEF TInv, TypeOK
<1>4. Cur(c) \in Flows
  BY <1>2 DEF Flows
<1>5. loc[Cur(c)] \in Locs
  BY <1>4 DEF TInv, TypeOK
<1> QED
  BY <1>1, <1>2, <1>3, <1>4, <1>5

(* What the place of the flow tells.                                       *)
LEMMA AtFacts ==
  ASSUME TInv, NEW c \in CPUs, NEW l, At(c, l)
  PROVE  /\ cpu[c] \in CpuState /\ Cur(c) \in Flows /\ cpu[c].cur = Cur(c) /\ l = loc[Cur(c)]
         /\ CpuIs(c, cpu[c], l, holder, frame[Cur(c)], hartid[Cur(c)])
         /\ FrameIs(Cur(c), l, frame[Cur(c)])
         /\ l \in SchedulerAt => Cur(c) = c
         /\ l \notin SchedulerAt \cup Handlers => Cur(c) \in Threads /\ Cur(c) \notin CPUs
         /\ Cur(c) \in Threads <=> Cur(c) \notin CPUs
         /\ frame[Cur(c)] = NoFrame /\ l \in Handlers => Cur(c) \in Threads
<1>1. l = loc[Cur(c)] /\ cpu[c].cur = Cur(c)
  BY DEF At, Cur
<1>2. CpuIs(c, cpu[c], l, holder, frame[Cur(c)], hartid[Cur(c)])
  BY <1>1, Zenon DEF TInv, CpuInv
<1>3. FrameIs(Cur(c), l, frame[Cur(c)])
  BY <1>1, CurFacts, Zenon DEF TInv, FrameInv
<1>4. /\ l \in SchedulerAt => Cur(c) = c
      /\ l \notin SchedulerAt \cup Handlers => Cur(c) \in Threads /\ Cur(c) \notin CPUs
  BY <1>1, CurFacts, Zenon DEF TInv, WhoInv, Rests
<1>5. \A m : Saved(Cur(c), m) # NoFrame
  BY DEF Saved, NoFrame
<1>6. frame[Cur(c)] = NoFrame /\ l \in Handlers => Cur(c) \in Threads
  BY <1>3, <1>5, CurFacts, Zenon DEF FrameIs
<1> QED
  BY <1>1, <1>2, <1>3, <1>4, <1>6, CurFacts, Zenon

(* What the step has done to c and its flow.                               *)
LEMMA Here ==
  ASSUME TInv, NEW c \in CPUs, NEW k, NEW l, Local(c, k, l)
  PROVE  /\ cpu'[c] = k /\ loc'[Cur(c)] = l
         /\ \A d \in CPUs : Cur(d)' = Cur(d) /\ (d # c => cpu'[d] = cpu[d])
         /\ \A g \in Flows \ {Cur(c)} : loc'[g] = loc[g]
<1>1. TypeOK /\ Cur(c) \in Flows
  BY CurFacts DEF TInv
<1> QED
  BY <1>1, Zenon DEF Local, Cur, TypeOK

(* A CPU is not disturbed by what another does to the locks, nor by a      *)
(* hartid that is not its own.                                             *)
LEMMA CpuIsSame ==
  ASSUME NEW c, NEW k, NEW l, NEW hold, NEW hold2, NEW fr, NEW hart, NEW hart2,
         CpuIs(c, k, l, hold, fr, hart),
         hold2["ticks"] = c <=> hold["ticks"] = c, hold2["dev"] = c <=> hold["dev"] = c,
         l \in {"userret", "user"} => hart2 = hart
  PROVE  CpuIs(c, k, l, hold2, fr, hart2)
BY DEF CpuIs

(* The flow on c moves and the others stay, so that only c and its flow    *)
(* need be looked at.                                                      *)
LEMMA LocalStep ==
  ASSUME TInv, NEW c \in CPUs, NEW k, NEW l, Local(c, k, l), Elsewhere(c),
         CpuIs(c, k, l, holder', frame'[Cur(c)], hartid'[Cur(c)]),
         FrameIs(Cur(c), l, frame'[Cur(c)])
  PROVE  FrameInv' /\ CpuInv'
<1>0. /\ Cur(c) \in Flows /\ CPUs \cap Threads = {}
      /\ \A d \in CPUs \ {c} : Cur(d) # Cur(c)
  BY CurFacts, Zenon
<1>1. TypeOK /\ WhoInv /\ FrameInv /\ CpuInv
  BY DEF TInv
<1>2. /\ cpu'[c] = k /\ loc'[Cur(c)] = l
      /\ \A d \in CPUs : Cur(d)' = Cur(d) /\ (d # c => cpu'[d] = cpu[d])
      /\ \A g \in Flows \ {Cur(c)} : loc'[g] = loc[g]
  BY Here, Zenon
<1>4. ASSUME NEW g \in Flows PROVE FrameIs(g, loc[g], frame[g])'
  <2>1. CASE g = Cur(c)
    BY <2>1, <1>2, Zenon DEF FrameIs
  <2>2. CASE g # Cur(c)
    BY <2>2, <1>1, <1>2 DEF FrameInv, FrameIs, Elsewhere
  <2> QED
    BY <2>1, <2>2, Zenon
<1>5. ASSUME NEW d \in CPUs
      PROVE CpuIs(d, cpu'[d], loc'[Cur(d)], holder', frame'[Cur(d)], hartid'[Cur(d)])
  <2>1. CASE d = c
    BY <2>1, <1>2, Zenon
  <2>2. CASE d # c
    <3>1. /\ Cur(d) \in Flows \ {Cur(c)}
          /\ CpuIs(d, cpu[d], loc[Cur(d)], holder, frame[Cur(d)], hartid[Cur(d)])
      BY <1>0, <1>1, <2>2 DEF WhoInv, Flows, CpuInv
    <3>2. loc'[Cur(d)] = loc[Cur(d)] /\ frame'[Cur(d)] = frame[Cur(d)]
      BY <1>2, <3>1, Zenon DEF Elsewhere
    <3>3. loc[Cur(d)] \in {"userret", "user"} => hartid'[Cur(d)] = hartid[Cur(d)]
      BY <1>1, <3>1, Zenon DEF WhoInv, SchedulerAt, Handlers, Elsewhere
    <3>4. /\ holder'["ticks"] = d <=> holder["ticks"] = d
          /\ holder'["dev"] = d <=> holder["dev"] = d
      BY <2>2, Zenon DEF Elsewhere
    <3>5. CpuIs(d, cpu[d], loc[Cur(d)], holder', frame[Cur(d)], hartid'[Cur(d)])
      BY <3>1, <3>3, <3>4, CpuIsSame, Zenon
    <3> QED
      BY <1>2, <2>2, <3>2, <3>5, Zenon
  <2> QED
    BY <2>1, <2>2, Zenon
<1> QED
  BY <1>2, <1>4, <1>5, Zenon DEF FrameInv, CpuInv

(* Who runs where stays, and so does how the others left sched(); a tick   *)
(* or a fork may make a thread runnable.                                   *)
LEMMA LocalWho ==
  ASSUME TInv, NEW c \in CPUs, NEW k, NEW l, Local(c, k, l), intena' = intena,
         \A t \in Threads : st'[t] = st[t] \/ (st[t] # "RUNNING" /\ st'[t] = "RUNNABLE"),
         st' = st \/ loc'[0] \notin {"boot", "userinit"}
  PROVE  WhoInv'
<1> USE CurFacts
<1>1. TypeOK /\ WhoInv
  BY Zenon DEF TInv
<1>2. \A d \in CPUs : Cur(d)' = Cur(d)
  BY <1>1, Zenon DEF Local, Cur, TypeOK
<1>3. \A g \in Flows \ {Cur(c)} : loc'[g] = loc[g]
  BY <1>1 DEF Local, TypeOK
<1>4. loc'[Cur(c)] = l
  BY <1>1, Zenon DEF Local, TypeOK
<1>5. ASSUME NEW d \in CPUs
      PROVE  /\ loc'[d] \in SchedulerAt \cup Handlers
             /\ Cur(d) # d => loc'[d] = "scan"
             /\ loc'[d] = "userinit" => d = 0
  <2>1. CASE d = Cur(c)
    BY <1>1, <1>4, <2>1 DEF Local, WhoInv
  <2>2. CASE d # Cur(c)
    BY <1>1, <1>3, <2>2 DEF WhoInv, Flows
  <2> QED
    BY <2>1, <2>2, Zenon
<1>6. ASSUME NEW t \in Threads
      PROVE  /\ loc'[t] \notin SchedulerAt
             /\ st'[t] = "RUNNING" <=> st[t] = "RUNNING"
             /\ st[t] # "RUNNING" => loc'[t] = loc[t]
             /\ st'[t] = "SLEEPING" => st[t] = "SLEEPING"
             /\ st'[t] = "UNUSED" => st[t] = "UNUSED"
  <2>1. CASE t = Cur(c)
    BY <1>1, <1>4, <2>1 DEF Local, WhoInv
  <2>2. CASE t # Cur(c)
    BY <1>1, <1>3, <2>2, Zenon DEF WhoInv, Rests, Flows
  <2> QED
    BY <2>1, <2>2, Zenon
<1>7. loc'[0] \in {"boot", "userinit"} => loc[0] \in {"boot", "userinit"} /\ st' = st
  BY <1>1, <1>3, <1>4, TrapAssumption DEF Local, CPUs, Flows
<1>8. ASSUME NEW t \in Threads PROVE Rests(loc'[t], st'[t], intena[t])
  <2>1. Rests(loc[t], st[t], intena[t])
    BY <1>1, Zenon DEF WhoInv
  <2> QED
    BY <1>6, <2>1, Zenon DEF Rests
<1> QED
  BY <1>1, <1>2, <1>5, <1>6, <1>7, <1>8 DEF WhoInv

(* Time does not go on, and the flow on c does not begin a tick unless     *)
(* that is possible.                                                       *)
LEMMA LocalTime ==
  ASSUME TInv, NEW c \in CPUs, NEW k, NEW l, Local(c, k, l), ticks' = ticks, nap' = nap,
         \A t \in Threads : st'[t] = "SLEEPING" => st[t] = "SLEEPING",
         l = "check" => nap[Cur(c)].ticks0 # None,
         l \in ClockAt => loc[Cur(c)] \in ClockAt \/ ClockMayTick
  PROVE  TimeInv'
<1> USE CurFacts
<1>1. TypeOK /\ TimeInv
  BY Zenon DEF TInv
<1>2. \A d \in CPUs : Cur(d)' = Cur(d)
  BY <1>1, Zenon DEF Local, Cur, TypeOK
<1>3. \A g \in Flows : loc'[g] = IF g = Cur(c) THEN l ELSE loc[g]
  BY <1>1, Zenon DEF Local, TypeOK
<1>4. \A t \in Threads : loc'[t] = "check" => loc[t] = "check" \/ nap[t].ticks0 # None
  BY <1>3, Zenon DEF Flows
<1>5. 0 \in CPUs /\ Cur(0) \in Flows
  BY TrapAssumption DEF CPUs
<1>6. loc'[Cur(0)] \in ClockAt => ClockMayTick
  BY <1>1, <1>3, <1>5, Zenon DEF TimeInv
<1> QED
  BY <1>1, <1>2, <1>4, <1>5, <1>6, Zenon DEF TimeInv, Elapsed, ClockMayTick

(* A step within one CPU and its flow leaves the rest.                     *)
LEMMA NothingElsewhere ==
  ASSUME TInv, NEW c \in CPUs, frame' = frame, hartid' = hartid, holder' = holder
  PROVE  Elsewhere(c)
BY Zenon DEF Elsewhere, TInv, TypeOK

(* Such a step keeps the types.                                            *)
LEMMA LocalType ==
  ASSUME TInv, NEW c \in CPUs, NEW k, NEW l, Local(c, k, l), Elsewhere(c),
         st' \in [Threads -> {"UNUSED", "RUNNABLE", "RUNNING", "SLEEPING"}],
         intena' = intena, ticks' \in 0 .. TickMod - 1, nap' \in [Threads -> NapState]
  PROVE  TypeOK'
<1>1. cpu' \in [CPUs -> CpuState] /\ loc' \in [Flows -> Locs]
  BY CurFacts, Zenon DEF TInv, TypeOK, Local
<1> QED
  BY <1>1, Zenon DEF TInv, TypeOK, Elsewhere

(* A step that moves one flow and changes nothing of processes and time.   *)
LEMMA QuietStep ==
  ASSUME TInv, NEW c \in CPUs, NEW k, NEW l, Local(c, k, l), Elsewhere(c),
         intena' = intena, st' = st, ticks' = ticks, nap' = nap,
         CpuIs(c, k, l, holder', frame'[Cur(c)], hartid'[Cur(c)]),
         FrameIs(Cur(c), l, frame'[Cur(c)]),
         l = "check" => nap[Cur(c)].ticks0 # None,
         l \in ClockAt => loc[Cur(c)] \in ClockAt \/ ClockMayTick
  PROVE  TInv'
<1>1. TypeOK'
  <2>1. /\ st' \in [Threads -> {"UNUSED", "RUNNABLE", "RUNNING", "SLEEPING"}]
        /\ ticks' \in 0 .. TickMod - 1 /\ nap' \in [Threads -> NapState]
    BY Zenon DEF TInv, TypeOK
  <2> QED
    BY <2>1, LocalType, Zenon
<1>2. WhoInv'
  <2>1. \A t \in Threads : st'[t] = st[t] \/ (st[t] # "RUNNING" /\ st'[t] = "RUNNABLE")
    BY Zenon
  <2>2. st' = st \/ loc'[0] \notin {"boot", "userinit"}
    BY Zenon
  <2> QED
    BY ONLY TInv, c \in CPUs, Local(c, k, l), intena' = intena, <2>1, <2>2, LocalWho
<1>3. FrameInv' /\ CpuInv'
  BY LocalStep, Zenon
<1>4. TimeInv'
  BY LocalTime, Zenon
<1> QED
  BY <1>1, <1>2, <1>3, <1>4, Zenon DEF TInv

(* From place m of the flow on c to place l.                               *)
Moves(c, m, l) ==
  \/ /\ m \in SchedulerAt /\ l \in {"userinit", "loop", "scan"}
     /\ l = "userinit" => m = "boot" /\ c = 0
  \/ m \in Handlers /\ l \in Handlers /\ (l \in {"restore", "sret"} => frame[Cur(c)] # NoFrame)
  \/ m \in Handlers /\ l = "uret" /\ frame[Cur(c)] = NoFrame
  \/ m \in CallAt \cup ReturnAt /\ l \in CallAt \cup ReturnAt
  \/ m = "user" /\ l \in Handlers \ {"restore", "sret"}

(* The flow on c goes from m to l, as Moves has it.                        *)
LEMMA MoveStep ==
  ASSUME TInv, NEW c \in CPUs, NEW m, At(c, m), NEW l, Moves(c, m, l), Go(c, l), frame' = frame,
         NEW k \in CpuState, k.cur = Cur(c), cpu' = [cpu EXCEPT ![c] = k]
  PROVE  Local(c, k, l) /\ FrameIs(Cur(c), l, frame'[Cur(c)])
<1>1. /\ Cur(c) \in Flows /\ m = loc[Cur(c)]
      /\ FrameIs(Cur(c), m, frame[Cur(c)])
      /\ m \in SchedulerAt => Cur(c) = c
      /\ m \notin SchedulerAt \cup Handlers => Cur(c) \in Threads
      /\ Cur(c) \in Threads <=> Cur(c) \notin CPUs
      /\ frame[Cur(c)] = NoFrame /\ m \in Handlers => Cur(c) \in Threads
  BY AtFacts, Zenon
<1>2. loc' = [loc EXCEPT ![Cur(c)] = l]
  BY DEF Go
<1>3. /\ l \in Locs
      /\ IF Cur(c) \in CPUs THEN l \in SchedulerAt \cup Handlers ELSE l \notin SchedulerAt
      /\ l # "boot" /\ (l = "userinit" => m = "boot" /\ c = 0)
  BY <1>1, Zenon DEF Moves, Locs, SchedulerAt, CallAt, ReturnAt, Handlers
<1>4. FrameIs(Cur(c), l, frame[Cur(c)])
  BY <1>1, Zenon DEF Moves, FrameIs, SchedulerAt, CallAt, ReturnAt, Handlers
<1> QED
  BY <1>1, <1>2, <1>3, <1>4, Zenon DEF Local

(* release(): the lock is free and interrupts are as they were.            *)
LEMMA ReleaseStep ==
  ASSUME TInv, NEW c \in CPUs, NEW m, At(c, m), NEW x, NEW l, Release(c, x, l),
         \/ m \in {"check", "dev"} /\ l = "uret"
         \/ m = "tick" /\ l = "yield"
         \/ m = "intr" /\ l = IF frame[Cur(c)] = NoFrame THEN "uret" ELSE "restore",
         x = IF m \in TicksAt THEN "ticks" ELSE "dev",
         frame' = frame, hartid' = hartid
  PROVE  /\ Local(c, PopOff(cpu[c]), l) /\ Elsewhere(c)
         /\ CpuIs(c, PopOff(cpu[c]), l, holder', frame'[Cur(c)], hartid'[Cur(c)])
         /\ FrameIs(Cur(c), l, frame'[Cur(c)])
<1> DEFINE k == PopOff(cpu[c])
<1>1. /\ cpu[c] \in CpuState /\ Cur(c) \in Flows /\ cpu[c].cur = Cur(c) /\ m = loc[Cur(c)]
      /\ CpuIs(c, cpu[c], m, holder, frame[Cur(c)], hartid[Cur(c)])
  BY AtFacts, Zenon
<1> USE DEF TicksAt, DevAt, SpinAt
<1>2. cpu[c].noff = 1 /\ (cpu[c].intena <=> m \in {"check", "dev"})
  BY <1>1, Zenon DEF CpuIs
<1>3. /\ k \in CpuState /\ k.noff = 0 /\ (k.sie <=> m \in {"check", "dev"}) /\ ~k.intena
      /\ k.cur = Cur(c) /\ k.stvec = cpu[c].stvec /\ k.tp = cpu[c].tp
  BY <1>1, <1>2, PopOffIs
<1>4. cpu' = [cpu EXCEPT ![c] = k] /\ holder' = [holder EXCEPT ![x] = None]
  BY DEF Release
<1>5. holder \in [{"ticks", "dev"} -> CPUs \cup {None}] /\ None \notin CPUs
  BY CurFacts, Zenon DEF TInv, TypeOK, Flows
<1> HIDE DEF k
<1>6. Moves(c, m, l)
  BY Zenon DEF Moves, Handlers, CallAt, ReturnAt
<1>7. Local(c, k, l) /\ FrameIs(Cur(c), l, frame'[Cur(c)])
  BY <1>3, <1>4, <1>6, MoveStep, Zenon DEF Release
<1>8. Elsewhere(c)
  <2>1. frame \in [Flows -> FrameState] /\ hartid \in [Threads -> CPUs \cup {None}]
    BY Zenon DEF TInv, TypeOK
  <2>2. holder[x] = c
    BY <1>1, Zenon DEF CpuIs
  <2> QED
    BY <1>4, <1>5, <2>1, <2>2, Zenon DEF Elsewhere
<1>9. CpuIs(c, k, l, holder', frame'[Cur(c)], hartid'[Cur(c)])
  BY <1>1, <1>3, <1>4, <1>5, Zenon DEF CpuIs, Open
<1> QED
  BY <1>7, <1>8, <1>9, Zenon DEF k

(* DevDone: release() of the lock of a device.                             *)
LEMMA DevDoneInv ==
  ASSUME TInv, NEW c \in CPUs, DevDone(c)
  PROVE  TInv'
<1>1. /\ Local(c, PopOff(cpu[c]), "uret") /\ Elsewhere(c)
      /\ CpuIs(c, PopOff(cpu[c]), "uret", holder', frame'[Cur(c)], hartid'[Cur(c)])
      /\ FrameIs(Cur(c), "uret", frame'[Cur(c)])
  BY ReleaseStep, Zenon DEF DevDone, TicksAt
<1> QED
  BY <1>1, QuietStep, Zenon DEF DevDone, ClockAt

(* acquire() up to the swap: interrupts are off before the lock is tried.  *)
LEMMA AcquireStep ==
  ASSUME TInv, NEW c \in CPUs, NEW m, At(c, m), NEW l, Acquire(c, l),
         \/ m = "clock" /\ l = "tick_spin" /\ c = 0
         \/ m = "claim" /\ l = "intr_spin"
         \/ m = "sys" /\ l \in {"sleep_spin", "dev_spin"}
         \/ m = "woken" /\ l = "sleep_spin",
         frame' = frame, hartid' = hartid, holder' = holder
  PROVE  /\ Local(c, PushOff(cpu[c]), l) /\ Elsewhere(c)
         /\ CpuIs(c, PushOff(cpu[c]), l, holder', frame'[Cur(c)], hartid'[Cur(c)])
         /\ FrameIs(Cur(c), l, frame'[Cur(c)])
<1> DEFINE k == PushOff(cpu[c])
<1>1. /\ cpu[c] \in CpuState /\ cpu[c].cur = Cur(c)
      /\ CpuIs(c, cpu[c], m, holder, frame[Cur(c)], hartid[Cur(c)])
  BY AtFacts, Zenon
<1> USE DEF TicksAt, DevAt, SpinAt
<1>2. cpu[c].noff = 0 /\ (cpu[c].sie <=> m \in {"sys", "woken"})
  BY <1>1, Zenon DEF CpuIs, Open
<1>3. /\ k \in CpuState /\ k.noff = 1 /\ ~k.sie /\ (k.intena <=> m \in {"sys", "woken"})
      /\ k.cur = Cur(c) /\ k.stvec = cpu[c].stvec /\ k.tp = cpu[c].tp
  BY <1>1, <1>2, PushOffIs
<1>4. cpu' = [cpu EXCEPT ![c] = k]
  BY DEF Acquire
<1> HIDE DEF k
<1>5. Moves(c, m, l)
  BY DEF Moves, Handlers, CallAt, ReturnAt
<1>6. Local(c, k, l) /\ FrameIs(Cur(c), l, frame'[Cur(c)])
  BY <1>3, <1>4, <1>5, MoveStep, Zenon DEF Acquire
<1>7. CpuIs(c, k, l, holder', frame'[Cur(c)], hartid'[Cur(c)])
  BY <1>1, <1>3, Zenon DEF CpuIs, Open
<1> QED
  BY <1>6, <1>7, NothingElsewhere, Zenon DEF k

(* A step to another place and nothing else.                               *)
LEMMA GoStep ==
  ASSUME TInv, NEW c \in CPUs, NEW m, At(c, m), NEW l, Go(c, l), Moves(c, m, l),
         \/ m \in {"userinit", "scan", "sys"} /\ l \in {"loop", "uret"}
         \/ m \in {"clock", "yield", "claim"} /\ l \in {"yield", "restore", "uret"},
         cpu' = cpu, frame' = frame, hartid' = hartid, holder' = holder
  PROVE  /\ Local(c, cpu[c], l) /\ Elsewhere(c)
         /\ CpuIs(c, cpu[c], l, holder', frame'[Cur(c)], hartid'[Cur(c)])
         /\ FrameIs(Cur(c), l, frame'[Cur(c)])
<1>1. /\ cpu[c] \in CpuState /\ cpu[c].cur = Cur(c)
      /\ CpuIs(c, cpu[c], m, holder, frame[Cur(c)], hartid[Cur(c)])
  BY AtFacts, Zenon
<1>2. cpu' = [cpu EXCEPT ![c] = cpu[c]]
  BY Zenon DEF TInv, TypeOK
<1>3. Local(c, cpu[c], l) /\ FrameIs(Cur(c), l, frame'[Cur(c)])
  BY <1>1, <1>2, MoveStep, Zenon
<1>4. CpuIs(c, cpu[c], l, holder', frame'[Cur(c)], hartid'[Cur(c)])
  BY <1>1, Zenon DEF CpuIs, Open, TicksAt, DevAt, SpinAt
<1> QED
  BY <1>3, <1>4, NothingElsewhere, Zenon

(* main(): the trap vector of the kernel is set before the scheduler runs. *)
LEMMA BootInv ==
  ASSUME TInv, NEW c \in CPUs, Boot(c)
  PROVE  TInv'
<1> DEFINE k == [cpu[c] EXCEPT !.stvec = "kernelvec"]
           l == IF c = 0 THEN "userinit" ELSE "loop"
<1>1. /\ cpu[c] \in CpuState /\ cpu[c].cur = Cur(c)
      /\ CpuIs(c, cpu[c], "boot", holder, frame[Cur(c)], hartid[Cur(c)])
  BY AtFacts, Zenon DEF Boot
<1>2. k \in CpuState
  BY <1>1, Assign, Zenon
<1>3. /\ k.cur = Cur(c) /\ k.stvec = "kernelvec" /\ k.noff = cpu[c].noff
      /\ (k.sie <=> cpu[c].sie) /\ (k.intena <=> cpu[c].intena) /\ k.tp = cpu[c].tp
  BY <1>1 DEF CpuState
<1>4. cpu' = [cpu EXCEPT ![c] = k]
  BY DEF Boot
<1> HIDE DEF k
<1>5. Local(c, k, l) /\ FrameIs(Cur(c), l, frame'[Cur(c)])
  BY <1>2, <1>3, <1>4, MoveStep, Zenon DEF Boot, Moves, SchedulerAt
<1>6. CpuIs(c, k, l, holder', frame'[Cur(c)], hartid'[Cur(c)])
  BY <1>1, <1>3, Zenon DEF Boot, CpuIs, Open, TicksAt, DevAt, SpinAt
<1>7. Elsewhere(c)
  BY NothingElsewhere DEF Boot
<1> QED
  BY <1>5, <1>6, <1>7, QuietStep, Zenon DEF Boot, ClockAt

(* The scheduler turns interrupts on in each round of its loop.            *)
LEMMA SchedulerInv ==
  ASSUME TInv, NEW c \in CPUs, Scheduler(c)
  PROVE  TInv'
<1>1. CASE At(c, "loop") /\ Go(c, "scan") /\ cpu' = [cpu EXCEPT ![c].sie = TRUE]
  <2> DEFINE k == [cpu[c] EXCEPT !.sie = TRUE]
  <2>1. /\ cpu[c] \in CpuState /\ cpu[c].cur = Cur(c)
        /\ CpuIs(c, cpu[c], "loop", holder, frame[Cur(c)], hartid[Cur(c)])
    BY <1>1, AtFacts, Zenon
  <2>2. k \in CpuState
    BY <2>1, Assign, Zenon
  <2>3. /\ k.cur = Cur(c) /\ k.stvec = cpu[c].stvec /\ k.noff = cpu[c].noff
        /\ k.sie /\ (k.intena <=> cpu[c].intena) /\ k.tp = cpu[c].tp
    BY <2>1 DEF CpuState
  <2>4. cpu' = [cpu EXCEPT ![c] = k]
    BY <1>1
  <2> HIDE DEF k
  <2>5. Local(c, k, "scan") /\ FrameIs(Cur(c), "scan", frame'[Cur(c)])
    BY <1>1, <2>2, <2>3, <2>4, MoveStep, Zenon DEF Scheduler, Moves, SchedulerAt
  <2>6. CpuIs(c, k, "scan", holder', frame'[Cur(c)], hartid'[Cur(c)])
    BY <2>1, <2>3 DEF Scheduler, CpuIs, Open, TicksAt, DevAt, SpinAt
  <2>7. Elsewhere(c)
    BY NothingElsewhere DEF Scheduler
  <2> QED
    BY <2>5, <2>6, <2>7, QuietStep, Zenon DEF Scheduler, ClockAt
<1>2. CASE At(c, "scan") /\ Go(c, "loop") /\ cpu' = cpu
  <2>1. Moves(c, "scan", "loop")
    BY DEF Moves, SchedulerAt
  <2>2. /\ Local(c, cpu[c], "loop") /\ Elsewhere(c)
        /\ CpuIs(c, cpu[c], "loop", holder', frame'[Cur(c)], hartid'[Cur(c)])
        /\ FrameIs(Cur(c), "loop", frame'[Cur(c)])
    BY <1>2, <2>1, GoStep, Zenon DEF Scheduler
  <2> QED
    BY <2>2, QuietStep, Zenon DEF Scheduler, ClockAt
<1> QED
  BY <1>1, <1>2 DEF Scheduler

(* clockintr() takes the lock of the clock on CPU 0 only.                  *)
LEMMA ClockInv ==
  ASSUME TInv, NEW c \in CPUs, Clock(c)
  PROVE  TInv'
<1>0. loc[Cur(c)] \in ClockAt
  BY AtFacts, Zenon DEF Clock, ClockAt
<1>1. CASE c = 0
  <2>1. /\ Local(c, PushOff(cpu[c]), "tick_spin") /\ Elsewhere(c)
        /\ CpuIs(c, PushOff(cpu[c]), "tick_spin", holder', frame'[Cur(c)], hartid'[Cur(c)])
        /\ FrameIs(Cur(c), "tick_spin", frame'[Cur(c)])
    BY <1>1, AcquireStep, Zenon DEF Clock
  <2> QED
    BY <1>0, <2>1, QuietStep, Zenon DEF Clock
<1>2. CASE c # 0
  <2>1. Moves(c, "clock", "yield")
    BY DEF Moves, Handlers
  <2>2. /\ Local(c, cpu[c], "yield") /\ Elsewhere(c)
        /\ CpuIs(c, cpu[c], "yield", holder', frame'[Cur(c)], hartid'[Cur(c)])
        /\ FrameIs(Cur(c), "yield", frame'[Cur(c)])
    BY <1>2, <2>1, GoStep, Zenon DEF Clock
  <2> QED
    BY <1>0, <2>2, QuietStep, Zenon DEF Clock
<1> QED
  BY <1>1, <1>2

(* devintr(): a claim that finds nothing goes straight back.               *)
LEMMA ClaimInv ==
  ASSUME TInv, NEW c \in CPUs, Claim(c)
  PROVE  TInv'
<1>1. CASE irq
  <2>1. /\ Local(c, PushOff(cpu[c]), "intr_spin") /\ Elsewhere(c)
        /\ CpuIs(c, PushOff(cpu[c]), "intr_spin", holder', frame'[Cur(c)], hartid'[Cur(c)])
        /\ FrameIs(Cur(c), "intr_spin", frame'[Cur(c)])
    BY <1>1, AcquireStep, Zenon DEF Claim
  <2> QED
    BY <2>1, QuietStep, Zenon DEF Claim, ClockAt
<1>2. CASE ~irq
  <2>1. Moves(c, "claim", Handled(c)) /\ Handled(c) \in {"restore", "uret"}
    BY Zenon DEF Moves, Handled, Handlers
  <2>2. /\ Local(c, cpu[c], Handled(c)) /\ Elsewhere(c)
        /\ CpuIs(c, cpu[c], Handled(c), holder', frame'[Cur(c)], hartid'[Cur(c)])
        /\ FrameIs(Cur(c), Handled(c), frame'[Cur(c)])
    BY <1>2, <2>1, GoStep, Zenon DEF Claim
  <2> QED
    BY <2>1, <2>2, QuietStep, Zenon DEF Claim, ClockAt
<1> QED
  BY <1>1, <1>2

(* The handler of a device releases its lock and goes back.                *)
LEMMA IntrInv ==
  ASSUME TInv, NEW c \in CPUs, Intr(c)
  PROVE  TInv'
<1>1. Handled(c) \in {"restore", "uret"}
  BY DEF Handled
<1>2. /\ Local(c, PopOff(cpu[c]), Handled(c)) /\ Elsewhere(c)
      /\ CpuIs(c, PopOff(cpu[c]), Handled(c), holder', frame'[Cur(c)], hartid'[Cur(c)])
      /\ FrameIs(Cur(c), Handled(c), frame'[Cur(c)])
  BY ReleaseStep, Zenon DEF Intr, Handled, TicksAt
<1> QED
  BY <1>1, <1>2, QuietStep, Zenon DEF Intr, ClockAt

(* A system call asks for the lock of a device.                            *)
LEMMA DevCallInv ==
  ASSUME TInv, NEW c \in CPUs, DevCall(c)
  PROVE  TInv'
<1>1. /\ Local(c, PushOff(cpu[c]), "dev_spin") /\ Elsewhere(c)
      /\ CpuIs(c, PushOff(cpu[c]), "dev_spin", holder', frame'[Cur(c)], hartid'[Cur(c)])
      /\ FrameIs(Cur(c), "dev_spin", frame'[Cur(c)])
  BY AcquireStep, Zenon DEF DevCall
<1> QED
  BY <1>1, QuietStep, Zenon DEF DevCall, ClockAt

(* sleep() takes tickslock again.                                          *)
LEMMA WokenInv ==
  ASSUME TInv, NEW c \in CPUs, Woken(c)
  PROVE  TInv'
<1>1. /\ Local(c, PushOff(cpu[c]), "sleep_spin") /\ Elsewhere(c)
      /\ CpuIs(c, PushOff(cpu[c]), "sleep_spin", holder', frame'[Cur(c)], hartid'[Cur(c)])
      /\ FrameIs(Cur(c), "sleep_spin", frame'[Cur(c)])
  BY AcquireStep, Zenon DEF Woken
<1> QED
  BY <1>1, QuietStep, Zenon DEF Woken, ClockAt

(* A trap from user mode finds the number of its CPU in the trapframe.     *)
LEMMA UserTrapInv ==
  ASSUME TInv, NEW c \in CPUs, NEW why \in Causes \cup {"sys"}, UserTrap(c, why)
  PROVE  TInv'
<1> DEFINE h == Hardware(cpu[c], Cur(c), "U")
           s == Spent(h)
           k == Usertrap(Uservec(s, Cur(c)), why)
<1>1. /\ cpu[c] \in CpuState /\ cpu[c].cur = Cur(c) /\ Cur(c) \in Flows
      /\ CpuIs(c, cpu[c], "user", holder, frame[Cur(c)], hartid[Cur(c)])
      /\ Cur(c) \in Threads /\ loc[Cur(c)] \in Locs
  BY AtFacts, CurFacts DEF UserTrap, SchedulerAt, Handlers
<1>2. hartid[Cur(c)] = c
  BY <1>1, Zenon DEF CpuIs
<1>3. h \in CpuState /\ h.cur = Cur(c) /\ h.noff = cpu[c].noff /\ (h.intena <=> cpu[c].intena)
  BY <1>1, HardwareIs, Zenon
<1> HIDE DEF h
<1>4. s \in CpuState /\ s.cur = Cur(c) /\ s.noff = cpu[c].noff /\ (s.intena <=> cpu[c].intena)
  BY <1>3, SpentIs, Zenon
<1> HIDE DEF s
<1>5. /\ k \in CpuState /\ k.tp = c /\ k.stvec = "kernelvec" /\ (k.sie <=> why = "sys")
      /\ k.noff = cpu[c].noff /\ (k.intena <=> cpu[c].intena) /\ k.cur = Cur(c)
  BY <1>2, <1>4, UsertrapIs
<1>6. cpu' = [cpu EXCEPT ![c] = k]
  BY Zenon DEF UserTrap, s, h
<1> HIDE DEF k
<1>7. Moves(c, "user", why)
  BY DEF Moves, Causes, Handlers, CallAt, ReturnAt
<1>8. Local(c, k, why) /\ FrameIs(Cur(c), why, frame'[Cur(c)])
  BY <1>5, <1>6, <1>7, MoveStep, Zenon DEF UserTrap
<1>9. CpuIs(c, k, why, holder', frame'[Cur(c)], hartid'[Cur(c)])
  BY <1>1, <1>5, Zenon DEF UserTrap, Causes, CpuIs, Open, TicksAt, DevAt, SpinAt
<1>10. Elsewhere(c)
  <2>1. /\ frame \in [Flows -> FrameState] /\ hartid \in [Threads -> CPUs \cup {None}]
        /\ holder \in [{"ticks", "dev"} -> CPUs \cup {None}]
    BY Zenon DEF TInv, TypeOK
  <2> QED
    BY <1>1, <2>1, Zenon DEF UserTrap, Elsewhere
<1> QED
  BY <1>8, <1>9, <1>10, QuietStep, Zenon DEF UserTrap, Causes, ClockAt

(* An interrupt in the kernel keeps on the stack of the flow where it was. *)
LEMMA KernelTrapInv ==
  ASSUME TInv, NEW c \in CPUs, NEW why \in Causes, KernelTrap(c, why)
  PROVE  TInv'
<1> DEFINE f == Cur(c)
           k == Hardware(cpu[c], f, "S")
<1>1. /\ cpu[c] \in CpuState /\ cpu[c].cur = f /\ f \in Flows /\ loc[f] \in Locs
      /\ CpuIs(c, cpu[c], loc[f], holder, frame[f], hartid[f])
  BY CurFacts, Zenon DEF TInv, CpuInv, Cur
<1>2. /\ loc[f] \in SchedulerAt => f = c
      /\ loc[f] \notin SchedulerAt \cup Handlers => f \in Threads /\ f \notin CPUs
  BY <1>1, CurFacts, Zenon DEF TInv, WhoInv, Rests
<1>3. cpu[c].sie /\ loc[f] # "user"
  BY Zenon DEF KernelTrap, At
<1>4. loc[f] \in Open
  BY <1>1, <1>3, Zenon DEF CpuIs
<1>5. f \in CPUs <=> loc[f] \in {"loop", "scan"}
  BY <1>2, <1>4 DEF Open, SchedulerAt, Handlers
<1>6. /\ k \in CpuState /\ ~k.sie /\ k.noff = cpu[c].noff /\ (k.intena <=> cpu[c].intena)
      /\ k.sepc = <<f, loc[f]>> /\ k.spp = "S" /\ k.cur = f /\ k.tp = cpu[c].tp
      /\ k.stvec = cpu[c].stvec
  BY <1>1, HardwareIs, Zenon
<1>7. cpu' = [cpu EXCEPT ![c] = k] /\ loc' = [loc EXCEPT ![f] = why]
  BY Zenon DEF KernelTrap, Go
<1>8. frame' = [frame EXCEPT ![f] = Saved(f, loc[f])]
  <2>1. cpu[c].sie = TRUE
    BY <1>1, <1>3, Zenon DEF CpuState
  <2> QED
    BY <1>6, <2>1, Zenon DEF KernelTrap, Saved
<1> HIDE DEF k
<1>9. frame \in [Flows -> FrameState] /\ Saved(f, loc[f]) \in FrameState
  BY <1>1, Zenon DEF TInv, TypeOK, FrameState, Saved, Places
<1>10. frame'[f] = Saved(f, loc[f])
  BY <1>1, <1>8, <1>9, Zenon
<1>11. Local(c, k, why)
  BY <1>1, <1>6, <1>7, Zenon DEF Local, Causes, Locs, Handlers, SchedulerAt
<1>12. FrameIs(f, why, frame'[f])
  BY <1>4, <1>5, <1>10 DEF FrameIs, Causes, Handlers
<1>13. CpuIs(c, k, why, holder', frame'[f], hartid'[f])
  BY <1>1, <1>4, <1>6, Zenon DEF KernelTrap, Causes, CpuIs, Open, TicksAt, DevAt, SpinAt
<1>14. Elsewhere(c)
  <2>1. /\ hartid \in [Threads -> CPUs \cup {None}]
        /\ holder \in [{"ticks", "dev"} -> CPUs \cup {None}]
    BY DEF TInv, TypeOK
  <2> QED
    BY <1>1, <1>8, <1>9, <2>1, Zenon DEF KernelTrap, Elsewhere
<1> QED
  BY <1>11, <1>12, <1>13, <1>14, QuietStep, Zenon DEF KernelTrap, Causes, ClockAt

(* kerneltrap() puts sepc and sstatus back.                                *)
LEMMA RestoreInv ==
  ASSUME TInv, NEW c \in CPUs, Restore(c)
  PROVE  TInv'
<1> DEFINE fr == frame[Cur(c)]
           k == Reloaded(cpu[c], fr)
<1>1. /\ cpu[c] \in CpuState /\ cpu[c].cur = Cur(c) /\ Cur(c) \in Flows
      /\ CpuIs(c, cpu[c], "restore", holder, frame[Cur(c)], hartid[Cur(c)])
      /\ FrameIs(Cur(c), "restore", fr)
  BY AtFacts, Zenon DEF Restore
<1>2. fr \in FrameState
  BY <1>1, Zenon DEF TInv, TypeOK
<1>3. /\ k \in CpuState /\ k.sepc = fr.sepc /\ k.spie = fr.spie /\ k.spp = fr.spp
      /\ k.noff = cpu[c].noff /\ (k.sie <=> cpu[c].sie) /\ (k.intena <=> cpu[c].intena)
      /\ k.cur = Cur(c) /\ k.stvec = cpu[c].stvec /\ k.tp = cpu[c].tp
  BY <1>1, <1>2, ReloadedIs, Zenon
<1>4. cpu' = [cpu EXCEPT ![c] = k]
  BY DEF Restore
<1> HIDE DEF k
<1>5. \A m : Saved(Cur(c), m) # NoFrame
  BY DEF Saved, NoFrame
<1>6. Moves(c, "restore", "sret")
  BY <1>1, <1>5, Zenon DEF Moves, FrameIs, Handlers
<1>7. Local(c, k, "sret") /\ FrameIs(Cur(c), "sret", frame'[Cur(c)])
  BY <1>3, <1>4, <1>6, MoveStep, Zenon DEF Restore
<1>8. CpuIs(c, k, "sret", holder', frame'[Cur(c)], hartid'[Cur(c)])
  BY <1>1, <1>3, Zenon DEF Restore, CpuIs, Open, TicksAt, DevAt, SpinAt
<1>9. Elsewhere(c)
  BY NothingElsewhere DEF Restore
<1> QED
  BY <1>7, <1>8, <1>9, QuietStep, Zenon DEF Restore, ClockAt

(* kernelvec's sret goes back to where the interrupt came.                 *)
LEMMA SretInv ==
  ASSUME TInv, NEW c \in CPUs, Sret(c)
  PROVE  TInv'
<1> DEFINE f == Cur(c)
           k == Returned(cpu[c])
<1>1. /\ cpu[c] \in CpuState /\ cpu[c].cur = f /\ f \in Flows
      /\ CpuIs(c, cpu[c], "sret", holder, frame[f], hartid[f])
      /\ FrameIs(f, "sret", frame[f])
  BY AtFacts, Zenon DEF Sret
<1>2. PICK m \in Open : frame[f] = Saved(f, m) /\ (f \in CPUs <=> m \in {"loop", "scan"})
  BY <1>1, Zenon DEF FrameIs
<1>3. frame[f].sepc = <<f, m>> /\ frame[f].spie
  BY <1>2 DEF Saved
<1>4. cpu[c].sepc[2] = m /\ cpu[c].spie
  <2>1. cpu[c].sepc = frame[f].sepc /\ cpu[c].spie = frame[f].spie
    BY <1>1, Zenon DEF CpuIs
  <2>2. cpu[c].sepc = <<f, m>>
    BY <1>3, <2>1, Zenon
  <2> QED
    BY <1>3, <2>1, <2>2
<1>5. /\ k \in CpuState /\ k.noff = cpu[c].noff /\ k.sie /\ (k.intena <=> cpu[c].intena)
      /\ k.cur = f /\ k.stvec = cpu[c].stvec /\ k.tp = cpu[c].tp
  BY <1>1, <1>4, ReturnedIs, Zenon
<1>6. /\ cpu' = [cpu EXCEPT ![c] = k] /\ loc' = [loc EXCEPT ![f] = m]
      /\ frame' = [frame EXCEPT ![f] = NoFrame]
  BY <1>4, Zenon DEF Sret, Go
<1> HIDE DEF k
<1>7. frame \in [Flows -> FrameState] /\ NoFrame \in FrameState
  BY Zenon DEF TInv, TypeOK, FrameState, NoFrame, Places
<1>8. Local(c, k, m)
  <2>1. m \in Locs /\ m # "boot" /\ m # "userinit" /\ (m \in SchedulerAt <=> m \in {"loop", "scan"})
    BY DEF Open, Locs, SchedulerAt, CallAt, ReturnAt
  <2> QED
    BY <1>2, <1>5, <1>6, <2>1, Zenon DEF Local
<1>9. FrameIs(f, m, frame'[f])
  BY <1>1, <1>2, <1>6, <1>7, Zenon DEF FrameIs, Open, Handlers
<1>10. CpuIs(c, k, m, holder', frame'[f], hartid'[f])
  BY <1>1, <1>5, Zenon DEF Sret, CpuIs, Open, TicksAt, DevAt, SpinAt
<1>11. Elsewhere(c)
  <2>1. /\ hartid \in [Threads -> CPUs \cup {None}]
        /\ holder \in [{"ticks", "dev"} -> CPUs \cup {None}]
    BY DEF TInv, TypeOK
  <2> QED
    BY <1>1, <1>6, <1>7, <2>1, Zenon DEF Sret, Elsewhere
<1> QED
  BY <1>8, <1>9, <1>10, <1>11, QuietStep, Zenon DEF Sret, Open, ClockAt

(* usertrapret() turns interrupts off before it changes anything.          *)
LEMMA IntrOffInv ==
  ASSUME TInv, NEW c \in CPUs, IntrOff(c)
  PROVE  TInv'
<1> DEFINE k == [cpu[c] EXCEPT !.sie = FALSE]
<1>1. PICK m \in {"uret", "forkret"} : At(c, m)
  BY DEF IntrOff
<1>2. /\ cpu[c] \in CpuState /\ cpu[c].cur = Cur(c)
      /\ CpuIs(c, cpu[c], m, holder, frame[Cur(c)], hartid[Cur(c)])
  BY <1>1, AtFacts, Zenon
<1>3. k \in CpuState
  BY <1>2, Assign, Zenon
<1>4. /\ k.cur = Cur(c) /\ k.stvec = cpu[c].stvec /\ k.noff = cpu[c].noff
      /\ ~k.sie /\ (k.intena <=> cpu[c].intena) /\ k.tp = cpu[c].tp
  BY <1>2 DEF CpuState
<1>5. cpu' = [cpu EXCEPT ![c] = k]
  BY DEF IntrOff
<1> HIDE DEF k
<1>6. Moves(c, m, "vector")
  BY DEF Moves, ReturnAt
<1>7. Local(c, k, "vector") /\ FrameIs(Cur(c), "vector", frame'[Cur(c)])
  BY <1>1, <1>3, <1>4, <1>5, <1>6, MoveStep, Zenon DEF IntrOff
<1>8. CpuIs(c, k, "vector", holder', frame'[Cur(c)], hartid'[Cur(c)])
  BY <1>2, <1>4, Zenon DEF IntrOff, CpuIs, Open, TicksAt, DevAt, SpinAt
<1>9. Elsewhere(c)
  BY NothingElsewhere DEF IntrOff
<1> QED
  BY <1>7, <1>8, <1>9, QuietStep, Zenon DEF IntrOff, ClockAt

(* usertrapret() leaves the number of this CPU in the trapframe.           *)
LEMMA VectorInv ==
  ASSUME TInv, NEW c \in CPUs, Vector(c)
  PROVE  TInv'
<1> DEFINE k == ToUser(cpu[c])
<1>1. /\ cpu[c] \in CpuState /\ cpu[c].cur = Cur(c) /\ Cur(c) \in Threads
      /\ CpuIs(c, cpu[c], "vector", holder, frame[Cur(c)], hartid[Cur(c)])
  BY AtFacts DEF Vector, SchedulerAt, Handlers
<1>2. /\ k \in CpuState /\ k.stvec = "uservec" /\ k.spp = "U" /\ k.spie
      /\ k.sepc = <<k.cur, "user">> /\ k.noff = cpu[c].noff /\ (k.sie <=> cpu[c].sie)
      /\ (k.intena <=> cpu[c].intena) /\ k.cur = Cur(c) /\ k.tp = cpu[c].tp
  BY <1>1, ToUserIs
<1>3. cpu' = [cpu EXCEPT ![c] = k]
  BY DEF Vector
<1> HIDE DEF k
<1>4. cpu[c].tp = c
  BY <1>1, Zenon DEF CpuIs
<1>5. /\ frame \in [Flows -> FrameState] /\ hartid \in [Threads -> CPUs \cup {None}]
      /\ holder \in [{"ticks", "dev"} -> CPUs \cup {None}]
  BY DEF TInv, TypeOK
<1>6. hartid' = [hartid EXCEPT ![Cur(c)] = c] /\ hartid'[Cur(c)] = c
  BY <1>1, <1>4, <1>5, Zenon DEF Vector
<1>7. Moves(c, "vector", "userret")
  BY DEF Moves, ReturnAt
<1>8. Local(c, k, "userret") /\ FrameIs(Cur(c), "userret", frame'[Cur(c)])
  BY <1>2, <1>3, <1>7, MoveStep, Zenon DEF Vector
<1>9. CpuIs(c, k, "userret", holder', frame'[Cur(c)], hartid'[Cur(c)])
  BY <1>1, <1>2, <1>6 DEF Vector, CpuIs, Open, TicksAt, DevAt, SpinAt
<1>10. Elsewhere(c)
  BY <1>1, <1>5, <1>6 DEF Vector, Elsewhere
<1> QED
  BY <1>8, <1>9, <1>10, QuietStep, Zenon DEF Vector, ClockAt

(* userret's sret turns interrupts on in user mode.                        *)
LEMMA UserretInv ==
  ASSUME TInv, NEW c \in CPUs, Userret(c)
  PROVE  TInv'
<1> DEFINE j == [cpu[c] EXCEPT !.tp = None]
           k == Returned(j)
<1>1. /\ cpu[c] \in CpuState /\ cpu[c].cur = Cur(c)
      /\ CpuIs(c, cpu[c], "userret", holder, frame[Cur(c)], hartid[Cur(c)])
  BY AtFacts, Zenon DEF Userret
<1>2. cpu[c].sepc = <<cpu[c].cur, "user">> /\ cpu[c].spie
  BY <1>1, Zenon DEF CpuIs
<1>3. j \in CpuState
  BY <1>1, Assign, Zenon
<1>4. /\ j.cur = Cur(c) /\ j.stvec = cpu[c].stvec /\ j.noff = cpu[c].noff
      /\ j.spie /\ (j.intena <=> cpu[c].intena)
  BY <1>1, <1>2, Zenon DEF CpuState
<1>5. cpu' = [cpu EXCEPT ![c] = k] /\ Go(c, "user")
  BY <1>2 DEF Userret
<1> HIDE DEF j
<1>6. /\ k \in CpuState /\ k.noff = cpu[c].noff /\ k.sie /\ (k.intena <=> cpu[c].intena)
      /\ k.cur = Cur(c) /\ k.stvec = cpu[c].stvec
  BY <1>3, <1>4, ReturnedIs, Zenon
<1> HIDE DEF k
<1>7. Moves(c, "userret", "user")
  BY DEF Moves, ReturnAt
<1>8. Local(c, k, "user") /\ FrameIs(Cur(c), "user", frame'[Cur(c)])
  BY <1>5, <1>6, <1>7, MoveStep, Zenon DEF Userret
<1>9. CpuIs(c, k, "user", holder', frame'[Cur(c)], hartid'[Cur(c)])
  BY <1>1, <1>6, Zenon DEF Userret, CpuIs, Open, TicksAt, DevAt, SpinAt
<1>10. Elsewhere(c)
  BY NothingElsewhere DEF Userret
<1> QED
  BY <1>8, <1>9, <1>10, QuietStep, Zenon DEF Userret, ClockAt

(* A step that makes a process runnable.                                   *)
LEMMA ReadyStep ==
  ASSUME TInv, NEW c \in CPUs, NEW m, NEW l, At(c, m), Go(c, l),
         \/ m = "userinit" /\ l = "loop"
         \/ m = "sys" /\ l = "uret",
         NEW t \in Threads, st[t] # "RUNNING", st' = [st EXCEPT ![t] = "RUNNABLE"],
         cpu' = cpu, frame' = frame, hartid' = hartid, holder' = holder,
         intena' = intena, ticks' = ticks, nap' = nap
  PROVE  TInv'
<1>1. Moves(c, m, l)
  BY Zenon DEF Moves, SchedulerAt, CallAt, ReturnAt
<1>2. /\ Local(c, cpu[c], l) /\ Elsewhere(c)
      /\ CpuIs(c, cpu[c], l, holder', frame'[Cur(c)], hartid'[Cur(c)])
      /\ FrameIs(Cur(c), l, frame'[Cur(c)])
  BY <1>1, GoStep, Zenon
<1>3. /\ st' \in [Threads -> {"UNUSED", "RUNNABLE", "RUNNING", "SLEEPING"}]
      /\ ticks' \in 0 .. TickMod - 1 /\ nap' \in [Threads -> NapState]
      /\ \A u \in Threads : st'[u] = st[u] \/ (st[u] # "RUNNING" /\ st'[u] = "RUNNABLE")
  BY Zenon DEF TInv, TypeOK
<1>4. TypeOK'
  BY <1>2, <1>3, LocalType, Zenon
<1>5. FrameInv' /\ CpuInv'
  BY <1>2, LocalStep, Zenon
<1>6. loc'[0] \notin {"boot", "userinit"}
  <2>1. /\ m \in SchedulerAt => Cur(c) = c
        /\ m \notin SchedulerAt \cup Handlers => Cur(c) \in Threads /\ Cur(c) \notin CPUs
        /\ m = loc[Cur(c)]
    BY AtFacts, Zenon
  <2>2. loc'[Cur(c)] = l /\ \A g \in Flows \ {Cur(c)} : loc'[g] = loc[g]
    BY <1>2, Here
  <2>3. 0 \in CPUs /\ 0 \in Flows
    BY TrapAssumption DEF CPUs, Flows
  <2>4. CASE m = "userinit"
    BY <2>1, <2>2, <2>4, Zenon DEF TInv, WhoInv, SchedulerAt
  <2>5. CASE m = "sys"
    <3>1. Cur(c) \in Threads /\ Cur(c) # 0 /\ st[Cur(c)] = "RUNNING"
      BY <2>1, <2>3, <2>5, Zenon DEF TInv, WhoInv, SchedulerAt, Handlers
    <3> QED
      BY <2>2, <2>3, <3>1, Zenon DEF TInv, WhoInv
  <2> QED
    BY <2>4, <2>5
<1>7. WhoInv'
  BY <1>2, <1>3, <1>6, LocalWho, Zenon
<1>8. \A u \in Threads : st'[u] = "SLEEPING" => st[u] = "SLEEPING"
  BY <1>3, Zenon
<1>9. TimeInv'
  BY <1>2, <1>8, LocalTime, Zenon DEF ClockAt
<1> QED
  BY <1>4, <1>5, <1>7, <1>9 DEF TInv

(* userinit() makes the first process.                                     *)
LEMMA UserinitInv ==
  ASSUME TInv, NEW c \in CPUs, Userinit(c)
  PROVE  TInv'
<1>1. PICK t \in Threads : st' = [st EXCEPT ![t] = "RUNNABLE"]
  BY Zenon DEF Userinit
<1>2. loc[c] = "userinit"
  BY AtFacts, Zenon DEF Userinit, SchedulerAt
<1>3. st[t] = "UNUSED"
  BY <1>2 DEF TInv, WhoInv
<1> QED
  BY <1>1, <1>3, ReadyStep, Zenon DEF Userinit

(* fork() makes a process from an unused one.                              *)
LEMMA ForkCallInv ==
  ASSUME TInv, NEW c \in CPUs, ForkCall(c)
  PROVE  TInv'
<1>1. PICK t \in Threads : st[t] = "UNUSED" /\ st' = [st EXCEPT ![t] = "RUNNABLE"]
  BY Zenon DEF ForkCall
<1> QED
  BY <1>1, ReadyStep, Zenon DEF ForkCall

(* Whoever is past the first check of sys_sleep() has its ticks0.          *)
Begun(v, l) == v.seen = 0 /\ IF v.ticks0 = None THEN l # "check" ELSE v.ticks0 = ticks

(* A step of sys_sleep() that changes what its caller waits for.           *)
LEMMA NapStep ==
  ASSUME TInv, NEW c \in CPUs, NEW k, NEW l, Local(c, k, l), Elsewhere(c),
         CpuIs(c, k, l, holder', frame'[Cur(c)], hartid'[Cur(c)]),
         FrameIs(Cur(c), l, frame'[Cur(c)]),
         intena' = intena, st' = st, ticks' = ticks, Cur(c) \in Threads, l \notin ClockAt,
         NEW v \in NapState, nap' = [nap EXCEPT ![Cur(c)] = v], Begun(v, l)
  PROVE  TInv'
<1>0. TypeOK /\ WhoInv /\ TimeInv
  BY Zenon DEF TInv
<1>1. TypeOK'
  <2>1. /\ st' \in [Threads -> {"UNUSED", "RUNNABLE", "RUNNING", "SLEEPING"}]
        /\ ticks' \in 0 .. TickMod - 1 /\ nap' \in [Threads -> NapState]
    BY <1>0, Zenon DEF TypeOK
  <2> QED
    BY <2>1, LocalType, Zenon
<1>2. WhoInv'
  <2>1. \A t \in Threads : st'[t] = st[t] \/ (st[t] # "RUNNING" /\ st'[t] = "RUNNABLE")
    BY Zenon
  <2> QED
    BY <2>1, LocalWho, Zenon
<1>3. FrameInv' /\ CpuInv'
  BY LocalStep, Zenon
<1>4. TimeInv'
  <2>1. /\ nap'[Cur(c)] = v
        /\ \A t \in Threads \ {Cur(c)} : nap'[t] = nap[t]
    BY <1>0, Zenon DEF TypeOK
  <2>2. /\ loc'[Cur(c)] = l
        /\ \A d \in CPUs : Cur(d)' = Cur(d)
        /\ \A g \in Flows \ {Cur(c)} : loc'[g] = loc[g]
    BY Here
  <2>3. ASSUME NEW t \in Threads
        PROVE  IF nap'[t].ticks0 = None THEN nap'[t].seen = 0 /\ loc'[t] # "check"
               ELSE nap'[t].seen < TickMod /\ (ticks' - nap'[t].ticks0) % TickMod = nap'[t].seen
    <3>1. CASE t = Cur(c)
      <4>1. ticks \in 0 .. TickMod - 1 /\ TickMod \in Nat \ {0}
        BY <1>0, TrapAssumption, Zenon DEF TypeOK
      <4>2. (ticks - ticks) % TickMod = 0
        BY <4>1, UintDifference
      <4> QED
        BY <2>1, <2>2, <3>1, <4>1, <4>2 DEF Begun
    <3>2. CASE t # Cur(c)
      BY <1>0, <2>1, <2>2, <3>2, Zenon DEF TimeInv, Elapsed, Flows
    <3> QED
      BY <3>1, <3>2, Zenon
  <2>4. \A t \in Threads : st'[t] = "SLEEPING" => nap'[t].ticks0 # None /\ nap'[t].seen < nap'[t].n
    <3>1. st[Cur(c)] = "RUNNING"
      BY <1>0, Zenon DEF WhoInv
    <3> QED
      BY <1>0, <2>1, <3>1, Zenon DEF TimeInv
  <2>5. loc'[Cur(0)] \in ClockAt => \A t \in Threads : nap'[t].seen < TickMod - 1
    <3>1. 0 \in CPUs /\ Cur(0) \in Flows
      BY TrapAssumption, CurFacts DEF CPUs
    <3>2. loc'[Cur(0)] \in ClockAt => \A t \in Threads : nap[t].seen < TickMod - 1
      BY <1>0, <2>2, <3>1, Zenon DEF TimeInv, ClockMayTick
    <3>3. nap[Cur(c)].seen \in Nat /\ TickMod \in Nat
      BY <1>0, TrapAssumption, Zenon DEF TypeOK, NapState
    <3> QED
      BY <2>1, <3>2, <3>3 DEF Begun
  <2>6. Cur(0)' = Cur(0)
    BY <2>2, TrapAssumption DEF CPUs
  <2> QED
    BY <2>3, <2>4, <2>5, <2>6, Zenon DEF TimeInv, Elapsed, ClockMayTick
<1> QED
  BY <1>1, <1>2, <1>3, <1>4, Zenon DEF TInv

(* sys_sleep() begins.                                                     *)
LEMMA SleepCallInv ==
  ASSUME TInv, NEW c \in CPUs, NEW n \in Naps, SleepCall(c, n)
  PROVE  TInv'
<1> DEFINE v == [Awake EXCEPT !.n = n]
<1>1. /\ Local(c, PushOff(cpu[c]), "sleep_spin") /\ Elsewhere(c)
      /\ CpuIs(c, PushOff(cpu[c]), "sleep_spin", holder', frame'[Cur(c)], hartid'[Cur(c)])
      /\ FrameIs(Cur(c), "sleep_spin", frame'[Cur(c)])
  BY AcquireStep DEF SleepCall
<1>2. v \in NapState /\ Begun(v, "sleep_spin")
  BY TrapAssumption DEF Awake, NapState, Begun
<1>3. Cur(c) \in Threads
  BY AtFacts DEF SleepCall, SchedulerAt, Handlers
<1>4. nap' = [nap EXCEPT ![Cur(c)] = v]
  BY DEF SleepCall
<1> HIDE DEF v
<1> QED
  BY <1>1, <1>2, <1>3, <1>4, NapStep, Zenon DEF SleepCall, ClockAt

(* sys_sleep() returns.                                                    *)
LEMMA SleepDoneInv ==
  ASSUME TInv, NEW c \in CPUs, SleepDone(c)
  PROVE  TInv'
<1>1. /\ Local(c, PopOff(cpu[c]), "uret") /\ Elsewhere(c)
      /\ CpuIs(c, PopOff(cpu[c]), "uret", holder', frame'[Cur(c)], hartid'[Cur(c)])
      /\ FrameIs(Cur(c), "uret", frame'[Cur(c)])
  BY ReleaseStep, Zenon DEF SleepDone, TicksAt
<1>2. Awake \in NapState /\ Begun(Awake, "uret")
  BY DEF Awake, NapState, Begun
<1>3. Cur(c) \in Threads
  BY AtFacts DEF SleepDone, SchedulerAt, Handlers
<1>4. intena' = intena /\ st' = st /\ ticks' = ticks /\ nap' = [nap EXCEPT ![Cur(c)] = Awake]
  BY DEF SleepDone
<1> QED
  BY <1>1, <1>2, <1>3, <1>4, NapStep, Zenon DEF ClockAt

(* A free lock is taken by the CPU that waits for it, with interrupts off. *)
LEMMA AcquiredInv ==
  ASSUME TInv, NEW c \in CPUs, Acquired(c)
  PROVE  TInv'
<1>1. PICK s \in DOMAIN Spins :
        /\ At(c, s)
        /\ holder[Spins[s][1]] = None
        /\ holder' = [holder EXCEPT ![Spins[s][1]] = c]
        /\ Go(c, Spins[s][2])
        /\ nap' = IF s = "sleep_spin" /\ nap[Cur(c)].ticks0 = None
                  THEN [nap EXCEPT ![Cur(c)].ticks0 = ticks] ELSE nap
        /\ UNCHANGED <<cpu, frame, hartid, intena, st, ticks, irq, started>>
  BY Zenon DEF Acquired
<1> DEFINE x == Spins[s][1]
           l == Spins[s][2]
<1>2. \/ s = "tick_spin" /\ x = "ticks" /\ l = "tick"
      \/ s = "sleep_spin" /\ x = "ticks" /\ l = "check"
      \/ s = "dev_spin" /\ x = "dev" /\ l = "dev"
      \/ s = "intr_spin" /\ x = "dev" /\ l = "intr"
  BY DEF Spins
<1>3. holder[x] = None /\ holder' = [holder EXCEPT ![x] = c] /\ Go(c, l) /\ cpu' = cpu
  BY <1>1, Zenon
<1> HIDE DEF x, l
<1>4. /\ cpu[c] \in CpuState /\ cpu[c].cur = Cur(c) /\ loc[Cur(c)] = s
      /\ CpuIs(c, cpu[c], s, holder, frame[Cur(c)], hartid[Cur(c)])
      /\ s \notin SchedulerAt \cup Handlers => Cur(c) \in Threads
  BY <1>1, AtFacts, Zenon
<1>5. Moves(c, s, l)
  BY <1>2 DEF Moves, Handlers, CallAt, ReturnAt
<1>6. cpu' = [cpu EXCEPT ![c] = cpu[c]]
  BY <1>3 DEF TInv, TypeOK
<1>7. Local(c, cpu[c], l) /\ FrameIs(Cur(c), l, frame'[Cur(c)])
  BY <1>1, <1>3, <1>4, <1>5, <1>6, MoveStep, Zenon
<1>8. /\ holder \in [{"ticks", "dev"} -> CPUs \cup {None}] /\ None \notin CPUs
      /\ frame \in [Flows -> FrameState] /\ hartid \in [Threads -> CPUs \cup {None}]
  BY CurFacts, Zenon DEF TInv, TypeOK, Flows
<1>9. Elsewhere(c)
  BY <1>1, <1>2, <1>3, <1>8 DEF Elsewhere
<1>10. CpuIs(c, cpu[c], l, holder', frame'[Cur(c)], hartid'[Cur(c)])
  BY <1>1, <1>2, <1>3, <1>4, <1>8, Zenon DEF CpuIs, Open, TicksAt, DevAt, SpinAt
<1>11. CASE s = "sleep_spin" /\ nap[Cur(c)].ticks0 = None
  <2> DEFINE v == [nap[Cur(c)] EXCEPT !.ticks0 = ticks]
  <2>1. Cur(c) \in Threads
    BY <1>4, <1>11 DEF SchedulerAt, Handlers
  <2>2. nap[Cur(c)] \in NapState /\ ticks \in 0 .. TickMod - 1 /\ nap[Cur(c)].seen = 0
    BY <1>11, <2>1, Zenon DEF TInv, TypeOK, TimeInv
  <2>3. v \in NapState /\ Begun(v, "check")
    BY <2>2, TrapAssumption DEF NapState, Begun
  <2>4. nap' = [nap EXCEPT ![Cur(c)] = v]
    BY <1>1, <1>11
  <2> HIDE DEF v
  <2>5. l = "check"
    BY <1>2, <1>11
  <2> QED
    BY <1>1, <1>7, <1>9, <1>10, <2>1, <2>3, <2>4, <2>5, NapStep, Zenon DEF ClockAt
<1>12. CASE ~(s = "sleep_spin" /\ nap[Cur(c)].ticks0 = None)
  BY <1>1, <1>2, <1>4, <1>7, <1>9, <1>10, <1>12, QuietStep, Zenon DEF ClockAt
<1> QED
  BY <1>11, <1>12

(* A tick later, ticks - ticks0 is one more.                               *)
LEMMA TickCounted ==
  ASSUME NEW M \in Nat \ {0}, NEW x \in 0 .. M - 1, NEW y \in 0 .. M - 1,
         NEW s \in Nat, (x - y) % M = s, s < M - 1
  PROVE  (x + 1) % M \in 0 .. M - 1 /\ (((x + 1) % M) - y) % M = s + 1
<1>1. s = IF y <= x THEN x - y ELSE x - y + M
  BY UintDifference
<1>2. CASE x + 1 = M
  <2>1. (x + 1) % M = 0
    BY <1>2, TickWraps
  <2>2. (0 - y) % M = IF y <= 0 THEN 0 - y ELSE 0 - y + M
    BY UintDifference
  <2> QED
    BY <1>1, <1>2, <2>1, <2>2
<1>3. CASE x + 1 # M
  <2>1. (x + 1) % M = x + 1 /\ x + 1 \in 0 .. M - 1
    BY <1>3, TickWraps
  <2>2. (x + 1 - y) % M = IF y <= x + 1 THEN x + 1 - y ELSE x + 1 - y + M
    BY <2>1, UintDifference
  <2> QED
    BY <1>1, <1>3, <2>1, <2>2
<1> QED
  BY <1>2, <1>3

(* clockintr() counts the tick for all sleepers and wakes them.            *)
LEMMA TickInv ==
  ASSUME TInv, NEW c \in CPUs, Tick(c)
  PROVE  TInv'
<1>0. TypeOK /\ WhoInv /\ TimeInv
  BY DEF TInv
<1>1. /\ Local(c, PopOff(cpu[c]), "yield") /\ Elsewhere(c)
      /\ CpuIs(c, PopOff(cpu[c]), "yield", holder', frame'[Cur(c)], hartid'[Cur(c)])
      /\ FrameIs(Cur(c), "yield", frame'[Cur(c)])
  BY ReleaseStep, Zenon DEF Tick, TicksAt
<1>2. c = 0 /\ loc[Cur(c)] = "tick"
  <2>1. loc[Cur(c)] = "tick" /\ CpuIs(c, cpu[c], "tick", holder, frame[Cur(c)], hartid[Cur(c)])
    BY AtFacts, Zenon DEF Tick
  <2> QED
    BY <2>1, Zenon DEF CpuIs
<1>3. /\ loc'[Cur(c)] = "yield" /\ Cur(c)' = Cur(c)
      /\ \A g \in Flows \ {Cur(c)} : loc'[g] = loc[g]
  BY <1>1, Here
<1>4. /\ TickMod \in Nat \ {0} /\ ticks \in 0 .. TickMod - 1
      /\ \A t \in Threads : nap[t].seen \in Nat /\ nap[t].seen < TickMod - 1
  BY <1>0, <1>2, TrapAssumption, Zenon DEF TypeOK, TimeInv, NapState, ClockAt, ClockMayTick
<1>5. ticks' \in 0 .. TickMod - 1
  BY <1>4, TickWraps DEF Tick
<1>6. ASSUME NEW t \in Threads
      PROVE  /\ nap'[t] \in NapState
             /\ nap[t].ticks0 = None => nap'[t] = nap[t]
             /\ nap[t].ticks0 # None => /\ nap'[t].ticks0 = nap[t].ticks0
                                        /\ nap'[t].seen = nap[t].seen + 1
  <2>1. nap[t] \in NapState
    BY <1>0 DEF TypeOK
  <2>2. nap'[t] = IF nap[t].ticks0 = None THEN nap[t] ELSE [nap[t] EXCEPT !.seen = @ + 1]
    BY DEF Tick
  <2> QED
    BY <2>1, <2>2 DEF NapState
<1>7. nap' \in [Threads -> NapState]
  BY <1>6, Zenon DEF Tick
<1>8. /\ st' \in [Threads -> {"UNUSED", "RUNNABLE", "RUNNING", "SLEEPING"}]
      /\ \A t \in Threads : st'[t] = st[t] \/ (st[t] # "RUNNING" /\ st'[t] = "RUNNABLE")
      /\ \A t \in Threads : st'[t] # "SLEEPING"
  BY <1>0, Zenon DEF TypeOK, Tick, Wakeup
<1>9. TypeOK'
  BY <1>1, <1>5, <1>7, <1>8, LocalType, Zenon DEF Tick
<1>10. FrameInv' /\ CpuInv'
  BY <1>1, LocalStep, Zenon
<1>11. WhoInv'
  <2>1. loc'[0] \notin {"boot", "userinit"}
    BY <1>0, <1>2, <1>3, Zenon DEF WhoInv, Flows
  <2> QED
    BY <1>1, <1>8, <2>1, LocalWho, Zenon DEF Tick
<1>12. ASSUME NEW t \in Threads
       PROVE  IF nap'[t].ticks0 = None THEN nap'[t].seen = 0 /\ loc'[t] # "check"
              ELSE nap'[t].seen < TickMod /\ (ticks' - nap'[t].ticks0) % TickMod = nap'[t].seen
  <2>1. loc'[t] = "check" => loc[t] = "check"
    BY <1>3 DEF Flows
  <2>2. CASE nap[t].ticks0 = None
    BY <1>0, <1>6, <2>1, <2>2, Zenon DEF TimeInv
  <2>3. CASE nap[t].ticks0 # None
    <3>1. nap[t].ticks0 \in 0 .. TickMod - 1 /\ (ticks - nap[t].ticks0) % TickMod = nap[t].seen
      BY <1>0, <2>3, Zenon DEF TypeOK, NapState, TimeInv, Elapsed
    <3>2. (((ticks + 1) % TickMod) - nap[t].ticks0) % TickMod = nap[t].seen + 1
      <4> DEFINE y == nap[t].ticks0
                 n == nap[t].seen
      <4>1. /\ TickMod \in Nat \ {0} /\ ticks \in 0 .. TickMod - 1 /\ y \in 0 .. TickMod - 1
            /\ n \in Nat /\ (ticks - y) % TickMod = n /\ n < TickMod - 1
        BY <1>4, <2>3, <3>1, Zenon
      <4> HIDE DEF y, n
      <4>2. (((ticks + 1) % TickMod) - y) % TickMod = n + 1
        BY ONLY <4>1, TickCounted, Zenon
      <4> QED
        BY <4>2, Zenon DEF y, n
    <3>3. ticks' = (ticks + 1) % TickMod
      BY DEF Tick
    <3> QED
      BY <1>4, <1>6, <2>3, <3>2, <3>3
  <2> QED
    BY <2>2, <2>3, Zenon
<1>13. TimeInv'
  BY <1>2, <1>3, <1>8, <1>12, Zenon DEF TimeInv, Elapsed, ClockAt
<1> QED
  BY <1>9, <1>10, <1>11, <1>13 DEF TInv

(* sched() puts intena back on whatever CPU the thread is now.             *)
LEMMA RestoredIs ==
  ASSUME NEW k \in CpuState, NEW t, intena[t] \in BOOLEAN
  PROVE  /\ Restored(k, t) \in CpuState
         /\ Restored(k, t).intena <=> IF loc[t] = "forkret" THEN k.intena ELSE intena[t]
         /\ Restored(k, t).noff = k.noff /\ (Restored(k, t).sie <=> k.sie)
         /\ Restored(k, t).cur = k.cur /\ Restored(k, t).stvec = k.stvec
         /\ Restored(k, t).tp = k.tp
<1>1. [k EXCEPT !.intena = intena[t]] \in CpuState
  BY Assign, Zenon
<1>2. CASE loc[t] = "forkret"
  BY <1>2 DEF Restored
<1>3. CASE loc[t] # "forkret"
  <2>1. Restored(k, t) = [k EXCEPT !.intena = intena[t]]
    BY <1>3 DEF Restored
  <2> QED
    BY <1>1, <1>3, <2>1 DEF CpuState
<1> QED
  BY <1>2, <1>3, Zenon

(* What a switch of c from flow f to flow g, which changes neither loc of  *)
(* g nor any lock of another CPU, leaves to do.                            *)
LEMMA SwitchStep ==
  ASSUME TInv, NEW c \in CPUs, NEW k \in CpuState, cpu' = [cpu EXCEPT ![c] = k],
         k.cur \in Flows, \A d \in CPUs \ {c} : Cur(d) # k.cur,
         \A g \in Flows \ {Cur(c)} : loc'[g] = loc[g],
         frame' = frame, hartid' = hartid,
         \A x \in {"ticks", "dev"}, d \in CPUs \ {c} : holder'[x] = d <=> holder[x] = d,
         CpuIs(c, k, loc'[k.cur], holder', frame[k.cur], hartid[k.cur])
  PROVE  CpuInv'
<1>0. \A d \in CPUs \ {c} : Cur(d) # Cur(c)
  BY CurFacts, Zenon
<1>1. /\ cpu'[c] = k /\ Cur(c)' = k.cur
      /\ \A d \in CPUs \ {c} : cpu'[d] = cpu[d] /\ Cur(d)' = Cur(d)
  BY DEF TInv, TypeOK, Cur
<1>2. ASSUME NEW d \in CPUs
      PROVE CpuIs(d, cpu'[d], loc'[Cur(d)'], holder', frame'[Cur(d)'], hartid'[Cur(d)'])
  <2>1. CASE d = c
    BY <2>1, <1>1
  <2>2. CASE d # c
    <3>1. /\ Cur(d) \in Flows \ {Cur(c)}
          /\ CpuIs(d, cpu[d], loc[Cur(d)], holder, frame[Cur(d)], hartid[Cur(d)])
      BY <1>0, <2>2, CurFacts, Zenon DEF TInv, CpuInv
    <3>2. loc'[Cur(d)] = loc[Cur(d)]
      BY <3>1, Zenon
    <3>3. /\ holder'["ticks"] = d <=> holder["ticks"] = d
          /\ holder'["dev"] = d <=> holder["dev"] = d
      BY <2>2, Zenon
    <3>4. CpuIs(d, cpu[d], loc[Cur(d)], holder', frame[Cur(d)], hartid[Cur(d)])
      BY <3>1, <3>3, CpuIsSame, Zenon
    <3> QED
      BY <1>1, <2>2, <3>2, <3>4, Zenon
  <2> QED
    BY <2>1, <2>2, Zenon
<1> QED
  BY <1>2, Zenon DEF CpuInv

(* The scheduler switches to a runnable thread.                            *)
LEMMA SwitchInInv ==
  ASSUME TInv, NEW c \in CPUs, NEW t \in Threads, SwitchIn(c, t)
  PROVE  TInv'
<1> DEFINE a == PushOff(cpu[c])
           b == Restored(a, t)
           e == PopOff(b)
           k == Swtch(e, t)
<1>0. TypeOK /\ WhoInv /\ FrameInv /\ CpuInv /\ TimeInv
  BY DEF TInv
<1>1. /\ cpu[c] \in CpuState /\ cpu[c].cur = Cur(c) /\ Cur(c) = c /\ loc[c] = "scan"
      /\ CpuIs(c, cpu[c], "scan", holder, frame[Cur(c)], hartid[Cur(c)])
  BY AtFacts, Zenon DEF SwitchIn, SchedulerAt
<1>2. /\ loc[t] \in {"forkret", "woken", "uret", "restore"} /\ st[t] = "RUNNABLE"
      /\ loc[t] # "forkret" => (intena[t] <=> loc[t] = "woken")
      /\ \A d \in CPUs : Cur(d) # t
  BY <1>0, Zenon DEF SwitchIn, WhoInv, Rests
<1>3. cpu[c].noff = 0 /\ cpu[c].stvec = "kernelvec" /\ cpu[c].tp = c
  BY <1>1, Zenon DEF CpuIs, TicksAt, DevAt, SpinAt
<1>4. /\ a \in CpuState /\ a.noff = 1 /\ ~a.sie /\ (a.intena <=> cpu[c].sie)
      /\ a.stvec = "kernelvec" /\ a.tp = c
  BY <1>1, <1>3, PushOffIs
<1>5. cpu' = [cpu EXCEPT ![c] = k]
  BY DEF SwitchIn
<1> HIDE DEF a
<1>6. /\ b \in CpuState /\ b.noff = 1 /\ b.stvec = "kernelvec" /\ b.tp = c
      /\ loc[t] = "woken" => b.intena
      /\ loc[t] = "restore" => ~b.intena
  <2>1. intena[t] \in BOOLEAN
    BY <1>0, Zenon DEF TypeOK
  <2> QED
    BY <1>2, <1>4, <2>1, RestoredIs
<1> HIDE DEF b
<1>7. /\ e \in CpuState /\ e.noff = 0 /\ e.stvec = "kernelvec" /\ e.tp = c /\ ~e.intena
      /\ loc[t] = "woken" => e.sie
      /\ loc[t] = "restore" => ~e.sie
  BY <1>6, PopOffIs
<1> HIDE DEF e
<1>8. /\ k \in CpuState /\ k.noff = 0 /\ k.stvec = "kernelvec" /\ k.tp = c /\ ~k.intena
      /\ loc[t] = "woken" => k.sie
      /\ loc[t] = "restore" => ~k.sie
      /\ k.cur = t
  BY <1>7, SwtchIs DEF Flows
<1> HIDE DEF k
<1>9. CpuInv'
  <2>1. CpuIs(c, k, loc[t], holder, frame[t], hartid[t])
    BY <1>1, <1>2, <1>8, Zenon DEF CpuIs, Open, TicksAt, DevAt, SpinAt
  <2>2. loc' = loc /\ frame' = frame /\ hartid' = hartid /\ holder' = holder
    BY DEF SwitchIn
  <2> QED
    BY <1>2, <1>5, <1>8, <2>1, <2>2, SwitchStep, Zenon DEF Flows
<1>10. \A d \in CPUs : Cur(d)' = IF d = c THEN t ELSE Cur(d)
  BY <1>0, <1>5, <1>8, Zenon DEF TypeOK, Cur
<1>11. /\ \A u \in Threads : st'[u] = IF u = t THEN "RUNNING" ELSE st[u]
       /\ \A u \in Threads \ {t} : intena'[u] = intena[u]
  BY <1>0, Zenon DEF TypeOK, SwitchIn
<1>12. TypeOK'
  BY <1>0, <1>5, <1>8 DEF TypeOK, SwitchIn
<1>13. FrameInv'
  BY <1>0, Zenon DEF FrameInv, FrameIs, SwitchIn
<1>14. WhoInv'
  <2>1. ASSUME NEW d \in CPUs
        PROVE  /\ Cur(d)' \in {d} \cup Threads
               /\ Cur(d)' # d => loc[d] = "scan"
               /\ loc[d] \in SchedulerAt \cup Handlers
               /\ loc[d] = "userinit" => d = 0
               /\ \A i \in CPUs : Cur(d)' = Cur(i)' => d = i
    <3>1. /\ Cur(d) \in {d} \cup Threads /\ (Cur(d) # d => loc[d] = "scan")
          /\ loc[d] \in SchedulerAt \cup Handlers /\ (loc[d] = "userinit" => d = 0)
          /\ \A i \in CPUs : Cur(d) = Cur(i) => d = i
      BY <1>0, Zenon DEF WhoInv
    <3> QED
      BY <1>1, <1>2, <1>10, <3>1, Zenon
  <2>2. ASSUME NEW u \in Threads
        PROVE  st'[u] = "RUNNING" <=> \E d \in CPUs : Cur(d)' = u
    <3>1. u # c
      BY CurFacts
    <3>2. CASE u = t
      BY <1>10, <1>11, <3>2, Zenon
    <3>3. CASE u # t
      <4>1. st'[u] = st[u] /\ (st[u] = "RUNNING" <=> \E d \in CPUs : Cur(d) = u)
        BY <1>0, <1>11, <3>3, Zenon DEF WhoInv
      <4>2. \A d \in CPUs : Cur(d)' = u <=> Cur(d) = u
        BY <1>1, <1>2, <1>10, <3>1, <3>3, Zenon
      <4> QED
        BY <4>1, <4>2, Zenon
    <3> QED
      BY <3>2, <3>3, Zenon
  <2>3. loc[0] \notin {"boot", "userinit"}
    BY <1>0, <1>2, Zenon DEF WhoInv
  <2>4. loc' = loc
    BY DEF SwitchIn
  <2>5. ASSUME NEW u \in Threads PROVE Rests(loc[u], st'[u], intena'[u])
    <3>1. Rests(loc[u], st[u], intena[u])
      BY <1>0, Zenon DEF WhoInv
    <3>2. CASE u = t
      BY <1>11, <3>1, <3>2, Zenon DEF Rests
    <3>3. CASE u # t
      BY <1>11, <3>1, <3>3, Zenon
    <3> QED
      BY <3>2, <3>3, Zenon
  <2> QED
    BY <2>1, <2>2, <2>3, <2>4, <2>5, Zenon DEF WhoInv
<1>15. TimeInv'
  <2>1. 0 \in CPUs
    BY TrapAssumption DEF CPUs
  <2>2. loc[Cur(0)'] \in ClockAt => ClockMayTick
    BY <1>0, <1>2, <1>10, <2>1, Zenon DEF TimeInv, ClockAt
  <2> QED
    BY <1>0, <1>11, <2>2 DEF TimeInv, SwitchIn, Elapsed, ClockMayTick
<1> QED
  BY <1>9, <1>12, <1>13, <1>14, <1>15 DEF TInv

(* sched(): the thread leaves the CPU to its scheduler, with its place and *)
(* its intena kept.                                                        *)
LEMMA OutStep ==
  ASSUME TInv, NEW c \in CPUs, Cur(c) \in Threads, NEW k \in CpuState, k.noff = 1,
         k.stvec = "kernelvec", k.tp = c,
         NEW state, NEW l, SwitchOut(c, k, state, l),
         \/ state = "RUNNABLE" /\ l \in {"uret", "restore"} /\ ~k.intena
         \/ state = "SLEEPING" /\ l = "woken" /\ k.intena,
         state = "SLEEPING" => nap[Cur(c)].ticks0 # None /\ nap[Cur(c)].seen < nap[Cur(c)].n,
         FrameIs(Cur(c), l, frame[Cur(c)]), Elsewhere(c),
         holder'["ticks"] # c, holder'["dev"] # c,
         frame' = frame, hartid' = hartid, ticks' = ticks, nap' = nap
  PROVE  TInv'
<1> DEFINE t == Cur(c)
           e == PopOff(k)
           j == Swtch(e, c)
<1>0. TypeOK /\ WhoInv /\ FrameInv /\ CpuInv /\ TimeInv
  BY Zenon DEF TInv
<1>1. /\ t \in Flows /\ c \in Flows /\ t # c /\ loc[c] = "scan" /\ st[t] = "RUNNING"
      /\ \A d \in CPUs \ {c} : Cur(d) # t /\ Cur(d) # c
  <2>1. t \in Flows /\ c \in Flows /\ t # c
    BY CurFacts, Zenon DEF Flows
  <2>2. loc[c] = "scan" /\ st[t] = "RUNNING"
    BY <1>0, <2>1, Zenon DEF WhoInv
  <2>3. ASSUME NEW d \in CPUs \ {c} PROVE Cur(d) # t /\ Cur(d) # c
    <3>1. Cur(d) \in {d} \cup Threads /\ Cur(d) # t
      BY <1>0, Zenon DEF WhoInv
    <3> QED
      BY <3>1, CurFacts, Zenon
  <2> QED
    BY <2>1, <2>2, <2>3, Zenon
<1>2. e \in CpuState /\ e.noff = 0 /\ ~e.intena /\ e.stvec = "kernelvec" /\ e.tp = c
  BY PopOffIs
<1>3. /\ cpu' = [cpu EXCEPT ![c] = j] /\ loc' = [loc EXCEPT ![t] = l]
      /\ st' = [st EXCEPT ![t] = state] /\ intena' = [intena EXCEPT ![t] = k.intena]
  BY Zenon DEF SwitchOut
<1> HIDE DEF e
<1>4. /\ j \in CpuState /\ j.noff = 0 /\ ~j.intena /\ j.stvec = "kernelvec" /\ j.tp = c
      /\ j.cur = c
  BY <1>1, <1>2, SwtchIs
<1> HIDE DEF j
<1>5. \A g \in Flows : loc'[g] = IF g = t THEN l ELSE loc[g]
  BY <1>0, <1>3, Zenon DEF TypeOK
<1>6. CpuInv'
  <2>1. CpuIs(c, j, "scan", holder', frame[c], hartid[c])
    BY <1>4, Zenon DEF CpuIs, Open, TicksAt, DevAt, SpinAt
  <2>2. CpuIs(c, j, loc'[j.cur], holder', frame[j.cur], hartid[j.cur])
    <3>1. loc'[j.cur] = "scan" /\ j.cur = c
      BY <1>1, <1>4, <1>5, Zenon
    <3> QED
      BY <2>1, <3>1, Zenon
  <2>3. /\ \A g \in Flows \ {Cur(c)} : loc'[g] = loc[g]
        /\ j.cur \in Flows /\ \A d \in CPUs \ {c} : Cur(d) # j.cur
    BY <1>1, <1>4, <1>5, Zenon
  <2>4. \A x \in {"ticks", "dev"}, d \in CPUs \ {c} : holder'[x] = d <=> holder[x] = d
    BY Zenon DEF Elsewhere
  <2> QED
    BY <1>3, <1>4, <2>2, <2>3, <2>4, SwitchStep, Zenon
<1>7. \A d \in CPUs : Cur(d)' = IF d = c THEN c ELSE Cur(d)
  BY <1>0, <1>3, <1>4, Zenon DEF TypeOK, Cur
<1>8. \A u \in Threads : /\ st'[u] = IF u = t THEN state ELSE st[u]
                         /\ u # t => intena'[u] = intena[u]
                         /\ u = t => intena'[u] = k.intena
  BY <1>0, <1>3, Zenon DEF TypeOK
<1>9. TypeOK'
  <2>1. l \in Locs /\ k.intena \in BOOLEAN
        /\ state \in {"UNUSED", "RUNNABLE", "RUNNING", "SLEEPING"}
    BY Zenon DEF CpuState, Locs, ReturnAt, CallAt, Handlers
  <2> QED
    BY <1>0, <1>3, <1>4, <2>1, Zenon DEF TypeOK, Elsewhere
<1>10. FrameInv'
  BY <1>0, <1>5 DEF FrameInv, FrameIs
<1>11. WhoInv'
  <2>1. ASSUME NEW d \in CPUs
        PROVE  /\ Cur(d)' \in {d} \cup Threads
               /\ Cur(d)' # d => loc'[d] = "scan"
               /\ loc'[d] \in SchedulerAt \cup Handlers
               /\ loc'[d] = "userinit" => d = 0
               /\ \A i \in CPUs : Cur(d)' = Cur(i)' => d = i
    <3>1. d # t /\ d \in Flows
      BY CurFacts, Zenon DEF Flows
    <3>2. loc'[d] = loc[d]
      BY <1>5, <3>1, Zenon
    <3>3. /\ Cur(d) \in {d} \cup Threads /\ (Cur(d) # d => loc[d] = "scan")
          /\ loc[d] \in SchedulerAt \cup Handlers /\ (loc[d] = "userinit" => d = 0)
          /\ \A i \in CPUs : Cur(d) = Cur(i) => d = i
      BY <1>0, Zenon DEF WhoInv
    <3>4. CASE d = c
      BY ONLY <1>1, <1>7, <3>2, <3>3, <3>4, c \in CPUs, Zenon
    <3>5. CASE d # c
      BY ONLY <1>1, <1>7, <3>2, <3>3, <3>5, d \in CPUs, Zenon
    <3> QED
      BY <3>4, <3>5, Zenon
  <2>2. ASSUME NEW u \in Threads
        PROVE  /\ st'[u] = "RUNNING" <=> \E d \in CPUs : Cur(d)' = u
               /\ loc'[u] = IF u = t THEN l ELSE loc[u]
    <3>1. u # c /\ u \in Flows
      BY CurFacts, Zenon DEF Flows
    <3>2. loc'[u] = IF u = t THEN l ELSE loc[u]
      BY <1>5, <3>1, Zenon
    <3>3. CASE u = t
      <4>1. st'[u] # "RUNNING"
        BY <1>8, <3>3
      <4>2. \A d \in CPUs : Cur(d)' # u
        BY <1>1, <1>7, <3>3, Zenon
      <4> QED
        BY <3>2, <4>1, <4>2, Zenon
    <3>4. CASE u # t
      <4>1. st'[u] = st[u] /\ (st[u] = "RUNNING" <=> \E d \in CPUs : Cur(d) = u)
        BY <1>0, <1>8, <3>4, Zenon DEF WhoInv
      <4>2. \A d \in CPUs : Cur(d)' = u <=> Cur(d) = u
        BY <1>7, <3>1, <3>4, Zenon
      <4> QED
        BY <3>2, <4>1, <4>2, Zenon
    <3> QED
      BY <3>3, <3>4, Zenon
  <2>3. loc'[0] \notin {"boot", "userinit"}
    <3>1. 0 \in CPUs
      BY TrapAssumption DEF CPUs
    <3>2. st[t] # "UNUSED"
      BY <1>1
    <3>3. 0 # t /\ 0 \in Flows
      BY <3>1, CurFacts, Zenon DEF Flows
    <3> QED
      BY <1>0, <1>5, <3>2, <3>3, Zenon DEF WhoInv
  <2>4. ASSUME NEW u \in Threads PROVE Rests(loc'[u], st'[u], intena'[u])
    <3>1. CASE u = t
      <4>1. Rests(l, state, k.intena)
        BY DEF Rests, SchedulerAt
      <4> QED
        BY <1>8, <2>2, <3>1, <4>1, Zenon
    <3>2. CASE u # t
      <4>1. Rests(loc[u], st[u], intena[u])
        BY <1>0, Zenon DEF WhoInv
      <4> QED
        BY <1>8, <2>2, <3>2, <4>1, Zenon
    <3> QED
      BY <3>1, <3>2, Zenon
  <2> QED
    BY <2>1, <2>2, <2>3, <2>4, Zenon DEF WhoInv
<1>12. TimeInv'
  <2>1. 0 \in CPUs /\ Cur(0) \in Flows
    <3>1. 0 \in CPUs
      BY ONLY TrapAssumption DEF CPUs
    <3> QED
      BY <3>1, CurFacts, Zenon
  <2>2. loc'[Cur(0)'] \in ClockAt => ClockMayTick
    BY <1>0, <1>1, <1>5, <1>7, <2>1 DEF TimeInv, ClockAt
  <2>3. \A u \in Threads : loc'[u] = "check" => loc[u] = "check"
    BY <1>5, Zenon DEF Flows
  <2> QED
    BY <1>0, <1>8, <2>2, <2>3 DEF TimeInv, Elapsed, ClockMayTick
<1> QED
  BY <1>6, <1>9, <1>10, <1>11, <1>12, Zenon DEF TInv

(* After a timer interrupt.                                                *)
LEMMA YieldInv ==
  ASSUME TInv, NEW c \in CPUs, Yield(c)
  PROVE  TInv'
<1>1. /\ cpu[c] \in CpuState /\ Cur(c) \in Flows
      /\ CpuIs(c, cpu[c], "yield", holder, frame[Cur(c)], hartid[Cur(c)])
      /\ FrameIs(Cur(c), "yield", frame[Cur(c)])
      /\ Cur(c) \in Threads <=> Cur(c) \notin CPUs
      /\ frame[Cur(c)] = NoFrame => Cur(c) \in Threads
  BY AtFacts, Zenon DEF Yield, Handlers
<1>2. CASE Cur(c) \in Threads
  <2> DEFINE k == PushOff(cpu[c])
  <2>1. /\ cpu[c].noff = 0 /\ ~cpu[c].sie /\ cpu[c].stvec = "kernelvec" /\ cpu[c].tp = c
        /\ holder["ticks"] # c /\ holder["dev"] # c
    BY <1>1, Zenon DEF CpuIs, Open, TicksAt, DevAt, SpinAt
  <2>2. k \in CpuState /\ k.noff = 1 /\ ~k.intena /\ k.stvec = "kernelvec" /\ k.tp = c
    <3>1. /\ k \in CpuState /\ k.noff = cpu[c].noff + 1 /\ (k.intena <=> cpu[c].sie)
          /\ k.stvec = cpu[c].stvec /\ k.tp = cpu[c].tp
      BY <1>1, <2>1, PushOffIs, Zenon
    <3> HIDE DEF k
    <3> QED
      BY ONLY <2>1, <3>1
  <2>3. Handled(c) \in {"uret", "restore"} /\ FrameIs(Cur(c), Handled(c), frame[Cur(c)])
    BY <1>1, Zenon DEF Handled, FrameIs, Handlers
  <2>4. SwitchOut(c, k, "RUNNABLE", Handled(c))
    BY <1>2 DEF Yield
  <2> HIDE DEF k
  <2>5. Elsewhere(c)
    BY NothingElsewhere DEF Yield
  <2> QED
    BY <1>2, <2>1, <2>2, <2>3, <2>4, <2>5, OutStep, Zenon DEF Yield
<1>3. CASE Cur(c) \notin Threads
  <2>1. Moves(c, "yield", "restore")
    BY <1>1, <1>3, Zenon DEF Moves, Handlers
  <2>2. /\ Local(c, cpu[c], "restore") /\ Elsewhere(c)
        /\ CpuIs(c, cpu[c], "restore", holder', frame'[Cur(c)], hartid'[Cur(c)])
        /\ FrameIs(Cur(c), "restore", frame'[Cur(c)])
    BY <1>3, <2>1, GoStep, Zenon DEF Yield
  <2> QED
    BY <1>3, <2>2, QuietStep, Zenon DEF Yield, ClockAt
<1> QED
  BY <1>2, <1>3

(* sleep() in sys_sleep(): tickslock is released and the thread sleeps in  *)
(* one step for clockintr(), which wants that lock.                        *)
LEMMA NapInv ==
  ASSUME TInv, NEW c \in CPUs, Nap(c)
  PROVE  TInv'
<1> DEFINE a == PushOff(cpu[c])
           k == PopOff(a)
<1>1. /\ cpu[c] \in CpuState /\ Cur(c) \in Threads /\ loc[Cur(c)] = "check"
      /\ CpuIs(c, cpu[c], "check", holder, frame[Cur(c)], hartid[Cur(c)])
      /\ FrameIs(Cur(c), "check", frame[Cur(c)])
  <2>1. At(c, "check") /\ "check" \notin SchedulerAt \cup Handlers
    BY DEF Nap, SchedulerAt, Handlers
  <2> QED
    BY <2>1, AtFacts, Zenon
<1>2. /\ cpu[c].noff = 1 /\ cpu[c].intena /\ cpu[c].stvec = "kernelvec" /\ cpu[c].tp = c
      /\ holder["ticks"] = c /\ holder["dev"] # c
  BY <1>1, Zenon DEF CpuIs, Open, TicksAt, DevAt, SpinAt
<1>3. a \in CpuState /\ a.noff = 2 /\ a.intena /\ a.stvec = "kernelvec" /\ a.tp = c
  BY <1>1, <1>2, PushOffIs
<1>4. SwitchOut(c, k, "SLEEPING", "woken")
  BY DEF Nap
<1> HIDE DEF a
<1>5. k \in CpuState /\ k.noff = 1 /\ k.intena /\ k.stvec = "kernelvec" /\ k.tp = c
  BY <1>3, PopOffIs
<1> HIDE DEF k
<1>6. FrameIs(Cur(c), "woken", frame[Cur(c)])
  BY <1>1, Zenon DEF FrameIs, Handlers
<1>7. nap[Cur(c)].ticks0 # None /\ nap[Cur(c)].seen < nap[Cur(c)].n
  BY <1>1, Zenon DEF Nap, TInv, TimeInv
<1>8. /\ holder \in [{"ticks", "dev"} -> CPUs \cup {None}] /\ None \notin CPUs
      /\ frame \in [Flows -> FrameState] /\ hartid \in [Threads -> CPUs \cup {None}]
  BY CurFacts, Zenon DEF TInv, TypeOK, Flows
<1>9. Elsewhere(c) /\ holder'["ticks"] # c /\ holder'["dev"] # c
  BY <1>2, <1>8, Zenon DEF Nap, Elsewhere
<1> QED
  BY <1>1, <1>4, <1>5, <1>6, <1>7, <1>9, OutStep, Zenon DEF Nap

(* The boot state.                                                         *)
LEMMA InitInv ==
  ASSUME Init
  PROVE  TInv
<1>1. CPUs \cap Threads = {} /\ None \notin Flows /\ 0 \in CPUs /\ TickMod \in Nat \ {0}
  BY TrapAssumption DEF CPUs, Flows
<1>2. \A c \in CPUs : /\ cpu[c] \in CpuState /\ Cur(c) = c /\ cpu[c].noff = 0 /\ ~cpu[c].sie
                      /\ ~cpu[c].intena /\ cpu[c].tp = c /\ loc[c] = "boot"
  BY Zenon DEF Init, CpuState, Cur, Flows, Places
<1>3. \A t \in Threads : /\ loc[t] = "forkret" /\ st[t] = "UNUSED" /\ nap[t] = Awake
  BY <1>1, Zenon DEF Init, Flows
<1>4. TypeOK
  <2>1. NoFrame \in FrameState /\ Awake \in NapState
    BY DEF NoFrame, FrameState, Places, Awake, NapState
  <2>2. loc \in [Flows -> Locs]
    BY Zenon DEF Init, Locs, SchedulerAt, ReturnAt
  <2>3. cpu \in [CPUs -> CpuState]
    <3>1. cpu = [c \in CPUs |-> cpu[c]]
      BY Zenon DEF Init
    <3> QED
      BY <1>2, <3>1
  <2> QED
    BY <1>1, <1>2, <2>1, <2>2, <2>3
       DEF Init, TypeOK
<1>5. WhoInv
  BY <1>1, <1>2, <1>3 DEF WhoInv, Rests, SchedulerAt
<1>6. FrameInv
  BY Zenon DEF Init, FrameInv, FrameIs, Handlers
<1>7. CpuInv
  <2>1. ASSUME NEW c \in CPUs
        PROVE  CpuIs(c, cpu[c], "boot", holder, frame[c], hartid[c])
    BY <1>1, <1>2, Zenon DEF Init, CpuIs, Open, TicksAt, DevAt, SpinAt, Flows
  <2> QED
    BY <1>2, <2>1 DEF CpuInv
<1>8. TimeInv
  <2>1. Awake.ticks0 = None /\ Awake.seen = 0
    BY DEF Awake
  <2> QED
    BY <1>1, <1>2, <1>3, <2>1 DEF TimeInv, ClockAt
<1> QED
  BY <1>4, <1>5, <1>6, <1>7, <1>8 DEF TInv

(* A request of a device changes nothing of this.                          *)
LEMMA OtherStep ==
  ASSUME TInv, UNCHANGED <<cpu, loc, frame, hartid, intena, st, holder, ticks, nap>>
  PROVE  TInv'
<1>0. TypeOK /\ WhoInv /\ FrameInv /\ CpuInv /\ TimeInv
  BY DEF TInv
<1>1. TypeOK' /\ FrameInv'
  BY <1>0, Zenon DEF TypeOK, FrameInv, FrameIs
<1>2. \A c \in CPUs : Cur(c)' = Cur(c)
  BY DEF Cur
<1>3. WhoInv'
  BY <1>0, <1>2 DEF WhoInv
<1>4. CpuInv'
  BY <1>0, <1>2, Zenon DEF CpuInv
<1>5. TimeInv'
  <2>1. Cur(0)' = Cur(0)
    BY DEF Cur
  <2> QED
    BY <1>0, <2>1, Zenon DEF TimeInv, Elapsed, ClockMayTick
<1> QED
  BY <1>1, <1>3, <1>4, <1>5 DEF TInv

(* Traps, locks and time keep TInv, on any number of CPUs, for any number  *)
(* of threads and any width of ticks.                                      *)
THEOREM Invariance == Spec => []TInv
<1>1. Init => TInv
  BY InitInv
<1>2. TInv /\ [Next]_vars => TInv'
  <2> SUFFICES ASSUME TInv, [Next]_vars PROVE TInv'
    OBVIOUS
  <2>1. CASE Device
    BY <2>1, OtherStep DEF Device
  <2>2. CASE UNCHANGED vars
    BY <2>2, OtherStep DEF vars
  <2>3. ASSUME NEW c \in CPUs,
               \/ Boot(c) \/ Userinit(c) \/ Scheduler(c) \/ Acquired(c)
               \/ Clock(c) \/ Tick(c) \/ Yield(c) \/ Claim(c) \/ Intr(c)
               \/ Restore(c) \/ Sret(c) \/ IntrOff(c) \/ Vector(c) \/ Userret(c)
               \/ ForkCall(c) \/ DevCall(c) \/ DevDone(c) \/ Nap(c) \/ Woken(c) \/ SleepDone(c)
        PROVE  TInv'
    BY <2>3, BootInv, UserinitInv, SchedulerInv, AcquiredInv, ClockInv, TickInv, YieldInv,
       ClaimInv, IntrInv, RestoreInv, SretInv, IntrOffInv, VectorInv, UserretInv, ForkCallInv,
       DevCallInv, DevDoneInv, NapInv, WokenInv, SleepDoneInv, Zenon
  <2>4. ASSUME NEW c \in CPUs,
               \/ \E n \in Naps : SleepCall(c, n)
               \/ \E t \in Threads : SwitchIn(c, t)
               \/ \E why \in Causes \cup {"sys"} : UserTrap(c, why)
               \/ \E why \in Causes : KernelTrap(c, why)
        PROVE  TInv'
    BY <2>4, SleepCallInv, SwitchInInv, UserTrapInv, KernelTrapInv
  <2> QED
    BY <2>1, <2>2, <2>3, <2>4, Zenon DEF Next
<1> QED
  BY <1>1, <1>2, PTL DEF Spec

(* A trap never goes astray: stvec suits the mode, the trapframe names the *)
(* CPU, and sret goes back to where the interrupt came.                    *)
THEOREM TrapsHome == Spec => []TrapsComeHome
<1>1. TInv => TrapsComeHome
  <2> SUFFICES ASSUME TInv, NEW c \in CPUs
               PROVE  /\ At(c, "user") => cpu[c].stvec = "uservec" /\ hartid[cpu[c].cur] = c
                      /\ ~At(c, "user") => cpu[c].tp = c /\ (cpu[c].sie => cpu[c].stvec = "kernelvec")
                      /\ At(c, "sret") =>
                           /\ cpu[c].sepc = <<cpu[c].cur, frame[cpu[c].cur].at>>
                           /\ cpu[c].spie /\ cpu[c].spp = "S"
                           /\ frame[cpu[c].cur].at \notin Handlers
                      /\ At(c, "userret") => cpu[c].sepc = <<cpu[c].cur, "user">> /\ cpu[c].spp = "U"
    BY Zenon DEF TrapsComeHome
  <2>1. /\ cpu[c].cur = Cur(c) /\ \A l : At(c, l) <=> loc[Cur(c)] = l
        /\ CpuIs(c, cpu[c], loc[Cur(c)], holder, frame[Cur(c)], hartid[Cur(c)])
        /\ FrameIs(Cur(c), loc[Cur(c)], frame[Cur(c)])
    BY CurFacts, Zenon DEF TInv, CpuInv, FrameInv, At, Cur
  <2>2. ASSUME loc[Cur(c)] = "sret"
        PROVE  /\ frame[Cur(c)].sepc = <<Cur(c), frame[Cur(c)].at>>
               /\ frame[Cur(c)].spie = TRUE /\ frame[Cur(c)].spp = "S"
               /\ frame[Cur(c)].at \notin Handlers
    <3>1. PICK m \in Open : frame[Cur(c)] = Saved(Cur(c), m)
      BY <2>1, <2>2, Zenon DEF FrameIs
    <3>2. m \notin Handlers
      BY ONLY m \in Open DEF Open, Handlers
    <3> QED
      BY ONLY <3>1, <3>2 DEF Saved
  <2> QED
    BY <2>1, <2>2, Zenon DEF CpuIs, Open
<1> QED
  BY <1>1, Invariance, PTL

(* What a CPU holds, wants and allows, by the place of its flow.           *)
LEMMA LocksOf ==
  ASSUME NEW c, NEW k, NEW l \in Locs, NEW hold, NEW fr, NEW hart,
         CpuIs(c, k, l, hold, fr, hart)
  PROVE  /\ k.noff = (IF hold["ticks"] = c THEN 1 ELSE 0) + (IF hold["dev"] = c THEN 1 ELSE 0)
                    + (IF l \in SpinAt THEN 1 ELSE 0)
         /\ k.noff > 0 => ~k.sie
         /\ l \in SpinAt => hold["ticks"] # c /\ hold["dev"] # c
         /\ l \in Handlers => ~k.sie
         /\ l \in {"sys", "woken"} => k.sie
<1>1. /\ hold["ticks"] = c <=> l \in TicksAt
      /\ hold["dev"] = c <=> l \in DevAt
      /\ k.noff = IF l \in TicksAt \cup DevAt \cup SpinAt THEN 1 ELSE 0
      /\ l \notin Open \cup {"user"} => ~k.sie
      /\ l \in {"sys", "woken"} => k.sie
  BY Zenon DEF CpuIs
<1>2. /\ ~(l \in TicksAt /\ l \in DevAt) /\ ~(l \in SpinAt /\ l \in TicksAt \cup DevAt)
      /\ l \in TicksAt \cup DevAt \cup SpinAt \cup Handlers => l \notin Open \cup {"user"}
  BY DEF TicksAt, DevAt, SpinAt, Open, Handlers
<1> QED
  BY <1>1, <1>2

(* Interrupts are off exactly where they must be, and noff counts what the *)
(* CPU holds or wants.                                                     *)
THEOREM InterruptsAndLocks == Spec => []InterruptsFollowLocks
<1>1. TInv => InterruptsFollowLocks
  <2> SUFFICES ASSUME TInv, NEW c \in CPUs
               PROVE  LET k == cpu[c]
                          holds(l) == IF holder[l] = c THEN 1 ELSE 0
                          wants == IF loc[k.cur] \in DOMAIN Spins THEN 1 ELSE 0
                      IN /\ k.noff = holds("ticks") + holds("dev") + wants
                         /\ k.noff > 0 => ~k.sie
                         /\ wants = 1 => holder[Spins[loc[k.cur]][1]] # c
                         /\ loc[k.cur] \in Handlers => ~k.sie
                         /\ loc[k.cur] \in {"sys", "woken"} => k.sie
    BY Zenon DEF InterruptsFollowLocks
  <2> DEFINE k == cpu[c]
             l == loc[k.cur]
  <2>1. l \in Locs /\ CpuIs(c, k, l, holder, frame[k.cur], hartid[k.cur])
    BY CurFacts, Zenon DEF TInv, CpuInv, Cur
  <2>2. /\ DOMAIN Spins = SpinAt
        /\ \A s \in SpinAt : Spins[s][1] = IF s \in {"tick_spin", "sleep_spin"} THEN "ticks" ELSE "dev"
    BY DEF Spins, SpinAt
  <2> HIDE DEF k, l
  <2>3. /\ k.noff = (IF holder["ticks"] = c THEN 1 ELSE 0) + (IF holder["dev"] = c THEN 1 ELSE 0)
                   + (IF l \in SpinAt THEN 1 ELSE 0)
        /\ k.noff > 0 => ~k.sie
        /\ l \in SpinAt => holder["ticks"] # c /\ holder["dev"] # c
        /\ l \in Handlers => ~k.sie
        /\ l \in {"sys", "woken"} => k.sie
    BY <2>1, LocksOf, Zenon
  <2>4. (IF l \in DOMAIN Spins THEN 1 ELSE 0) = 1 => holder[Spins[l][1]] # c
    <3>1. l \in DOMAIN Spins => holder[Spins[l][1]] # c
      BY <2>2, <2>3, Zenon
    <3> QED
      BY ONLY <3>1
  <2>5. k.noff = (IF holder["ticks"] = c THEN 1 ELSE 0) + (IF holder["dev"] = c THEN 1 ELSE 0)
                 + (IF l \in DOMAIN Spins THEN 1 ELSE 0)
    BY ONLY <2>2, <2>3, Zenon
  <2> QED
    BY ONLY <2>3, <2>4, <2>5, Zenon DEF k, l
<1> QED
  BY <1>1, Invariance, PTL

(* sys_sleep(n) sleeps for n ticks, also when ticks wraps.                 *)
THEOREM SleepersOnTime == Spec => []SleepsOnTime
<1>1. TInv => SleepsOnTime
  BY DEF TInv, TimeInv, SleepsOnTime
<1> QED
  BY <1>1, Invariance, PTL
=============================================================================
