----------------------------- MODULE LogProofs ------------------------------
(***************************************************************************)
(* The invariant of the log holds for every number of processes, blocks,   *)
(* log slots and commits: the frames of its steps, type correctness, a     *)
(* lemma for each step of the calls, of commit(), of recovery and for the  *)
(* crash.  And what follows from it: the safety properties of Log, and     *)
(* that the log implements AtomicDisk.                                     *)
(***************************************************************************)
EXTENDS LogInv, TLAPS

(* What the lemmas take from the theory of finite sets.  The end of        *)
(* this module derives it (LEMMA CanCount).                                *)
EmptyFact ==
  /\ IsFiniteSet({}) /\ Cardinality({}) = 0
  /\ \A S : IsFiniteSet(S) => (Cardinality(S) = 0 <=> S = {})
NumberFact == \A S : IsFiniteSet(S) => Cardinality(S) \in Nat
SubsetFact ==
  \A S : IsFiniteSet(S) =>
    \A T \in SUBSET S : IsFiniteSet(T) /\ Cardinality(T) <= Cardinality(S)
AddFact ==
  \A S, x : IsFiniteSet(S) =>
    /\ IsFiniteSet(S \cup {x})
    /\ Cardinality(S \cup {x}) = IF x \in S THEN Cardinality(S) ELSE Cardinality(S) + 1
RemoveFact ==
  \A S, x : IsFiniteSet(S) =>
    /\ IsFiniteSet(S \ {x})
    /\ Cardinality(S \ {x}) = IF x \in S THEN Cardinality(S) - 1 ELSE Cardinality(S)
SingletonFact == \A x : IsFiniteSet({x}) /\ Cardinality({x}) = 1
IntervalFact == \A n \in Nat : IsFiniteSet(1 .. n) /\ Cardinality(1 .. n) = n
ProductFact ==
  \A S, T : IsFiniteSet(S) /\ IsFiniteSet(T) =>
    IsFiniteSet(S \X T) /\ Cardinality(S \X T) = Cardinality(S) * Cardinality(T)
UnionFact ==
  \A S, T : IsFiniteSet(S) /\ IsFiniteSet(T) =>
    /\ IsFiniteSet(S \cup T)
    /\ Cardinality(S \cup T) = Cardinality(S) + Cardinality(T) - Cardinality(S \cap T)
MeetFact == \A S, T : IsFiniteSet(S) => IsFiniteSet(S \cap T)
Counting ==
  /\ EmptyFact /\ NumberFact /\ SubsetFact /\ AddFact /\ RemoveFact /\ SingletonFact
  /\ IntervalFact /\ ProductFact /\ UnionFact /\ MeetFact

(* The phase of log.c that a process is in, as far as the others can tell. *)
Role(x) == IF x \in InOp THEN "op"
           ELSE IF x \in InCommit \cup {"panic"} THEN x ELSE "out"

(* The parts of commit() that the invariant tells apart.                   *)
LEMMA PhaseSets ==
  /\ {"clear"} \in SUBSET InCommit /\ {"finish"} \in SUBSET InCommit
  /\ {"install"} \in SUBSET InCommit /\ {"write_log"} \in SUBSET InCommit
  /\ {"install", "clear"} \in SUBSET InCommit /\ {"write_head", "clear"} \in SUBSET InCommit
  /\ {"write_log", "install"} \in SUBSET InCommit /\ {"install", "clear", "finish"} \in SUBSET InCommit
  /\ {"write_head", "install", "clear"} \in SUBSET InCommit
  BY DEF InCommit

(* A step after which every process is in the same phase of log.c, in a    *)
(* call, in the same part of commit() or in neither, changes neither the   *)
(* set of calls in progress nor who commits.                               *)
LEMMA RoleFrame ==
  ASSUME IInv, \A q \in Procs : Role(pc'[q]) = Role(pc[q])
  PROVE  /\ Active' = Active
         /\ \A S \in SUBSET InCommit : At(S)' <=> At(S)
         /\ CommitAlone' /\ NoPanic'
<1>1. \A q \in Procs : (pc'[q] \in InOp) <=> (pc[q] \in InOp)
  BY DEF Role, InOp, InCommit
<1>2. \A q \in Procs, x \in InCommit \cup {"panic"} : (pc'[q] = x) <=> (pc[q] = x)
  BY DEF Role, InOp, InCommit
<1>3. Active' = Active
  BY <1>1 DEF Active
<1>4. ASSUME NEW S \in SUBSET InCommit PROVE At(S)' <=> At(S)
  BY <1>2 DEF At
<1>5. CommitAlone'
  BY <1>1, <1>2, Zenon DEF IInv, CountInv, CommitAlone
<1>6. NoPanic'
  BY <1>2 DEF IInv, CountInv, NoPanic
<1> QED
  BY <1>3, <1>4, <1>5, <1>6

(* While a process is in commit() recovery is over, log.committing is set, *)
(* no call is in progress and nobody else commits.                         *)
LEMMA CommitterFacts ==
  ASSUME IInv, NEW p \in Procs, pc[p] \in InCommit
  PROVE  /\ boot = "up" /\ committing /\ outstanding = 0
         /\ \A q \in Procs \ {p} : pc[q] \notin InOp \cup InCommit
         /\ \A S \in SUBSET InCommit : At(S) <=> pc[p] \in S
         /\ \A q \in Procs : pc[q] \notin InOp
<1>1. boot = "up"
  BY DEF IInv, BootInv, InCommit
<1>2. committing /\ outstanding = 0
  BY DEF IInv, CountInv, At
<1>3. \A q \in Procs \ {p} : pc[q] \notin InOp \cup InCommit
  BY DEF IInv, CountInv, CommitAlone
<1>4. ASSUME NEW S \in SUBSET InCommit PROVE At(S) <=> pc[p] \in S
  BY <1>3 DEF At
<1>5. \A q \in Procs : pc[q] \notin InOp
  BY <1>3 DEF InOp, InCommit
<1> QED
  BY <1>1, <1>2, <1>3, <1>4, <1>5, Zenon

(* A step that changes no phase and touches neither header nor counters    *)
(* keeps the parts of the invariant about them.                            *)
LEMMA ClientFrame ==
  ASSUME IInv, boot = "up", \A q \in Procs : Role(pc'[q]) = Role(pc[q]),
         UNCHANGED <<dhead, lh, outstanding, committing, tail, boot, wrote>>
  PROVE  SpaceInv' /\ CountInv' /\ BootInv' /\ TailInv' /\ HeadInv'
<1>1. Active' = Active /\ CommitAlone' /\ NoPanic'
  BY RoleFrame
<1>2. \A S \in SUBSET InCommit : At(S)' <=> At(S)
  BY RoleFrame
<1>3. \A q \in Procs : (pc'[q] \in InOp) <=> (pc[q] \in InOp)
  BY DEF Role, InOp, InCommit
<1>4. SpaceInv'
  BY <1>1, <1>3, Zenon DEF IInv, SpaceInv, Unused, Blocks
<1>5. CountInv'
  BY <1>1, <1>2, Zenon DEF IInv, CountInv, InCommit
<1>6. BootInv'
  BY DEF BootInv
<1>7. TailInv'
  BY <1>2 DEF IInv, TailInv, InCommit
<1>8. HeadInv'
  BY <1>2 DEF IInv, HeadInv, InCommit, Injective
<1> QED
  BY <1>4, <1>5, <1>6, <1>7, <1>8

(* bread() of an uncached block and the recycling of an unpinned buffer    *)
(* keep the parts of the invariant about copies of blocks.                 *)
LEMMA BufferFrame ==
  ASSUME IInv, boot = "up", TypeOK',
         \A q \in Procs : Role(pc'[q]) = Role(pc[q]),
         UNCHANGED <<disk, lh, tail, boot, pin>>,
         \A b \in Home : \/ cache'[b] = cache[b]
                         \/ cache[b] = NoVal /\ cache'[b] = disk[b]
                         \/ pin[b] = 0 /\ cache'[b] = NoVal
  PROVE  CopyInv' /\ CleanInv'
<1>1. \A S \in SUBSET InCommit : At(S)' <=> At(S)
  BY RoleFrame
<1>2. \A b \in Home : Data(b)' = Data(b)
  BY Zenon DEF IInv, CleanInv, Data
<1>3. \A i \in 1 .. Len(lh) : lh[i] \in Home
  BY DEF IInv, TypeOK
<1>6. tail \in Nat /\ tail <= Len(lh)
  BY DEF IInv, TypeOK, TailInv
<1>7. \A i \in 1 .. tail : i \in 1 .. Len(lh)
  BY <1>6 
<1>4. CopyInv'
  BY <1>1, <1>2, <1>3, <1>7, Zenon DEF IInv, CopyInv, InCommit
<1>5. CleanInv'
  <2>1. \A q \in Procs : (pc'[q] = "install" <=> pc[q] = "install") /\ (pc'[q] = "clear" <=> pc[q] = "clear")
    BY DEF Role, InOp, InCommit
  <2>2. PinsMatchLog'
    BY <2>1 DEF IInv, CleanInv, PinsMatchLog
  <2> QED
    BY <2>2, Zenon DEF IInv, CleanInv
<1> QED
  BY <1>4, <1>5

(* A call in progress is counted in log.outstanding, so end_op() can       *)
(* subtract one.                                                           *)
LEMMA LastCall ==
  ASSUME Counting, IInv, NEW p \in Procs, pc[p] \in InOp
  PROVE  /\ outstanding \in Nat /\ outstanding >= 1
         /\ IsFiniteSet(Active) /\ p \in Active
         /\ Cardinality(Active \ {p}) = outstanding - 1
<1>1. IsFiniteSet(Active)
  BY LogAssumption DEF LogAssumption, Active, Counting, SubsetFact
<1>2. p \in Active
  BY DEF Active
<1>3. Cardinality(Active \ {p}) = Cardinality(Active) - 1
  BY <1>1, <1>2, Zenon DEF Counting, RemoveFact
<1>4. Cardinality(Active \ {p}) \in Nat
  BY <1>1 DEF Counting, RemoveFact, NumberFact
<1>5. outstanding = Cardinality(Active) /\ outstanding \in Nat
  BY Zenon DEF IInv, CountInv, TypeOK
<1> QED
  BY <1>1, <1>2, <1>3, <1>4, <1>5

(* The first boot on the image of mkfs has well-typed variables.           *)
LEMMA TypeInit == Init => TypeOK
<1> SUFFICES ASSUME Init PROVE TypeOK
  OBVIOUS
<1> USE LogAssumption DEF LogAssumption, Init, PC
<1>1. disk \in [Slots \cup Home -> Val \cup {Torn}] OBVIOUS
<1>2. dhead \in Seq(Home) /\ lh \in Seq(Home) OBVIOUS
<1>3. cache \in [Home -> Val \cup {Torn, NoVal}] OBVIOUS
<1>4. pin \in [Home -> Nat] OBVIOUS
<1>5. lock \in [Home -> Procs \cup {NoProc}] OBVIOUS
<1>6. pc \in [Procs -> PC] /\ asleep \subseteq Procs OBVIOUS
<1>7. wrote \in [Procs -> SUBSET Home] OBVIOUS
<1>8. unsaved \in BOOLEAN /\ owed \subseteq Procs OBVIOUS
<1> QED BY <1>1, <1>2, <1>3, <1>4, <1>5, <1>6, <1>7, <1>8 DEF TypeOK

(* In the loops of write_log() and install_trans() the index is that of a  *)
(* block in the header and of a slot of the log.                           *)
LEMMA TailInLog ==
  ASSUME IInv, boot = "install" \/ At({"write_log", "install"})
  PROVE  /\ tail + 1 \in 1 .. Len(lh)
         /\ tail + 1 \in Slots
         /\ lh[tail + 1] \in Home
<1>1. tail \in Nat /\ Len(lh) \in Nat /\ tail < Len(lh) /\ Len(lh) < LOGBLOCKS
  BY DEF IInv, TypeOK, TailInv, SpaceInv
<1>2. tail + 1 \in 1 .. Len(lh) /\ tail + 1 \in Slots
  BY <1>1, LogAssumption DEF Slots, LogAssumption
<1> QED
  BY <1>2 DEF IInv, TypeOK

(* bread() returns block contents, never the absence of a buffer.          *)
LEMMA DataType ==
  ASSUME TypeOK, NEW b \in Home
  PROVE  Data(b) \in Val \cup {Torn}
  BY DEF TypeOK, Data

(* Advancing or leaving a loop over the header keeps tail and pc typed.    *)
LEMMA NextTailType ==
  ASSUME TypeOK, NEW p \in Procs, NEW out \in InCommit, NextTail(p, out)
  PROVE  tail' \in Nat /\ pc' \in [Procs -> PC]
<1>1. tail' \in Nat
  BY DEF TypeOK, NextTail
<1>2. pc' = pc \/ pc' = [pc EXCEPT ![p] = out]
  BY DEF NextTail
<1>3. pc \in [Procs -> PC] /\ out \in PC
  BY DEF TypeOK, PC
<1> QED
  BY <1>1, <1>2, <1>3

(* Every step of every process, of recovery and of the machine keeps the   *)
(* variables typed.                                                        *)
LEMMA TypeStep == ASSUME Counting, OpsFit, IInv, Next PROVE TypeOK'
<1> USE DEF memory, loghdr, history
<1>t. TypeOK
  BY DEF IInv
<1>a. wrote \in [Procs -> SUBSET Home] /\ lh \in Seq(Home) /\ ncommit \in Nat
  BY <1>t, Zenon DEF TypeOK
<1>2. ASSUME RecoverBlock PROVE TypeOK'
  <2>1. tail + 1 \in Slots /\ lh[tail + 1] \in Home
    BY <1>t, <1>2, TailInLog, Zenon DEF TypeOK, RecoverBlock
  <2>2. disk' \in [Slots \cup Home -> Val \cup {Torn}] /\ cache' \in [Home -> Val \cup {Torn, NoVal}]
    BY <1>t, <1>2, <2>1, Zenon DEF TypeOK, RecoverBlock
  <2>3. tail' \in Nat /\ boot' \in {"read_head", "install", "clear", "up"}
    BY <1>t, <1>2 DEF TypeOK, RecoverBlock
  <2> QED
    BY <1>t, <1>2, <2>2, <2>3, Zenon DEF TypeOK, RecoverBlock
<1>6. ASSUME NEW p \in Procs, EndOp(p) PROVE TypeOK'
  <2>1. outstanding' \in Nat
    <3>1. outstanding \in Nat /\ outstanding >= 1
      BY <1>6, LastCall, Zenon DEF EndOp, InOp
    <3>2. outstanding' = outstanding - 1
      BY <1>6, Zenon DEF EndOp
    <3> QED
      BY <3>1, <3>2
  <2>2. pc' \in [Procs -> PC]
    BY <1>t, <1>6, Zenon DEF TypeOK, EndOp, PC, InCommit
  <2>3. asleep' \subseteq Procs
    BY <1>t, <1>6, Zenon DEF TypeOK, EndOp
  <2>4. committing' \in BOOLEAN /\ unsaved' \in BOOLEAN
    BY <1>t, <1>6, Zenon DEF TypeOK, EndOp
  <2> QED
    BY <1>t, <1>6, <2>1, <2>2, <2>3, <2>4, Zenon DEF TypeOK, EndOp
<1>9. ASSUME NEW p \in Procs, SyncLoop(p) PROVE TypeOK'
  <2>1. CASE ncommit < goal[p]
    BY <1>t, <1>9, <2>1, Zenon DEF TypeOK, SyncLoop
  <2>2. CASE ~(ncommit < goal[p])
    <3>1. pc' \in [Procs -> PC]
      BY <1>t, <1>9, <2>2, Zenon DEF TypeOK, SyncLoop, PC
    <3>2. goal' = [goal EXCEPT ![p] = 0]
      BY <1>t, <1>9, <2>2, Zenon DEF TypeOK, SyncLoop
    <3> QED
      BY <1>t, <1>9, <2>2, <3>1, <3>2, Zenon DEF TypeOK, SyncLoop
  <2> QED
    BY <2>1, <2>2
<1>10. ASSUME NEW p \in Procs, WriteLog(p) PROVE TypeOK'
  <2>1. tail + 1 \in Slots /\ lh[tail + 1] \in Home
    BY <1>t, <1>10, TailInLog, Zenon DEF TypeOK, WriteLog, At
  <2>2. Data(lh[tail + 1]) \in Val \cup {Torn}
    BY <1>t, <2>1, DataType
  <2>3. disk' \in [Slots \cup Home -> Val \cup {Torn}] /\ cache' \in [Home -> Val \cup {Torn, NoVal}]
    BY <1>t, <1>10, <2>1, <2>2, Zenon DEF TypeOK, WriteLog
  <2>4. tail' \in Nat /\ pc' \in [Procs -> PC]
    BY <1>t, <1>10, NextTailType, Zenon DEF TypeOK, WriteLog, InCommit
  <2> QED
    BY <1>t, <1>10, <2>3, <2>4, Zenon DEF TypeOK, WriteLog
<1>12. ASSUME NEW p \in Procs, InstallBlock(p) PROVE TypeOK'
  <2>1. tail + 1 \in Slots /\ tail + 1 \in 1 .. Len(lh) /\ lh[tail + 1] \in Home
    BY <1>t, <1>12, TailInLog, Zenon DEF TypeOK, InstallBlock, At
  <2>5. pin[lh[tail + 1]] = 1
    <3>1. boot = "up" /\ \A q \in Procs : pc[q] # "clear"
      BY <1>12, CommitterFacts, Zenon DEF InstallBlock, InCommit
    <3>2. tail < tail + 1
      BY DEF IInv, TypeOK
    <3> QED
      BY <2>1, <3>1, <3>2 DEF IInv, CleanInv, PinsMatchLog
  <2>2. pin' \in [Home -> Nat]
    BY <1>t, <1>12, <2>1, <2>5 DEF TypeOK, InstallBlock
  <2>3. disk' \in [Slots \cup Home -> Val \cup {Torn}] /\ cache' \in [Home -> Val \cup {Torn, NoVal}]
    BY <1>t, <1>12, <2>1, Zenon DEF TypeOK, InstallBlock
  <2>4. tail' \in Nat /\ pc' \in [Procs -> PC]
    BY <1>t, <1>12, NextTailType, Zenon DEF TypeOK, InstallBlock, InCommit
  <2> QED
    BY <1>t, <1>12, <2>2, <2>3, <2>4, Zenon DEF TypeOK, InstallBlock
<1>14. ASSUME NEW p \in Procs, FinishCommit(p) PROVE TypeOK'
  <2>1. pc' \in [Procs -> PC]
    BY <1>t, <1>14, Zenon DEF TypeOK, FinishCommit, PC
  <2>2. ncommit' \in Nat
    BY <1>a, <1>14 DEF FinishCommit
  <2>3. committing' \in BOOLEAN /\ asleep' \subseteq Procs
    BY <1>14, Zenon DEF FinishCommit
  <2> QED
    BY <1>t, <1>14, <2>1, <2>2, <2>3, Zenon DEF TypeOK, FinishCommit
<1>15. ASSUME NEW p \in Procs, NEW b \in Home, Bread(p, b) PROVE TypeOK'
  <2>1. cache' \in [Home -> Val \cup {Torn, NoVal}]
    BY <1>t, <1>15, DataType, Zenon DEF TypeOK, Bread
  <2>2. pc' \in [Procs -> PC] /\ lock' \in [Home -> Procs \cup {NoProc}]
    BY <1>t, <1>15, Zenon DEF TypeOK, Bread, PC, InOp
  <2> QED
    BY <1>t, <1>15, <2>1, <2>2, Zenon DEF TypeOK, Bread
<1>16. ASSUME NEW p \in Procs, NEW b \in Home, NEW v \in Val, LogWrite(p, b, v) PROVE TypeOK'
  <2>1. lh' \in Seq(Home)
    <3>1. lh' = lh \/ lh' = Append(lh, b)
      BY <1>16, Zenon DEF LogWrite, Absent
    <3> QED
      BY <1>a, <3>1
  <2>4. pin' \in [Home -> Nat]
    BY <1>t, <1>16 DEF TypeOK, LogWrite, Absent
  <2>2. pc' \in [Procs -> PC]
    BY <1>t, <1>16, Zenon DEF TypeOK, LogWrite, Absent, PC
  <2>5. wrote' \in [Procs -> SUBSET Home]
    <3>1. wrote' = wrote \/ wrote' = [wrote EXCEPT ![p] = wrote[p] \cup {b}]
      BY <1>16, Zenon DEF LogWrite, Absent
    <3> QED
      BY <1>a, <3>1
  <2>3. cache' \in [Home -> Val \cup {Torn, NoVal}]
    BY <1>t, <1>16, Zenon DEF TypeOK, LogWrite, Absent
  <2> QED
    BY <1>t, <1>16, <2>1, <2>2, <2>3, <2>4, <2>5, Zenon DEF TypeOK, LogWrite, Absent
<1>18. ASSUME NEW torn \in SUBSET InFlight, Crash(torn) PROVE TypeOK'
  <2>1. disk' \in [Slots \cup Home -> Val \cup {Torn}] /\ cache' \in [Home -> Val \cup {Torn, NoVal}]
    BY <1>t, <1>18, Zenon DEF TypeOK, Crash
  <2>2. pc' \in [Procs -> PC] /\ wrote' \in [Procs -> SUBSET Home] /\ goal' \in [Procs -> Nat]
    BY <1>t, <1>18, Zenon DEF TypeOK, Crash, PC
  <2>4. lh' \in Seq(Home)
    BY <1>t, <1>18 DEF TypeOK, Crash
  <2>3. pin' \in [Home -> Nat] /\ lock' \in [Home -> Procs \cup {NoProc}]
    BY <1>t, <1>18, Zenon DEF TypeOK, Crash
  <2> QED
    BY <1>t, <1>18, <2>1, <2>2, <2>3, <2>4, Zenon DEF TypeOK, Crash
<1>1. ASSUME ReadHead PROVE TypeOK'
  BY <1>t, <1>1, LogAssumption, Zenon DEF LogAssumption, TypeOK, ReadHead, PC, InOp, InCommit
<1>3. ASSUME ClearLog PROVE TypeOK'
  BY <1>t, <1>3, LogAssumption DEF LogAssumption, TypeOK, ClearLog, PC, InOp, InCommit
<1>4. ASSUME NEW p \in Procs, BeginOp(p) PROVE TypeOK'
  BY <1>t, <1>4, LogAssumption DEF LogAssumption, TypeOK, BeginOp, PC, InOp, InCommit
<1>5. ASSUME NEW p \in Procs, BeginOpSleep(p) PROVE TypeOK'
  BY <1>t, <1>5, LogAssumption, Zenon DEF LogAssumption, TypeOK, BeginOpSleep, PC, InOp, InCommit
<1>7. ASSUME NEW p \in Procs, Brelse(p) PROVE TypeOK'
  BY <1>t, <1>7, LogAssumption, Zenon DEF LogAssumption, TypeOK, Brelse, PC, InOp, InCommit
<1>8. ASSUME NEW p \in Procs, SyncStart(p) PROVE TypeOK'
  BY <1>t, <1>8, LogAssumption DEF LogAssumption, TypeOK, SyncStart, PC, InOp, InCommit
<1>11. ASSUME NEW p \in Procs, WriteHead(p) PROVE TypeOK'
  BY <1>t, <1>11, LogAssumption, Zenon DEF LogAssumption, TypeOK, WriteHead, PC, InOp, InCommit
<1>13. ASSUME NEW p \in Procs, EraseHead(p) PROVE TypeOK'
  BY <1>t, <1>13, LogAssumption DEF LogAssumption, TypeOK, EraseHead, PC, InOp, InCommit
<1>19. ASSUME NEW p \in Procs, Kick(p) PROVE TypeOK'
  BY <1>t, <1>19, Zenon DEF TypeOK, Kick
<1>17. ASSUME NEW b \in Home, Recycle(b) PROVE TypeOK'
  BY <1>t, <1>17, LogAssumption, Zenon DEF LogAssumption, TypeOK, Recycle, PC, InOp, InCommit
<1> QED
  BY <1>1, <1>2, <1>3, <1>4, <1>5, <1>6, <1>7, <1>8, <1>9, <1>10, <1>11, <1>12, <1>13, <1>14, <1>15, <1>16, <1>17, <1>18, <1>19, Zenon DEF Next, CommitStep

(* begin_op() that sleeps, bread(), brelse() and sys_sync() keep the       *)
(* invariant.                                                              *)
LEMMA ClientSteps ==
  ASSUME IInv, TypeOK', NEW p \in Procs,
         \/ BeginOpSleep(p) \/ Brelse(p) \/ SyncStart(p) \/ SyncLoop(p)
         \/ \E b \in Home : Bread(p, b)
  PROVE  IInv'
<1> USE DEF memory, loghdr, history
<1>1. boot = "up" /\ boot' = boot
  BY Zenon DEF BeginOpSleep, Brelse, SyncStart, SyncLoop, Bread, IInv, BootInv
<1>2. UNCHANGED <<disk, dhead, lh, outstanding, committing, tail, boot, wrote, pin, ncommit, unsaved>>
  BY Zenon DEF BeginOpSleep, Brelse, SyncStart, SyncLoop, Bread
<1>3. pc \in [Procs -> PC]
  BY Zenon DEF IInv, TypeOK
<1>4. \A q \in Procs : Role(pc'[q]) = Role(pc[q])
  <2>1. CASE BeginOpSleep(p)
    BY <1>3, <2>1, Zenon DEF BeginOpSleep, Role, InOp, InCommit
  <2>2. CASE Brelse(p)
    BY <1>3, <2>2, Zenon DEF Brelse, Role, InOp, InCommit
  <2>3. CASE SyncStart(p)
    BY <1>3, <2>3, Zenon DEF SyncStart, Role, InOp, InCommit
  <2>4. CASE SyncLoop(p)
    BY <1>3, <2>4, Zenon DEF SyncLoop, Role, InOp, InCommit
  <2>5. CASE \E b \in Home : Bread(p, b)
    BY <1>3, <2>5 DEF Bread, Role, InOp, InCommit
  <2> QED
    BY <2>1, <2>2, <2>3, <2>4, <2>5, Zenon
<1>5. \A b \in Home : cache'[b] = cache[b] \/ (cache[b] = NoVal /\ cache'[b] = disk[b])
  <2>1. CASE \E b \in Home : Bread(p, b)
    <3>1. PICK b \in Home : Bread(p, b)
      BY <2>1
    <3>2. cache' = [cache EXCEPT ![b] = IF cache[b] = NoVal THEN disk[b] ELSE cache[b]]
      BY <3>1, Zenon DEF Bread, Data
    <3>3. cache \in [Home -> Val \cup {Torn, NoVal}]
      BY Zenon DEF IInv, TypeOK
    <3> QED
      BY <3>2, <3>3, Zenon
  <2>2. CASE cache' = cache
    BY <2>2
  <2> QED
    BY <2>1, <2>2, Zenon DEF BeginOpSleep, Brelse, SyncStart, SyncLoop
<1>6. SpaceInv' /\ CountInv' /\ BootInv' /\ TailInv' /\ HeadInv'
  BY <1>1, <1>2, <1>4, ClientFrame, Zenon
<1>7. CopyInv' /\ CleanInv'
  BY <1>1, <1>2, <1>4, <1>5, BufferFrame, Zenon
<1>8. SyncInv'
  <2>1. At({"install", "clear", "finish"})' <=> At({"install", "clear", "finish"})
    BY <1>4, RoleFrame, Zenon DEF InCommit
  <2>2. SleepersHaveWaker'
    <3>1. CASE BeginOpSleep(p)
      <4>1. outstanding = 0 /\ ~committing => LogHasRoom
        BY <1>1, LogAssumption DEF IInv, CountInv, LogHasRoom, LogAssumption
      <4>2. committing \/ ~LogHasRoom
        BY <3>1, Zenon DEF BeginOpSleep, MayBegin
      <4>3. outstanding \in Nat
        BY Zenon DEF IInv, TypeOK
      <4> QED
        BY <1>2, <4>1, <4>2, <4>3 DEF SleepersHaveWaker
    <3>2. CASE SyncStart(p)
      BY <3>2, <1>2 DEF SyncStart, SleepersHaveWaker
    <3>3. CASE SyncLoop(p)
      BY <3>3, <1>2 DEF SyncLoop, SleepersHaveWaker, IInv, SyncInv
    <3>4. CASE asleep' = asleep
      BY <3>4, <1>2, Zenon DEF IInv, SyncInv, SleepersHaveWaker
    <3> QED
      BY <3>1, <3>2, <3>3, <3>4, Zenon DEF Brelse, Bread
  <2>3. (owed' # {} => unsaved) /\ \A q \in owed' : pc'[q] = "sync" /\ goal'[q] = ncommit + 1
    <3>1. CASE SyncStart(p)
      BY <3>1, <1>3, Zenon DEF SyncStart, IInv, SyncInv, TypeOK
    <3>2. CASE SyncLoop(p)
      <4>1. ASSUME NEW q \in owed
            PROVE  q \in Procs /\ pc[q] = "sync" /\ goal[q] = ncommit + 1
        BY Zenon DEF IInv, SyncInv, TypeOK
      <4>2. owed' = owed /\ (ncommit < goal[p] => pc' = pc /\ goal' = goal)
        BY <3>2, Zenon DEF SyncLoop
      <4>3. CASE ncommit < goal[p]
        BY <4>1, <4>2, <4>3, Zenon DEF IInv, SyncInv
      <4>4. CASE ~(ncommit < goal[p])
        <5>1. p \notin owed
          BY <4>1, <4>4 DEF IInv, TypeOK
        <5>2. pc' = [pc EXCEPT ![p] = "idle"] /\ goal' = [goal EXCEPT ![p] = 0]
          BY <3>2, <4>4, Zenon DEF SyncLoop
        <5>3. goal \in [Procs -> Nat]
          BY Zenon DEF IInv, TypeOK
        <5> QED
          BY <1>3, <4>1, <4>2, <5>1, <5>2, <5>3, Zenon DEF IInv, SyncInv
      <4> QED
        BY <4>3, <4>4, Zenon
    <3>3. CASE BeginOpSleep(p)
      BY <3>3, <1>3, Zenon DEF BeginOpSleep, IInv, SyncInv, TypeOK
    <3>4. CASE Brelse(p)
      BY <3>4, <1>3, Zenon DEF Brelse, IInv, SyncInv, TypeOK
    <3>5. CASE \E b \in Home : Bread(p, b)
      BY <3>5, <1>3, Zenon DEF Bread, IInv, SyncInv, TypeOK
    <3> QED
      BY <3>1, <3>2, <3>3, <3>4, <3>5, Zenon
  <2>4. ASSUME NEW q \in Procs, pc'[q] = "sync"
        PROVE  /\ goal'[q] <= ncommit + 1
               /\ ncommit < goal'[q] => committing \/ outstanding > 0
    <3>1. pc[q] = "sync" => /\ goal[q] <= ncommit + 1
                            /\ ncommit < goal[q] => committing \/ outstanding > 0
      BY Zenon DEF IInv, SyncInv
    <3>2. CASE SyncStart(p)
      <4>1. goal' = [goal EXCEPT ![p] = ncommit + 1] /\ pc' = [pc EXCEPT ![p] = "sync"]
        BY <3>2, Zenon DEF SyncStart
      <4>2. committing \/ outstanding > 0
        BY <3>2, Zenon DEF SyncStart
      <4>3. goal \in [Procs -> Nat] /\ ncommit \in Nat
        BY Zenon DEF IInv, TypeOK
      <4> QED
        BY <1>3, <2>4, <3>1, <4>1, <4>2, <4>3
    <3>3. CASE SyncLoop(p)
      <4>1. pc[q] = "sync" /\ (q = p => ncommit < goal[p])
        BY <1>3, <2>4, <3>3, Zenon DEF SyncLoop
      <4>2. goal'[q] = goal[q]
        <5>1. CASE ncommit < goal[p]
          BY <3>3, <5>1, Zenon DEF SyncLoop
        <5>2. CASE ~(ncommit < goal[p])
          BY <3>3, <5>2, <4>1, Zenon DEF SyncLoop, IInv, TypeOK
        <5> QED
          BY <5>1, <5>2
      <4> QED
        BY <3>1, <4>1, <4>2, Zenon
    <3>4. CASE BeginOpSleep(p)
      BY <1>3, <2>4, <3>1, <3>4, Zenon DEF BeginOpSleep
    <3>5. CASE Brelse(p)
      BY <1>3, <2>4, <3>1, <3>5, Zenon DEF Brelse
    <3>6. CASE \E b \in Home : Bread(p, b)
      BY <1>3, <2>4, <3>1, <3>6, Zenon DEF Bread
    <3> QED
      BY <3>2, <3>3, <3>4, <3>5, <3>6, Zenon
  <2> QED
    BY <1>2, <2>1, <2>2, <2>3, <2>4, Zenon DEF IInv, SyncInv
<1> QED
  BY <1>6, <1>7, <1>8, Zenon DEF IInv

(* The log space still promised to the calls in progress is at most        *)
(* MAXOPBLOCKS for each of them, what begin_op() assumes.                  *)
LEMMA UnusedFacts ==
  ASSUME Counting, IInv
  PROVE  /\ IsFiniteSet(Active) /\ IsFiniteSet(Unused)
         /\ Cardinality(Unused) \in Nat
         /\ Cardinality(Unused) <= outstanding * MAXOPBLOCKS
<1>1. IsFiniteSet(Active)
  BY LogAssumption DEF LogAssumption, Active, Counting, SubsetFact
<1>2. IsFiniteSet(1 .. MAXOPBLOCKS) /\ Cardinality(1 .. MAXOPBLOCKS) = MAXOPBLOCKS
  BY LogAssumption DEF LogAssumption, Counting, IntervalFact
<1>3. /\ IsFiniteSet(Active \X (1 .. MAXOPBLOCKS))
      /\ Cardinality(Active \X (1 .. MAXOPBLOCKS)) = Cardinality(Active) * MAXOPBLOCKS
  BY <1>1, <1>2, Zenon DEF Counting, ProductFact
<1>4. Unused \in SUBSET (Active \X (1 .. MAXOPBLOCKS))
  BY DEF Unused
<1>5. IsFiniteSet(Unused) /\ Cardinality(Unused) <= Cardinality(Active) * MAXOPBLOCKS
  BY <1>3, <1>4 DEF Counting, SubsetFact
<1>6. Cardinality(Unused) \in Nat
  BY <1>5 DEF Counting, NumberFact
<1> QED
  BY <1>1, <1>5, <1>6, Zenon DEF IInv, CountInv

(* begin_op() that enters keeps the invariant: the room it checked for is  *)
(* the room it promises to the new call.                                   *)
LEMMA BeginStep ==
  ASSUME Counting, IInv, TypeOK', NEW p \in Procs, BeginOp(p)
  PROVE  IInv'
<1> USE DEF memory, loghdr, history
<1> DEFINE Fresh == {p} \X (1 .. MAXOPBLOCKS)
<1>1. /\ boot = "up" /\ ~committing /\ pc[p] \in {"begin", "idle"} /\ p \notin asleep
      /\ UNCHANGED <<disk, dhead, cache, pin, lock, lh, committing, ncommit, tail, asleep, goal, boot, unsaved, owed>>
      /\ outstanding' = outstanding + 1
      /\ pc' = [pc EXCEPT ![p] = "op"] /\ wrote' = [wrote EXCEPT ![p] = {}]
  BY DEF BeginOp, MayBegin
<1>2. pc \in [Procs -> PC] /\ wrote \in [Procs -> SUBSET Home] /\ outstanding \in Nat /\ lh \in Seq(Home)
  BY Zenon DEF IInv, TypeOK
<1>3. p \notin Active /\ Active' = Active \cup {p}
  BY <1>1, <1>2, Zenon DEF Active, InOp
<1>4. \A S \in SUBSET InCommit : At(S)' <=> At(S)
  BY <1>1, <1>2 DEF At, InCommit
<1>5. ~At(InCommit)
  BY <1>1, Zenon DEF IInv, CountInv
<1>6. SpaceInv'
  <2>1. Unused' \subseteq Unused \cup Fresh
    BY <1>1, <1>2, <1>3 DEF Unused
  <2>2. IsFiniteSet(Fresh) /\ Cardinality(Fresh) = MAXOPBLOCKS
    <3>1. IsFiniteSet(1 .. MAXOPBLOCKS) /\ Cardinality(1 .. MAXOPBLOCKS) = MAXOPBLOCKS
      BY LogAssumption DEF LogAssumption, Counting, IntervalFact
    <3>2. IsFiniteSet({p}) /\ Cardinality({p}) = 1
      BY DEF Counting, SingletonFact
    <3>3. Cardinality(Fresh) = 1 * MAXOPBLOCKS /\ IsFiniteSet(Fresh)
      <4> DEFINE T == 1 .. MAXOPBLOCKS
      <4> HIDE DEF T
      <4>1. IsFiniteSet(T) /\ Cardinality(T) = MAXOPBLOCKS
        BY <3>1 DEF T
      <4>2. IsFiniteSet({p} \X T) /\ Cardinality({p} \X T) = Cardinality({p}) * Cardinality(T)
        BY <3>2, <4>1, Zenon DEF Counting, ProductFact
      <4> QED
        BY <3>2, <4>1, <4>2 DEF T
    <3> QED
      BY <3>3, LogAssumption DEF LogAssumption
  <2>3. IsFiniteSet(Unused) /\ Cardinality(Unused) \in Nat /\ Cardinality(Unused) <= outstanding * MAXOPBLOCKS
    BY UnusedFacts
  <2>4. /\ IsFiniteSet(Unused \cup Fresh)
        /\ Cardinality(Unused \cup Fresh) <= Cardinality(Unused) + MAXOPBLOCKS
    <3>1. /\ IsFiniteSet(Unused \cup Fresh) /\ IsFiniteSet(Unused \cap Fresh)
          /\ Cardinality(Unused \cup Fresh) = Cardinality(Unused) + Cardinality(Fresh) - Cardinality(Unused \cap Fresh)
      BY <2>2, <2>3, Zenon DEF Counting, UnionFact, MeetFact
    <3>2. Cardinality(Unused \cap Fresh) \in Nat
      BY <3>1, Zenon DEF Counting, NumberFact
    <3> HIDE DEF Fresh
    <3> QED
      BY <2>2, <2>3, <3>1, <3>2, LogAssumption DEF LogAssumption
  <2>5. Cardinality(Unused') <= Cardinality(Unused \cup Fresh) /\ Cardinality(Unused') \in Nat
    BY <2>1, <2>4, Zenon DEF Counting, SubsetFact, NumberFact
  <2>6. Len(lh) + (outstanding + 1) * MAXOPBLOCKS <= LOGBLOCKS
    BY DEF BeginOp, MayBegin, LogHasRoom
  <2>7. (outstanding + 1) * MAXOPBLOCKS = outstanding * MAXOPBLOCKS + MAXOPBLOCKS
    BY <1>2, LogAssumption DEF LogAssumption
  <2>8. Len(lh) + Cardinality(Unused') <= LOGBLOCKS
    <3> HIDE DEF Fresh
    <3>1. outstanding * MAXOPBLOCKS \in Nat
      BY <1>2, LogAssumption DEF LogAssumption
    <3>2. IsFiniteSet(Unused \cup Fresh) /\ Cardinality(Unused \cup Fresh) \in Nat
      BY <2>4 DEF Counting, NumberFact
    <3>3. Len(lh) \in Nat /\ MAXOPBLOCKS \in Nat /\ LOGBLOCKS \in Nat
      BY <1>2, LogAssumption DEF LogAssumption
    <3> QED
      BY <2>3, <2>4, <2>5, <2>6, <2>7, <3>1, <3>2, <3>3
  <2>9. ASSUME NEW q \in Procs
        PROVE  /\ IsFiniteSet(wrote'[q]) /\ Cardinality(wrote'[q]) <= OpBlocks
               /\ pc'[q] \in InOp => wrote'[q] \subseteq Blocks(lh)
    <3>1. CASE q = p
      BY <3>1, <1>1, <1>2, LogAssumption DEF LogAssumption, Counting, EmptyFact
    <3>2. CASE q # p
      BY <3>2, <1>1, <1>2, Zenon DEF IInv, SpaceInv
    <3> QED
      BY <3>1, <3>2, Zenon
  <2> QED
    BY <1>1, <2>8, <2>9 DEF IInv, SpaceInv, Blocks
<1>7. CountInv'
  <2>1. outstanding' = Cardinality(Active')
    <3>1. Cardinality(Active \cup {p}) = Cardinality(Active) + 1
      BY <1>3, UnusedFacts, Zenon DEF Counting, AddFact
    <3> QED
      BY <1>1, <1>3, <3>1, Zenon DEF IInv, CountInv
  <2>2. CommitAlone' /\ NoPanic'
    BY <1>1, <1>2, <1>5, Zenon DEF IInv, CountInv, CommitAlone, NoPanic, At, InCommit
  <2> QED
    BY <1>1, <1>2, <1>4, <1>5, <2>1, <2>2 DEF IInv, CountInv
<1>8. BootInv' /\ TailInv' /\ HeadInv'
  <2>1. BootInv'
    BY <1>1, Zenon DEF BootInv
  <2>2. TailInv'
    BY <1>1, <1>4, Zenon DEF IInv, TailInv, InCommit
  <2>3. HeadInv'
    BY <1>1, <1>4 DEF IInv, HeadInv, InCommit, Injective
  <2> QED
    BY <2>1, <2>2, <2>3
<1>9. CopyInv'
  BY <1>1, <1>4, Zenon DEF IInv, CopyInv, InCommit, Data
<1>10. CleanInv'
  <2>1. \A q \in Procs : (pc'[q] = "install" <=> pc[q] = "install") /\ (pc'[q] = "clear" <=> pc[q] = "clear")
    BY <1>1, <1>2, Zenon
  <2>2. PinsMatchLog'
    BY <1>1, <2>1 DEF IInv, CleanInv, PinsMatchLog
  <2> QED
    BY <1>1, <2>2, Zenon DEF IInv, CleanInv
<1>11. SyncInv'
  <2>1. \A q \in Procs : pc'[q] = "sync" <=> pc[q] = "sync"
    BY <1>1, <1>2, Zenon
  <2>2. owed \subseteq Procs
    BY Zenon DEF IInv, TypeOK
  <2>3. outstanding' > 0
    BY <1>1, <1>2
  <2> QED
    BY <1>1, <1>4, <2>1, <2>2, <2>3, Zenon DEF IInv, SyncInv, SleepersHaveWaker, InCommit
<1> QED
  BY <1>6, <1>7, <1>8, <1>9, <1>10, <1>11 DEF IInv

-----------------------------------------------------------------------------
(* log_write(), end_op(), and the first half of commit().                 *)

(* log_write() keeps the invariant and does not panic: a new block uses up *)
(* a token promised to its call, an absorbed one needs none.               *)
LEMMA LogWriteStep ==
  ASSUME Counting, OpsFit, IInv, TypeOK', NEW p \in Procs, NEW b \in Home, NEW v \in Val,
         LogWrite(p, b, v)
  PROVE  IInv'
<1> USE DEF memory, loghdr, history
<1>1. pc[p] = "held" /\ pc[p] \in InOp
  BY Zenon DEF LogWrite, Absent, InOp
<1>2. boot = "up"
  BY <1>1 DEF IInv, BootInv
<1>3. Len(lh) \in Nat /\ Len(lh) < LOGBLOCKS /\ outstanding >= 1 /\ outstanding \in Nat
  <2>1. outstanding \in Nat /\ outstanding >= 1
    BY <1>1, LastCall, Zenon
  <2> QED
    BY <2>1 DEF IInv, SpaceInv, TypeOK
<1>4. /\ pc' = pc /\ cache' = [cache EXCEPT ![b] = v]
      /\ wrote' = [wrote EXCEPT ![p] = wrote[p] \cup {b}]
      /\ lh' = IF b \notin Blocks(lh) THEN Append(lh, b) ELSE lh
      /\ pin' = IF b \notin Blocks(lh) THEN [pin EXCEPT ![b] = pin[b] + 1] ELSE pin
      /\ UNCHANGED <<disk, dhead, lock, outstanding, committing, ncommit, tail,
                     asleep, goal, boot, unsaved, owed>>
  <2>1. ~(Len(lh) >= LOGBLOCKS \/ outstanding < 1)
    BY <1>3, LogAssumption DEF LogAssumption
  <2> QED
    BY <2>1, Zenon DEF LogWrite, Absent
<1>5. ~committing /\ ~At(InCommit) /\ p \in Active
  <2>1. outstanding # 0
    BY <1>3
  <2> QED
    BY <1>1, <2>1, Zenon DEF IInv, CountInv, Active
<1>6. lh \in Seq(Home) /\ lh' \in Seq(Home) /\ wrote \in [Procs -> SUBSET Home] /\ pin \in [Home -> Nat]
  BY Zenon DEF IInv, TypeOK
<1>7. \A i \in 1 .. Len(lh) : i \in 1 .. Len(lh') /\ lh'[i] = lh[i]
  BY <1>4, <1>6
<1>8. Blocks(lh') = Blocks(lh) \cup {b}
  <2>1. CASE b \in Blocks(lh)
    BY <2>1, <1>4, Zenon
  <2>2. CASE b \notin Blocks(lh)
    <3>1. lh' = Append(lh, b)
      BY <2>2, <1>4, Zenon
    <3>2. Len(lh') = Len(lh) + 1 /\ lh'[Len(lh) + 1] = b
      BY <3>1, <1>6
    <3>3. Blocks(lh') \subseteq Blocks(lh) \cup {b}
      <4> SUFFICES ASSUME NEW i \in 1 .. Len(lh') PROVE lh'[i] \in Blocks(lh) \cup {b}
        BY Zenon DEF Blocks
      <4>1. CASE i = Len(lh) + 1
        BY <4>1, <3>2
      <4>2. CASE i # Len(lh) + 1
        <5>1. i \in 1 .. Len(lh)
          BY <4>2, <3>2, <1>6
        <5> QED
          BY <5>1, <1>7 DEF Blocks
      <4> QED
        BY <4>1, <4>2
    <3>4. Blocks(lh) \subseteq Blocks(lh')
      BY <1>7 DEF Blocks
    <3>5. b \in Blocks(lh')
      <4>1. Len(lh) + 1 \in 1 .. Len(lh')
        BY <3>2, <1>3
      <4> QED
        BY <4>1, <3>2 DEF Blocks
    <3> QED
      BY <3>3, <3>4, <3>5
  <2> QED
    BY <2>1, <2>2
<1>9. SpaceInv'
  <2> DEFINE used == Cardinality(wrote[p])
  <2>1. IsFiniteSet(wrote[p]) /\ used \in Nat /\ used <= OpBlocks /\ wrote[p] \subseteq Blocks(lh)
    BY <1>1, Zenon DEF IInv, SpaceInv, Counting, NumberFact
  <2>2. /\ IsFiniteSet(wrote'[p]) /\ Cardinality(wrote'[p]) \in Nat
        /\ Cardinality(wrote'[p]) <= OpBlocks /\ used <= Cardinality(wrote'[p])
        /\ b \notin Blocks(lh) => Cardinality(wrote'[p]) = used + 1
    <3>1. wrote'[p] = wrote[p] \cup {b}
      BY <1>4, <1>6, Zenon
    <3>2. /\ IsFiniteSet(wrote[p] \cup {b})
          /\ Cardinality(wrote[p] \cup {b}) = IF b \in wrote[p] THEN used ELSE used + 1
      BY <2>1, Zenon DEF Counting, AddFact
    <3>3. b \in wrote[p] \/ used < OpBlocks
      BY Zenon DEF LogWrite, Absent
    <3>4. OpBlocks \in Nat
      BY LogAssumption DEF LogAssumption
    <3> HIDE DEF used
    <3> QED
      BY <2>1, <3>1, <3>2, <3>3, <3>4
  <2>3. Active' = Active /\ \A q \in Procs : q # p => wrote'[q] = wrote[q]
    BY <1>4, <1>6, Zenon DEF Active
  <2>4. Unused' \subseteq Unused
    <3> SUFFICES ASSUME NEW t \in Unused' PROVE t \in Unused
      OBVIOUS
    <3>1. t \in Active \X (1 .. MAXOPBLOCKS) /\ Cardinality(wrote'[t[1]]) < t[2]
      BY <2>3 DEF Unused
    <3>2. t[1] \in Procs /\ t[2] \in Nat
      BY <3>1, LogAssumption DEF Active, LogAssumption
    <3>3. CASE t[1] = p
      BY <2>1, <2>2, <3>1, <3>2, <3>3 DEF Unused
    <3>4. CASE t[1] # p
      BY <2>3, <3>1, <3>2, <3>4, Zenon DEF Unused
    <3> QED
      BY <3>3, <3>4
  <2>5. <<p, MAXOPBLOCKS>> \in Unused'
    <3>1. Cardinality(wrote'[p]) < MAXOPBLOCKS /\ MAXOPBLOCKS \in 1 .. MAXOPBLOCKS
      BY <2>2, LogAssumption DEF LogAssumption, OpsFit
    <3> QED
      BY <3>1, <2>3, <1>5 DEF Unused
  <2>6. IsFiniteSet(Unused) /\ Cardinality(Unused) \in Nat
    BY UnusedFacts
  <2>7. IsFiniteSet(Unused') /\ Cardinality(Unused') \in Nat /\ Cardinality(Unused') <= Cardinality(Unused)
    BY <2>4, <2>6, Zenon DEF Counting, SubsetFact, NumberFact
  <2>8. Cardinality(Unused') >= 1
    <3>1. Cardinality(Unused') # 0
      BY <2>5, <2>7, Zenon DEF Counting, EmptyFact
    <3> QED
      BY <3>1, <2>7
  <2>9. b \notin Blocks(lh) => Cardinality(Unused') <= Cardinality(Unused) - 1
    <3> SUFFICES ASSUME b \notin Blocks(lh) PROVE Cardinality(Unused') <= Cardinality(Unused) - 1
      OBVIOUS
    <3>1. <<p, used + 1>> \in Unused
      <4>1. used + 1 \in 1 .. MAXOPBLOCKS /\ used < used + 1
        BY <2>1, LogAssumption DEF LogAssumption, OpsFit
      <4> QED
        BY <4>1, <1>5, Zenon DEF Unused
    <3>2. <<p, used + 1>> \notin Unused'
      <4>1. ~(Cardinality(wrote'[p]) < used + 1)
        BY <2>1, <2>2
      <4> QED
        BY <4>1 DEF Unused
    <3>3. Unused' \in SUBSET (Unused \ {<<p, used + 1>>})
      BY <2>4, <3>2
    <3>4. /\ IsFiniteSet(Unused \ {<<p, used + 1>>})
          /\ Cardinality(Unused \ {<<p, used + 1>>}) = Cardinality(Unused) - 1
      BY <2>6, <3>1, Zenon DEF Counting, RemoveFact
    <3> QED
      BY <3>3, <3>4, Zenon DEF Counting, SubsetFact
  <2>10. Len(lh') = IF b \notin Blocks(lh) THEN Len(lh) + 1 ELSE Len(lh)
    BY <1>4, <1>6
  <2>11. Len(lh) + Cardinality(Unused) <= LOGBLOCKS
    BY <1>2, Zenon DEF IInv, SpaceInv
  <2>12. Len(lh') + Cardinality(Unused') <= LOGBLOCKS /\ Len(lh') < LOGBLOCKS
    <3>1. LOGBLOCKS \in Nat
      BY LogAssumption DEF LogAssumption
    <3> QED
      BY <1>3, <2>6, <2>7, <2>8, <2>9, <2>10, <2>11, <3>1
  <2>13. ASSUME NEW q \in Procs
         PROVE  /\ IsFiniteSet(wrote'[q]) /\ Cardinality(wrote'[q]) <= OpBlocks
                /\ pc'[q] \in InOp => wrote'[q] \subseteq Blocks(lh')
    <3>1. CASE q = p
      BY <3>1, <2>1, <2>2, <1>4, <1>6, <1>8, Zenon
    <3>2. CASE q # p
      BY <3>2, <2>3, <1>4, <1>8, Zenon DEF IInv, SpaceInv
    <3> QED
      BY <3>1, <3>2, Zenon
  <2> QED
    BY <2>12, <2>13, Zenon DEF SpaceInv, Blocks
<1>10. CountInv'
  <2>1. outstanding' # 0
    BY <1>3, <1>4
  <2> QED
    BY <1>4, <1>5, <2>1, Zenon DEF IInv, CountInv, CommitAlone, NoPanic, Active, At
<1>11. BootInv'
  BY <1>2, <1>4, Zenon DEF BootInv
<1>12. TailInv'
  BY <1>2, <1>4, <1>5, Zenon DEF IInv, TailInv, At, InCommit
<1>13. HeadInv'
  <2>1. Injective(lh')
    <3>1. CASE b \in Blocks(lh)
      BY <3>1, <1>4, Zenon DEF IInv, HeadInv, Injective
    <3>2. CASE b \notin Blocks(lh)
      <4>1. lh' = Append(lh, b) /\ Injective(lh)
        BY <3>2, <1>4, Zenon DEF IInv, HeadInv
      <4>2. \A i \in 1 .. Len(lh) : lh[i] # b
        BY <3>2 DEF Blocks
      <4>3. Len(lh') = Len(lh) + 1 /\ lh'[Len(lh) + 1] = b
        BY <4>1, <1>6
      <4>4. \A i \in 1 .. Len(lh') : i \in 1 .. Len(lh) \/ i = Len(lh) + 1
        BY <4>3, <1>3
      <4> QED
        BY <4>1, <4>2, <4>3, <4>4, <1>7 DEF Injective
    <3> QED
      BY <3>1, <3>2
  <2> QED
    BY <1>2, <1>4, <1>5, <2>1, Zenon DEF IInv, HeadInv, At, InCommit
<1>14. CopyInv'
  BY <1>2, <1>4, <1>5, Zenon DEF CopyInv, At, InCommit
<1>15. CleanInv'
  <2>1. \A q \in Procs : pc'[q] # "install" /\ pc'[q] # "clear"
    BY <1>4, <1>5, Zenon DEF At, InCommit
  <2>2. \A q \in Procs : pc[q] # "install" /\ pc[q] # "clear"
    BY <1>5 DEF At, InCommit
  <2>3. \A c \in Home : pin[c] = IF c \in Blocks(lh) THEN 1 ELSE 0
    BY <1>2, <2>2 DEF IInv, CleanInv, PinsMatchLog, Blocks
  <2>4. \A c \in Home : pin'[c] = IF c \in Blocks(lh') THEN 1 ELSE 0
    BY <2>3, <1>4, <1>6, <1>8
  <2>5. PinsMatchLog'
    BY <2>1, <2>4 DEF PinsMatchLog, Blocks
  <2>6. ASSUME NEW c \in Home
        PROVE  IF pin'[c] = 0 THEN cache'[c] \in {NoVal, disk'[c]} ELSE cache'[c] # NoVal
    <3>0. cache \in [Home -> Val \cup {Torn, NoVal}] /\ v # NoVal
      BY LogAssumption, Zenon DEF IInv, TypeOK, LogAssumption
    <3>1. CASE c = b
      BY <3>0, <3>1, <2>4, <1>4, <1>8
    <3>2. CASE c # b
      <4>1. cache'[c] = cache[c] /\ disk' = disk /\ pin'[c] = pin[c]
        BY <3>0, <3>2, <1>4, <1>6, Zenon
      <4> QED
        BY <4>1, <1>2, Zenon DEF IInv, CleanInv
    <3> QED
      BY <3>1, <3>2, Zenon
  <2> QED
    BY <2>5, <2>6, Zenon DEF CleanInv
<1>16. SyncInv'
  <2>1. lh' # <<>>
    BY <1>8 DEF Blocks
  <2>2. ~At({"install", "clear", "finish"})'
    BY <1>4, <1>5, Zenon DEF At, InCommit
  <2> QED
    BY <1>2, <1>3, <1>4, <2>1, <2>2, Zenon DEF IInv, SyncInv, SleepersHaveWaker
<1> QED
  BY <1>9, <1>10, <1>11, <1>12, <1>13, <1>14, <1>15, <1>16, Zenon DEF IInv

(* end_op() keeps the invariant: it gives back what the call did not use,  *)
(* and the last call takes log.committing before it drops log.lock.        *)
LEMMA EndStep ==
  ASSUME Counting, IInv, TypeOK', NEW p \in Procs, EndOp(p)
  PROVE  IInv'
<1> USE DEF memory, loghdr, history
<1>1. pc[p] = "op" /\ pc[p] \in InOp /\ boot = "up"
  BY Zenon DEF EndOp, InOp, IInv, BootInv
<1>2. /\ outstanding \in Nat /\ outstanding >= 1 /\ IsFiniteSet(Active) /\ p \in Active
      /\ Cardinality(Active \ {p}) = outstanding - 1
  BY <1>1, LastCall, Zenon
<1>3. ~committing /\ ~At(InCommit)
  BY <1>2 DEF IInv, CountInv
<1>4. /\ outstanding' = outstanding - 1 /\ committing' = (outstanding' = 0)
      /\ asleep' = IF outstanding' = 0 THEN asleep ELSE {}
      /\ unsaved' = (unsaved \/ wrote[p] # {})
      /\ UNCHANGED <<disk, dhead, cache, pin, lock, lh, ncommit, tail, goal, boot, wrote, owed>>
  BY <1>3, Zenon DEF EndOp
<1>5. pc' = [pc EXCEPT ![p] = IF outstanding' # 0 THEN "idle"
                              ELSE IF lh = <<>> THEN "finish" ELSE "write_log"]
  BY <1>3, Zenon DEF EndOp
<1>6. pc \in [Procs -> PC] /\ lh \in Seq(Home) /\ wrote \in [Procs -> SUBSET Home] /\ owed \subseteq Procs
  BY Zenon DEF IInv, TypeOK
<1>7. Active' = Active \ {p} /\ \A q \in Procs : q # p => pc'[q] = pc[q]
  BY <1>5, <1>6 DEF Active, InOp
<1>8. pc'[p] = IF outstanding' # 0 THEN "idle" ELSE IF lh = <<>> THEN "finish" ELSE "write_log"
  BY <1>5, <1>6
<1>9. \A q \in Procs : q # p => pc[q] \notin InCommit /\ pc'[q] \notin InCommit
  BY <1>3, <1>7 DEF At
<1>10. SpaceInv'
  <2>1. Unused' \in SUBSET Unused
    BY <1>4, <1>7, Zenon DEF Unused
  <2>2. Cardinality(Unused) \in Nat /\ IsFiniteSet(Unused)
    BY UnusedFacts
  <2>3. Cardinality(Unused') <= Cardinality(Unused) /\ Cardinality(Unused') \in Nat
    BY <2>1, <2>2 DEF Counting, SubsetFact, NumberFact
  <2>4. Len(lh) + Cardinality(Unused) <= LOGBLOCKS /\ Len(lh) \in Nat /\ LOGBLOCKS \in Nat
    BY <1>1, <1>6, LogAssumption DEF LogAssumption, IInv, SpaceInv
  <2>5. Len(lh') + Cardinality(Unused') <= LOGBLOCKS
    <3>1. lh' = lh
      BY <1>4
    <3>2. ASSUME NEW n \in Nat, NEW u \in Nat, NEW v \in Nat, NEW m \in Nat,
                 n + u <= m, v <= u
          PROVE  n + v <= m
      BY <3>2
    <3> QED
      BY <2>2, <2>3, <2>4, <3>1, <3>2
  <2>6. \A q \in Procs : pc'[q] \in InOp => pc[q] \in InOp
    BY <1>7, <1>1
  <2> QED
    BY <1>4, <2>5, <2>6, Zenon DEF IInv, SpaceInv, Blocks
<1>11. CountInv'
  <2>1. outstanding' = Cardinality(Active')
    BY <1>2, <1>4, <1>7, Zenon
  <2>2. committing' => \A q \in Procs : pc'[q] \notin InOp
    <3>1. committing' => Active' = {}
      <4>1. IsFiniteSet(Active')
        BY <1>2, <1>7, Zenon DEF Counting, RemoveFact
      <4> QED
        BY <1>4, <2>1, <4>1, Zenon DEF Counting, EmptyFact
    <3> QED
      BY <3>1 DEF Active
  <2>3. committing' <=> pc'[p] \in InCommit
    BY <1>4, <1>8, Zenon DEF InCommit
  <2>4. committing' <=> At(InCommit)'
    BY <1>9, <2>3 DEF At
  <2>5. CommitAlone'
    BY <1>9, <2>2, <2>3 DEF CommitAlone
  <2>6. NoPanic'
    BY <1>7, <1>8, Zenon DEF IInv, CountInv, NoPanic
  <2> QED
    BY <1>4, <2>1, <2>4, <2>5, <2>6, Zenon DEF CountInv
<1>12. BootInv'
  BY <1>1, <1>4, Zenon DEF BootInv
<1>13. TailInv'
  <2>1. Len(lh) \in Nat /\ (lh # <<>> => 0 < Len(lh))
    BY <1>6
  <2>2. tail = 0
    BY <1>1, <1>3, Zenon DEF IInv, TailInv, At, InCommit
  <2>3. /\ At({"write_log", "install"})' => lh # <<>>
        /\ ~At({"write_head", "clear"})'
        /\ At({"finish"})' => lh = <<>>
    BY <1>8, <1>9 DEF At, InCommit
  <2> QED
    BY <1>1, <1>4, <2>1, <2>2, <2>3, Zenon DEF TailInv
<1>14. HeadInv'
  <2>1. ~At({"install", "clear"})' /\ ~At({"install", "clear"})
    BY <1>3, <1>8, <1>9, Zenon DEF At, InCommit
  <2> QED
    BY <1>1, <1>4, <2>1 DEF IInv, HeadInv, Injective
<1>15. CopyInv'
  <2>1. ~At({"write_head", "install", "clear"})' /\ ~At({"install"})' /\ ~At({"clear"})'
    BY <1>8, <1>9 DEF At, InCommit
  <2>2. tail' = 0
    BY <1>1, <1>3, <1>4, Zenon DEF IInv, TailInv, At, InCommit
  <2> QED
    BY <1>1, <1>4, <2>1, <2>2 DEF CopyInv
<1>16. CleanInv'
  <2>1. \A q \in Procs : pc'[q] # "install" /\ pc'[q] # "clear" /\ pc[q] # "install" /\ pc[q] # "clear"
    BY <1>1, <1>8, <1>9, Zenon DEF InCommit
  <2>2. PinsMatchLog'
    BY <1>4, <2>1 DEF IInv, CleanInv, PinsMatchLog
  <2> QED
    BY <1>4, <2>2, Zenon DEF IInv, CleanInv
<1>17. SyncInv'
  <2>1. unsaved' => lh' # <<>>
    <3>1. wrote[p] # {} => lh # <<>>
      BY <1>1, <1>6 DEF IInv, SpaceInv, Blocks
    <3> QED
      BY <1>4, <3>1, Zenon DEF IInv, SyncInv
  <2>2. At({"install", "clear", "finish"})' => ~unsaved'
    <3>1. At({"install", "clear", "finish"})' => lh = <<>>
      BY <1>8, <1>9 DEF At, InCommit
    <3> QED
      BY <1>4, <2>1, <3>1, Zenon
  <2>3. \A q \in Procs : pc'[q] = "sync" <=> pc[q] = "sync"
    BY <1>1, <1>7, <1>8
  <2>4. committing' \/ outstanding' > 0
    <3>1. outstanding' = 0 \/ outstanding' > 0
      BY <1>2, <1>4
    <3> QED
      BY <1>4, <3>1, Zenon
  <2>5. owed' # {} => unsaved'
    BY <1>4, Zenon DEF IInv, SyncInv
  <2> QED
    BY <1>1, <1>4, <1>6, <2>1, <2>2, <2>3, <2>4, <2>5, Zenon DEF IInv, SyncInv, SleepersHaveWaker
<1> QED
  BY <1>10, <1>11, <1>12, <1>13, <1>14, <1>15, <1>16, <1>17 DEF IInv

(* write_log() never writes a home block: the slots in use lie below the   *)
(* first block after the log region.                                       *)
LEMMA SlotsNotHome ==
  ASSUME OpsFit, IInv
  PROVE  /\ \A i \in 1 .. Len(lh) : i \in Slots /\ i \notin Home /\ lh[i] \in Home
         /\ \A i \in 1 .. Len(dhead) : i \in Slots /\ i \notin Home /\ dhead[i] \in Home
<1>1. lh \in Seq(Home) /\ dhead \in Seq(Home)
  BY Zenon DEF IInv, TypeOK
<1>2. Len(lh) < LOGBLOCKS /\ Len(dhead) < LOGBLOCKS
  BY DEF IInv, SpaceInv, HeadInv
<1>3. \A i \in Nat : 1 <= i /\ i < LOGBLOCKS => i \in Slots /\ i \notin Home
  BY LogAssumption DEF OpsFit, LogAssumption, Slots
<1>4. \A i \in 1 .. Len(lh) : i \in Nat /\ 1 <= i /\ i < LOGBLOCKS
  BY <1>1, <1>2, LogAssumption DEF LogAssumption
<1>5. \A i \in 1 .. Len(dhead) : i \in Nat /\ 1 <= i /\ i < LOGBLOCKS
  BY <1>1, <1>2, LogAssumption DEF LogAssumption
<1> QED
  BY <1>1, <1>3, <1>4, <1>5

(* A step of the committing process that leaves it in commit().            *)
(* A step inside commit() leaves calls, counters and recovery alone.       *)
LEMMA CommitFrame ==
  ASSUME Counting, IInv, NEW p \in Procs, pc[p] \in InCommit, NEW x \in InCommit,
         pc' = [pc EXCEPT ![p] = x],
         UNCHANGED <<outstanding, committing, boot, wrote, goal, ncommit, asleep>>
  PROVE  /\ boot' = "up" /\ committing' /\ outstanding' = 0
         /\ Active' = {} /\ Active = {}
         /\ \A q \in Procs : pc'[q] \notin InOp
         /\ \A q \in Procs \ {p} : pc'[q] \notin InCommit
         /\ \A S \in SUBSET InCommit : At(S)' <=> x \in S
         /\ \A S \in SUBSET InCommit : At(S) <=> pc[p] \in S
         /\ \A q \in Procs : pc'[q] = "sync" <=> pc[q] = "sync"
         /\ CountInv' /\ BootInv' /\ Unused' = {}
<1>1. /\ boot = "up" /\ committing /\ outstanding = 0
      /\ \A q \in Procs \ {p} : pc[q] \notin InOp \cup InCommit
      /\ \A q \in Procs : pc[q] \notin InOp
      /\ \A S \in SUBSET InCommit : At(S) <=> pc[p] \in S
  BY CommitterFacts, Zenon
<1>2. pc \in [Procs -> PC]
  BY Zenon DEF IInv, TypeOK
<1>3. pc'[p] = x /\ \A q \in Procs \ {p} : pc'[q] = pc[q]
  BY <1>2
<1>4. x \notin InOp /\ pc[p] # "sync" /\ x # "sync" /\ x # "panic"
  BY DEF InOp, InCommit
<1>5. Active' = {} /\ Active = {}
  BY <1>1, <1>3, <1>4 DEF Active
<1>6. ASSUME NEW S \in SUBSET InCommit PROVE At(S)' <=> x \in S
  BY <1>1, <1>3 DEF At
<1>7. CountInv'
  <2>1. CommitAlone'
    BY <1>1, <1>3, Zenon DEF CommitAlone
  <2>2. NoPanic'
    BY <1>3, <1>4, Zenon DEF IInv, CountInv, NoPanic
  <2>3. outstanding' = Cardinality(Active')
    BY <1>1, <1>5, Zenon DEF Counting, EmptyFact
  <2>4. At(InCommit)'
    BY <1>6
  <2> QED
    BY <1>1, <2>1, <2>2, <2>3, <2>4, Zenon DEF CountInv
<1>8. BootInv'
  BY <1>1, Zenon DEF BootInv
<1>9. Unused' = {}
  BY <1>5 DEF Unused
<1> QED
  BY <1>1, <1>3, <1>4, <1>5, <1>6, <1>7, <1>8, <1>9, Zenon

(* With no call in progress, a header that did not change keeps the space  *)
(* invariant.                                                              *)
LEMMA CommitSpace ==
  ASSUME Counting, IInv, Active' = {}, Unused' = {}, \A q \in Procs : pc'[q] \notin InOp,
         wrote' = wrote, lh' = lh
  PROVE  SpaceInv'
<1>1. Cardinality(Unused') = 0
  BY DEF Counting, EmptyFact
<1>2. Len(lh) \in Nat /\ Len(lh) < LOGBLOCKS /\ LOGBLOCKS \in Nat
  BY LogAssumption DEF LogAssumption, IInv, TypeOK, SpaceInv
<1>3. Len(lh') + Cardinality(Unused') <= LOGBLOCKS /\ Len(lh') < LOGBLOCKS
  BY <1>1, <1>2
<1> QED
  BY <1>3, Zenon DEF IInv, SpaceInv

(* One iteration of write_log() keeps the invariant: slots below tail hold *)
(* the data of their blocks.                                               *)
LEMMA WriteLogStep ==
  ASSUME Counting, OpsFit, IInv, TypeOK', NEW p \in Procs, WriteLog(p)
  PROVE  IInv'
<1> USE DEF memory, loghdr, history
<1> DEFINE from == lh[tail + 1]
           last == ~(tail + 1 < Len(lh))
           x == IF last THEN "write_head" ELSE "write_log"
<1>1. pc[p] = "write_log" /\ pc[p] \in InCommit /\ x \in InCommit
  BY Zenon DEF WriteLog, InCommit
<1>2. UNCHANGED <<dhead, pin, lock, lh, outstanding, committing, ncommit, asleep, goal, boot, wrote, unsaved, owed>>
  BY Zenon DEF WriteLog
<1>3. pc \in [Procs -> PC] /\ lh \in Seq(Home) /\ tail \in Nat /\ cache \in [Home -> Val \cup {Torn, NoVal}]
      /\ disk \in [Slots \cup Home -> Val \cup {Torn}] /\ owed \subseteq Procs
  BY Zenon DEF IInv, TypeOK
<1>4. pc' = [pc EXCEPT ![p] = x] /\ tail' = IF last THEN 0 ELSE tail + 1
  BY <1>1, <1>3, Zenon DEF WriteLog, NextTail
<1>5. /\ boot = "up" /\ boot' = "up" /\ committing' /\ outstanding' = 0
      /\ Active' = {} /\ \A q \in Procs : pc'[q] \notin InOp
      /\ \A S \in SUBSET InCommit : At(S)' <=> x \in S
      /\ \A S \in SUBSET InCommit : At(S) <=> pc[p] \in S
      /\ \A q \in Procs : pc'[q] = "sync" <=> pc[q] = "sync"
      /\ CountInv' /\ BootInv' /\ Unused' = {}
  <2> HIDE DEF x
  <2> QED
    BY <1>1, <1>2, <1>4, CommitFrame, Zenon
<1>6. tail + 1 \in 1 .. Len(lh) /\ from \in Home /\ tail + 1 \in Slots /\ tail + 1 \notin Home
  BY <1>1, TailInLog, SlotsNotHome, Zenon DEF At
<1>7. \A q \in Procs : /\ pc[q] # "install" /\ pc[q] # "clear"
                       /\ pc'[q] # "install" /\ pc'[q] # "clear"
  <2>1. ~At({"install", "clear"}) /\ ~At({"install", "clear"})'
    BY <1>1, <1>5, PhaseSets, Zenon
  <2> QED
    BY <2>1 DEF At
<1>8. \A i \in 1 .. Len(lh) : pin[lh[i]] = 1 /\ cache[lh[i]] # NoVal /\ lh[i] \in Home
  <2> SUFFICES ASSUME NEW i \in 1 .. Len(lh)
              PROVE  pin[lh[i]] = 1 /\ cache[lh[i]] # NoVal /\ lh[i] \in Home
    BY Zenon
  <2>1. lh[i] \in Home
    BY ONLY <1>3, i \in 1 .. Len(lh)
  <2>2. \A q \in Procs : (pc[q] = "install" => tail < i) /\ pc[q] # "clear"
    BY <1>7, Zenon
  <2>3. pin[lh[i]] = 1
    <3>1. PICK c : c = lh[i]
      BY Zenon
    <3>2. \E j \in 1 .. Len(lh) :
             /\ lh[j] = c
             /\ \A q \in Procs : (pc[q] = "install" => tail < j) /\ pc[q] # "clear"
      BY <2>2, <3>1, Zenon
    <3>3. c \in Home /\ PinsMatchLog
      BY <2>1, <3>1, Zenon DEF IInv, CleanInv
    <3> QED
      BY ONLY <1>5, <3>1, <3>2, <3>3 DEF PinsMatchLog
  <2>4. pin[lh[i]] # 0
    BY ONLY <2>3
  <2> QED
    BY <1>5, <2>1, <2>3, <2>4, Zenon DEF IInv, CleanInv
<1>9. cache' = cache /\ disk' = [disk EXCEPT ![tail + 1] = cache[from]]
  BY <1>3, <1>6, <1>8, Zenon DEF WriteLog, Data
<1>10. \A b \in Home : disk'[b] = disk[b]
  BY <1>3, <1>6, <1>9, Zenon
<1>11. disk'[tail + 1] = cache[from] /\ \A i \in 1 .. tail : disk'[i] = disk[i] /\ i \in 1 .. Len(lh)
  BY <1>3, <1>6, <1>9, SlotsNotHome
<1>12. SpaceInv'
  BY <1>2, <1>5, CommitSpace, Zenon
<1>13. TailInv'
  <2>1. At({"write_log", "install"})' <=> ~last
    BY <1>5, PhaseSets, Zenon
  <2>2. At({"write_head", "clear"})' <=> last
    BY <1>5, PhaseSets, Zenon
  <2>3. ~At({"finish"})'
    BY <1>5, PhaseSets, Zenon
  <2>4. lh # <<>>
    BY <1>6, <1>3
  <2> QED
    BY <1>2, <1>3, <1>4, <1>5, <1>6, <2>1, <2>2, <2>3, <2>4, Zenon DEF TailInv
<1>14. HeadInv'
  <2>1. ~At({"install", "clear"})' /\ ~At({"install", "clear"})
    BY <1>7 DEF At
  <2> QED
    BY <1>2, <1>5, <2>1 DEF IInv, HeadInv, Injective
<1>15. CopyInv'
  <2>1. At({"write_log"})' => ~last
    BY <1>5, PhaseSets, Zenon
  <2>2. At({"write_head", "install", "clear"})' => last
    BY <1>5, PhaseSets, Zenon
  <2>3. ~At({"install"})' /\ ~At({"clear"})'
    BY <1>7 DEF At
  <2>4. \A i \in 1 .. tail + 1 : disk'[i] = cache[lh[i]]
    <3>1. \A i \in 1 .. tail : disk[i] = Data(lh[i])
      BY <1>1, <1>5, Zenon DEF IInv, CopyInv, InCommit
    <3>2. \A i \in 1 .. tail : disk'[i] = cache[lh[i]]
      BY <3>1, <1>8, <1>11, Zenon DEF Data
    <3>3. \A i \in 1 .. tail + 1 : i \in 1 .. tail \/ i = tail + 1
      BY <1>3
    <3> QED
      BY <3>2, <3>3, <1>11, Zenon
  <2>5. \A i \in 1 .. Len(lh) : Data(lh[i])' = cache[lh[i]]
    BY <1>2, <1>8, <1>9, Zenon DEF Data
  <2>6. last => tail + 1 = Len(lh)
    BY <1>3, <1>6
  <2>7. \A i \in 1 .. tail + 1 : i \in 1 .. Len(lh)
    BY <1>3, <1>6
  <2>8. ~last => tail' = tail + 1
    BY <1>4
  <2> HIDE DEF last
  <2> QED
    BY <1>2, <1>5, <2>1, <2>2, <2>3, <2>4, <2>5, <2>6, <2>7, <2>8, Zenon DEF CopyInv
<1>16. CleanInv'
  <2>1. PinsMatchLog'
    BY <1>2, <1>7 DEF IInv, CleanInv, PinsMatchLog
  <2> QED
    BY <1>2, <1>9, <1>10, <2>1, Zenon DEF IInv, CleanInv
<1>17. SyncInv'
  <2>1. ~At({"install", "clear", "finish"})'
    BY <1>5, PhaseSets, Zenon
  <2> QED
    BY <1>2, <1>3, <1>5, <2>1, Zenon DEF IInv, SyncInv, SleepersHaveWaker
<1> QED
  BY <1>5, <1>12, <1>13, <1>14, <1>15, <1>16, <1>17, Zenon DEF IInv

(* write_head(), the commit point, keeps the invariant: the header on disk *)
(* now names slots that are all written.                                   *)
LEMMA WriteHeadStep ==
  ASSUME Counting, OpsFit, IInv, TypeOK', NEW p \in Procs, WriteHead(p)
  PROVE  IInv'
<1> USE DEF memory, loghdr, history
<1>1. pc[p] = "write_head" /\ pc[p] \in InCommit /\ "install" \in InCommit
  BY DEF WriteHead, InCommit
<1>2. /\ UNCHANGED <<disk, cache, pin, lock, lh, outstanding, committing, ncommit, tail, asleep, goal, boot, wrote>>
      /\ dhead' = lh /\ pc' = [pc EXCEPT ![p] = "install"] /\ unsaved' = FALSE /\ owed' = {}
  BY DEF WriteHead
<1>3. lh \in Seq(Home) /\ tail \in Nat
  BY Zenon DEF IInv, TypeOK
<1>4. /\ boot = "up" /\ boot' = "up" /\ committing' /\ outstanding' = 0
      /\ Active' = {} /\ \A q \in Procs : pc'[q] \notin InOp
      /\ \A S \in SUBSET InCommit : At(S)' <=> "install" \in S
      /\ \A S \in SUBSET InCommit : At(S) <=> pc[p] \in S
      /\ \A q \in Procs : pc'[q] = "sync" <=> pc[q] = "sync"
      /\ CountInv' /\ BootInv' /\ Unused' = {}
  BY <1>1, <1>2, CommitFrame, Zenon
<1>5. tail = 0 /\ lh # <<>>
  BY <1>1, <1>4 DEF IInv, TailInv, InCommit
<1>6. 0 < Len(lh)
  BY <1>3, <1>5
<1>7. SpaceInv'
  BY <1>2, <1>4, CommitSpace, Zenon
<1>8. TailInv'
  BY <1>2, <1>4, <1>5, <1>6 DEF TailInv, InCommit
<1>9. HeadInv'
  <2>1. At({"install", "clear"})'
    BY <1>4, PhaseSets, Zenon
  <2> QED
    BY <1>2, <2>1 DEF IInv, HeadInv, SpaceInv, Injective
<1>10. CopyInv'
  <2>1. \A i \in 1 .. Len(lh) : disk[i] = Data(lh[i])
    BY <1>1, <1>4, Zenon DEF IInv, CopyInv, InCommit
  <2>2. \A i \in 1 .. Len(lh) : disk'[i] = Data(lh[i])'
    BY <1>2, <2>1, Zenon DEF Data
  <2> QED
    BY <1>2, <1>4, <1>5, <2>2 DEF CopyInv, InCommit
<1>11. CleanInv'
  <2>1. ~At({"install", "clear"}) /\ ~At({"clear"})'
    BY <1>1, <1>4, PhaseSets, Zenon
  <2>2. \A q \in Procs : pc[q] # "install" /\ pc[q] # "clear" /\ pc'[q] # "clear"
    BY <2>1 DEF At
  <2>3. PinsMatchLog'
    BY <1>2, <1>5, <2>2 DEF IInv, CleanInv, PinsMatchLog
  <2> QED
    BY <1>2, <2>3, Zenon DEF IInv, CleanInv
<1>12. SyncInv'
  BY <1>2, <1>4, Zenon DEF IInv, SyncInv, SleepersHaveWaker
<1> QED
  BY <1>4, <1>7, <1>8, <1>9, <1>10, <1>11, <1>12, Zenon DEF IInv

-----------------------------------------------------------------------------
(* The rest of commit(), crashes and recovery                              *)

(* One iteration of install_trans(0) keeps the invariant: the block on     *)
(* disk equals its slot before the buffer is unpinned.                     *)
LEMMA InstallStep ==
  ASSUME Counting, OpsFit, IInv, TypeOK', NEW p \in Procs, InstallBlock(p)
  PROVE  IInv'
<1> USE DEF memory, loghdr, history
<1> DEFINE dst == lh[tail + 1]
           last == ~(tail + 1 < Len(lh))
           x == IF last THEN "clear" ELSE "install"
<1>1. pc[p] = "install" /\ pc[p] \in InCommit /\ x \in InCommit
  BY Zenon DEF InstallBlock, InCommit
<1>2. UNCHANGED <<dhead, lock, lh, outstanding, committing, ncommit, asleep, goal, boot, wrote, unsaved, owed>>
  BY Zenon DEF InstallBlock
<1>3. /\ pc \in [Procs -> PC] /\ lh \in Seq(Home) /\ tail \in Nat /\ cache \in [Home -> Val \cup {Torn, NoVal}]
      /\ disk \in [Slots \cup Home -> Val \cup {Torn}] /\ owed \subseteq Procs /\ pin \in [Home -> Nat]
  BY Zenon DEF IInv, TypeOK
<1>4. pc' = [pc EXCEPT ![p] = x] /\ tail' = IF last THEN 0 ELSE tail + 1
  BY <1>1, <1>3, Zenon DEF InstallBlock, NextTail
<1>5. /\ boot = "up" /\ boot' = "up" /\ committing' /\ outstanding' = 0
      /\ Active' = {} /\ \A q \in Procs : pc'[q] \notin InOp
      /\ \A S \in SUBSET InCommit : At(S)' <=> x \in S
      /\ \A S \in SUBSET InCommit : At(S) <=> pc[p] \in S
      /\ \A q \in Procs : pc'[q] = "sync" <=> pc[q] = "sync"
      /\ CountInv' /\ BootInv' /\ Unused' = {}
  <2> HIDE DEF x
  <2> QED
    BY <1>1, <1>2, <1>4, CommitFrame, Zenon
<1>6. tail + 1 \in 1 .. Len(lh) /\ dst \in Home /\ tail + 1 \in Slots /\ tail + 1 \notin Home
  BY <1>1, TailInLog, SlotsNotHome, Zenon DEF At
<1>7. /\ disk' = [disk EXCEPT ![dst] = disk[tail + 1]]
      /\ cache' = [cache EXCEPT ![dst] = disk[tail + 1]]
      /\ pin' = [pin EXCEPT ![dst] = pin[dst] - 1]
  BY Zenon DEF InstallBlock
<1>8. disk[tail + 1] \in Val \cup {Torn} /\ disk[tail + 1] # NoVal
  BY <1>3, <1>6, LogAssumption, Zenon DEF LogAssumption
<1>9. \A i \in 1 .. Len(lh) : disk'[i] = disk[i] /\ lh[i] \in Home
  BY <1>3, <1>6, <1>7, SlotsNotHome
<1>10. \A i \in 1 .. Len(lh) : i # tail + 1 => lh[i] # dst
  BY <1>6, Zenon DEF IInv, HeadInv, Injective
<1>11. \A b \in Home : b # dst => disk'[b] = disk[b] /\ cache'[b] = cache[b] /\ pin'[b] = pin[b]
  BY <1>3, <1>6, <1>7, Zenon
<1>12. disk'[dst] = disk[tail + 1] /\ cache'[dst] = disk[tail + 1] /\ pin'[dst] = pin[dst] - 1
  BY <1>3, <1>6, <1>7, Zenon
<1>13. last => tail + 1 = Len(lh)
  BY <1>3, <1>6
<1>14. SpaceInv'
  BY <1>2, <1>5, CommitSpace, Zenon
<1>15. TailInv'
  <2>1. At({"write_log", "install"})' <=> ~last
    BY <1>5, PhaseSets, Zenon
  <2>2. ~At({"finish"})'
    BY <1>5, PhaseSets, Zenon
  <2>3. lh # <<>>
    BY <1>6, <1>3
  <2> QED
    BY <1>2, <1>3, <1>4, <1>5, <1>6, <2>1, <2>2, <2>3, Zenon DEF TailInv
<1>16. HeadInv'
  <2>1. At({"install", "clear"})' /\ At({"install", "clear"})
    BY <1>1, <1>5, PhaseSets, Zenon
  <2> QED
    BY <1>2, <1>5, <2>1 DEF IInv, HeadInv, Injective
<1>17. CopyInv'
  <2>1. At({"install"})' => ~last
    BY <1>5, PhaseSets, Zenon
  <2>2. At({"clear"})' => last
    BY <1>5, PhaseSets, Zenon
  <2>3. ~At({"write_log"})'
    BY <1>5, PhaseSets, Zenon
  <2>4. \A i \in 1 .. Len(lh) : disk'[i] = Data(lh[i])'
    <3>1. \A i \in 1 .. Len(lh) : disk[i] = Data(lh[i])
      BY <1>1, <1>5, Zenon DEF IInv, CopyInv, InCommit
    <3> SUFFICES ASSUME NEW i \in 1 .. Len(lh) PROVE disk'[i] = Data(lh[i])'
      OBVIOUS
    <3>2. CASE i = tail + 1
      BY <1>2, <1>8, <1>9, <1>12, <3>2, Zenon DEF Data
    <3>3. CASE i # tail + 1
      BY <1>2, <1>9, <1>10, <1>11, <3>1, <3>3 DEF Data
    <3> QED
      BY <3>2, <3>3
  <2>5. \A i \in 1 .. tail + 1 : disk'[lh[i]] = disk'[i]
    <3>1. \A i \in 1 .. tail : disk[lh[i]] = disk[i]
      BY <1>1, <1>5, Zenon DEF IInv, CopyInv, InCommit
    <3>2. \A i \in 1 .. tail + 1 : i \in 1 .. Len(lh) /\ (i \in 1 .. tail \/ i = tail + 1)
      BY <1>3, <1>6
    <3>3. \A i \in 1 .. tail : i # tail + 1
      BY <1>3
    <3> QED
      BY <3>1, <3>2, <3>3, <1>9, <1>10, <1>11, <1>12
  <2>6. ~last => tail' = tail + 1
    BY <1>4
  <2> HIDE DEF last
  <2> QED
    BY <1>2, <1>5, <1>13, <2>1, <2>2, <2>3, <2>4, <2>5, <2>6, Zenon DEF CopyInv
<1>18. CleanInv'
  <2>1. \A q \in Procs : pc[q] # "clear" /\ (pc[q] = "install" <=> q = p)
    <3>1. ~At({"clear"})
      BY <1>1, <1>5, PhaseSets, Zenon
    <3>2. \A q \in Procs \ {p} : pc[q] \notin InOp \cup InCommit
      BY <1>1, CommitterFacts, Zenon
    <3> QED
      BY <3>1, <3>2, <1>1 DEF At, InCommit
  <2>2. \A b \in Home : pin[b] = IF \E i \in 1 .. Len(lh) : lh[i] = b /\ tail < i THEN 1 ELSE 0
    BY <1>5, <2>1 DEF IInv, CleanInv, PinsMatchLog
  <2>3. pin[dst] = 1
    BY <1>3, <1>6, <2>2
  <2>4. \A b \in Home : pin'[b] = IF \E i \in 1 .. Len(lh) : lh[i] = b /\ tail + 1 < i THEN 1 ELSE 0
    <3> SUFFICES ASSUME NEW b \in Home
                 PROVE pin'[b] = IF \E i \in 1 .. Len(lh) : lh[i] = b /\ tail + 1 < i THEN 1 ELSE 0
      OBVIOUS
    <3>1. CASE b = dst
      <4>1. pin'[b] = 0
        BY <1>12, <2>3, <3>1
      <4>2. \A i \in 1 .. Len(lh) : tail + 1 < i => lh[i] # b
        BY <1>3, <1>10, <3>1
      <4> QED
        BY <4>1, <4>2
    <3>2. CASE b # dst
      <4>1. pin'[b] = pin[b]
        BY <1>11, <3>2
      <4>2. \A i \in 1 .. Len(lh) : lh[i] = b => (tail < i <=> tail + 1 < i)
        BY <1>3, <3>2
      <4> QED
        BY <2>2, <4>1, <4>2
    <3> QED
      BY <3>1, <3>2, Zenon
  <2>5. PinsMatchLog'
    <3>1. CASE last
      <4>1. \E q \in Procs : pc'[q] = "clear"
        BY <1>3, <1>4, <3>1
      <4>2. \A b \in Home : pin'[b] = 0
        BY <1>3, <1>13, <2>4, <3>1
      <4> QED
        BY <4>1, <4>2 DEF PinsMatchLog
    <3>2. CASE ~last
      <4>1. \A q \in Procs : pc'[q] # "clear" /\ (pc'[q] = "install" <=> q = p)
        BY <1>3, <1>4, <2>1, <3>2, Zenon
      <4>2. tail' = tail + 1
        BY <1>4, <3>2
      <4> QED
        BY <1>2, <2>4, <4>1, <4>2 DEF PinsMatchLog
    <3> QED
      BY <3>1, <3>2
  <2>6. ASSUME NEW b \in Home
        PROVE  IF pin'[b] = 0 THEN cache'[b] \in {NoVal, disk'[b]} ELSE cache'[b] # NoVal
    <3>1. CASE b = dst
      BY <1>8, <1>12, <3>1, Zenon
    <3>2. CASE b # dst
      BY <1>5, <1>11, <3>2, Zenon DEF IInv, CleanInv
    <3> QED
      BY <3>1, <3>2, Zenon
  <2> QED
    BY <2>5, <2>6 DEF CleanInv
<1>19. SyncInv'
  <2>1. ~unsaved
    BY <1>1, <1>5, Zenon DEF IInv, SyncInv, InCommit
  <2> QED
    BY <1>2, <1>3, <1>5, <2>1, Zenon DEF IInv, SyncInv, SleepersHaveWaker
<1> QED
  BY <1>5, <1>14, <1>15, <1>16, <1>17, <1>18, <1>19, Zenon DEF IInv

(* Erasing the header after install_trans(0) keeps the invariant: every    *)
(* home block holds what its slot holds.                                   *)
LEMMA EraseStep ==
  ASSUME Counting, OpsFit, IInv, TypeOK', NEW p \in Procs, EraseHead(p)
  PROVE  IInv'
<1> USE DEF memory, loghdr, history
<1>1. pc[p] = "clear" /\ pc[p] \in InCommit /\ "finish" \in InCommit
  BY DEF EraseHead, InCommit
<1>2. /\ UNCHANGED <<disk, cache, pin, lock, outstanding, committing, ncommit, tail, asleep, goal, boot, wrote, unsaved, owed>>
      /\ dhead' = <<>> /\ lh' = <<>> /\ pc' = [pc EXCEPT ![p] = "finish"]
  BY DEF EraseHead
<1>3. /\ boot = "up" /\ boot' = "up" /\ committing' /\ outstanding' = 0
      /\ Active' = {} /\ \A q \in Procs : pc'[q] \notin InOp
      /\ \A S \in SUBSET InCommit : At(S)' <=> "finish" \in S
      /\ \A S \in SUBSET InCommit : At(S) <=> pc[p] \in S
      /\ \A q \in Procs : pc'[q] = "sync" <=> pc[q] = "sync"
      /\ CountInv' /\ BootInv' /\ Unused' = {}
  BY <1>1, <1>2, CommitFrame, Zenon
<1>4. Len(lh') = 0 /\ 0 < LOGBLOCKS
  BY <1>2, LogAssumption DEF LogAssumption
<1>5. SpaceInv'
  <2>1. Cardinality(Unused') = 0
    BY <1>3, Zenon DEF Counting, EmptyFact
  <2>2. Len(lh') + Cardinality(Unused') <= LOGBLOCKS /\ Len(lh') < LOGBLOCKS
    BY <1>4, <2>1, LogAssumption DEF LogAssumption
  <2> QED
    BY <1>2, <1>3, <2>2, Zenon DEF IInv, SpaceInv
<1>6. TailInv'
  BY <1>1, <1>2, <1>3 DEF IInv, TailInv, InCommit
<1>7. HeadInv'
  BY <1>2, <1>3, <1>4 DEF HeadInv, Injective, InCommit
<1>8. CopyInv'
  BY <1>3 DEF CopyInv, InCommit
<1>9. CleanInv'
  <2>1. \A b \in Home : pin[b] = 0
    BY <1>1, <1>3, Zenon DEF IInv, CleanInv, PinsMatchLog
  <2>2. PinsMatchLog'
    BY <1>2, <1>4, <2>1 DEF PinsMatchLog
  <2> QED
    BY <1>2, <2>2, Zenon DEF IInv, CleanInv
<1>10. SyncInv'
  <2>1. ~unsaved
    BY <1>1, <1>3, Zenon DEF IInv, SyncInv, InCommit
  <2> QED
    BY <1>2, <1>3, <2>1, Zenon DEF IInv, SyncInv, SleepersHaveWaker
<1> QED
  BY <1>3, <1>5, <1>6, <1>7, <1>8, <1>9, <1>10, Zenon DEF IInv

(* The end of end_op() keeps the invariant: the log is empty when          *)
(* log.committing is cleared, and all sleepers are woken.                  *)
LEMMA FinishStep ==
  ASSUME Counting, IInv, TypeOK', NEW p \in Procs, FinishCommit(p)
  PROVE  IInv'
<1> USE DEF memory, loghdr, history
<1>1. pc[p] = "finish" /\ pc[p] \in InCommit
  BY DEF FinishCommit, InCommit
<1>2. /\ UNCHANGED <<disk, dhead, cache, pin, lock, lh, outstanding, tail, goal, boot, wrote, unsaved, owed>>
      /\ committing' = FALSE /\ ncommit' = ncommit + 1 /\ asleep' = {}
      /\ pc' = [pc EXCEPT ![p] = "idle"]
  BY DEF FinishCommit
<1>3. /\ boot = "up" /\ committing /\ outstanding = 0
      /\ \A q \in Procs \ {p} : pc[q] \notin InOp \cup InCommit
      /\ \A S \in SUBSET InCommit : At(S) <=> pc[p] \in S
      /\ \A q \in Procs : pc[q] \notin InOp
  BY <1>1, CommitterFacts, Zenon
<1>4. pc \in [Procs -> PC] /\ ncommit \in Nat /\ goal \in [Procs -> Nat] /\ LOGBLOCKS \in Nat
  BY LogAssumption, Zenon DEF LogAssumption, IInv, TypeOK
<1>5. pc'[p] = "idle" /\ \A q \in Procs \ {p} : pc'[q] = pc[q]
  BY <1>2, <1>4, Zenon
<1>6. \A q \in Procs : pc'[q] \notin InOp \cup InCommit
  BY <1>3, <1>5 DEF InOp, InCommit
<1>7. ~At(InCommit)' /\ \A S \in SUBSET InCommit : ~At(S)'
  BY <1>6 DEF At
<1>8. Active' = {}
  BY <1>6 DEF Active
<1>9. lh = <<>>
  BY <1>1, <1>3, Zenon DEF IInv, TailInv, InCommit
<1>10. SpaceInv'
  <2>1. Cardinality(Unused') = 0
    BY <1>8 DEF Unused, Counting, EmptyFact
  <2>2. Len(lh') = 0 /\ 0 < LOGBLOCKS
    BY <1>2, <1>9, LogAssumption DEF LogAssumption
  <2>3. Len(lh') + Cardinality(Unused') <= LOGBLOCKS /\ Len(lh') < LOGBLOCKS
    BY <1>4, <2>1, <2>2
  <2> QED
    BY <1>2, <1>6, <2>3, Zenon DEF IInv, SpaceInv
<1>11. CountInv'
  <2>1. Cardinality(Active') = 0
    BY <1>8 DEF Counting, EmptyFact
  <2>2. CommitAlone' /\ NoPanic'
    BY <1>5, <1>6, Zenon DEF IInv, CountInv, CommitAlone, NoPanic
  <2> QED
    BY <1>2, <1>3, <1>7, <1>9, <2>1, <2>2, Zenon DEF CountInv
<1>12. BootInv'
  BY <1>2, <1>3, Zenon DEF BootInv
<1>13. TailInv'
  <2>1. tail = 0
    BY <1>1, <1>3 DEF IInv, TailInv, InCommit
  <2> QED
    BY <1>2, <1>3, <1>7, <2>1, Zenon DEF TailInv, InCommit
<1>14. HeadInv'
  <2>1. ~At({"install", "clear"})
    BY <1>1, <1>3, PhaseSets, Zenon
  <2> QED
    BY <1>2, <1>3, <1>7, <2>1 DEF IInv, HeadInv, Injective, InCommit
<1>15. CopyInv'
  BY <1>2, <1>3, <1>7, Zenon DEF CopyInv, InCommit
<1>16. CleanInv'
  <2>1. PinsMatchLog'
    BY <1>2, <1>9 DEF IInv, CleanInv, PinsMatchLog
  <2> QED
    BY <1>2, <2>1, Zenon DEF IInv, CleanInv
<1>17. SyncInv'
  <2>1. ~unsaved /\ owed = {}
    BY <1>1, <1>3, Zenon DEF IInv, SyncInv, InCommit
  <2>2. \A q \in Procs : pc'[q] = "sync" => goal[q] <= ncommit + 1 /\ ~(ncommit + 1 < goal[q])
    BY <1>1, <1>4, <1>5 DEF IInv, SyncInv
  <2>3. \A q \in Procs : pc'[q] = "sync" => goal'[q] <= ncommit' + 1 /\ ~(ncommit' < goal'[q])
    BY <1>2, <1>4, <2>2
  <2> QED
    BY <1>2, <2>1, <2>3, Zenon DEF SyncInv, SleepersHaveWaker
<1> QED
  BY <1>10, <1>11, <1>12, <1>13, <1>14, <1>15, <1>16, <1>17 DEF IInv

(* Before recovery has finished there is no call, no commit, no sleeper    *)
(* and nothing owed to sys_sync().                                         *)
LEMMA BootFacts ==
  ASSUME Counting, IInv, boot # "up"
  PROVE  /\ Active = {} /\ Unused = {} /\ outstanding = 0 /\ ~committing
         /\ \A S : ~("idle" \in S) => ~At(S)
         /\ asleep = {} /\ ~unsaved /\ owed = {}
<1>1. \A q \in Procs : pc[q] = "idle"
  BY DEF IInv, BootInv
<1>2. Active = {}
  BY <1>1 DEF Active, InOp
<1>3. \A S : ~("idle" \in S) => ~At(S)
  BY <1>1 DEF At
<1>4. outstanding = 0
  BY <1>2 DEF IInv, CountInv, Counting, EmptyFact
<1>5. ~committing
  BY <1>3 DEF IInv, CountInv, InCommit
<1>6. asleep = {}
  BY <1>4, <1>5 DEF IInv, SyncInv, SleepersHaveWaker
<1>7. ~unsaved /\ owed = {}
  BY Zenon DEF IInv, SyncInv
<1>8. Unused = {}
  BY <1>2 DEF Unused
<1> QED
  BY <1>2, <1>3, <1>4, <1>5, <1>6, <1>7, <1>8

(* bget() recycling a buffer that nobody references keeps the invariant.   *)
LEMMA RecycleStep ==
  ASSUME Counting, IInv, TypeOK', NEW b \in Home, Recycle(b)
  PROVE  IInv'
<1> USE DEF memory, loghdr, history
<1>1. /\ UNCHANGED <<disk, dhead, pin, lock, lh, outstanding, committing, ncommit, tail, pc, asleep, goal, boot, wrote, unsaved, owed>>
      /\ pin[b] = 0 /\ cache' = [cache EXCEPT ![b] = NoVal]
  BY DEF Recycle
<1>2. \A c \in Home : cache'[c] = cache[c] \/ (pin[c] = 0 /\ cache'[c] = NoVal)
  BY <1>1, Zenon DEF IInv, TypeOK
<1>3. SyncInv'
  BY <1>1, Zenon DEF IInv, SyncInv, SleepersHaveWaker, At
<1>4. CASE boot = "up"
  <2>1. \A q \in Procs : Role(pc'[q]) = Role(pc[q])
    BY <1>1
  <2>2. SpaceInv' /\ CountInv' /\ BootInv' /\ TailInv' /\ HeadInv'
    BY <1>1, <1>4, <2>1, ClientFrame, Zenon
  <2>3. CopyInv' /\ CleanInv'
    BY <1>1, <1>2, <1>4, <2>1, BufferFrame, Zenon
  <2> QED
    BY <1>3, <2>2, <2>3 DEF IInv
<1>5. CASE boot # "up"
  <2>1. \A S : ~("idle" \in S) => ~At(S)
    BY <1>5, BootFacts
  <2>2. SpaceInv'
    BY <1>1 DEF IInv, SpaceInv, Unused, Active, Blocks
  <2>3. CountInv'
    BY <1>1, Zenon DEF IInv, CountInv, Active, At, CommitAlone, NoPanic
  <2>4. BootInv'
    BY <1>1, <1>2, <1>5, Zenon DEF IInv, BootInv
  <2>5. TailInv' /\ HeadInv'
    BY <1>1 DEF IInv, TailInv, HeadInv, At, Injective
  <2>6. CopyInv'
    BY <1>1, <2>1, Zenon DEF IInv, CopyInv, At
  <2>7. CleanInv'
    BY <1>1, <1>5, Zenon DEF CleanInv, PinsMatchLog
  <2> QED
    BY <1>3, <2>2, <2>3, <2>4, <2>5, <2>6, <2>7 DEF IInv
<1> QED
  BY <1>4, <1>5

(* What a kernel that has not finished recovery leaves alone.              *)
(* A step of recovery leaves processes and counters alone.                 *)
LEMMA BootFrame ==
  ASSUME Counting, IInv, boot # "up",
         UNCHANGED <<pin, outstanding, committing, ncommit, pc, asleep, goal, wrote, unsaved, owed>>,
         Len(lh') \in Nat, Len(lh') < LOGBLOCKS, boot' = "up" => lh' = <<>>
  PROVE  /\ SpaceInv' /\ CountInv' /\ SyncInv'
         /\ \A S : ~("idle" \in S) => ~At(S)'
         /\ \A q \in Procs : pc'[q] = "idle"
<1>1. /\ Active = {} /\ Unused = {} /\ outstanding = 0 /\ ~committing
      /\ \A S : ~("idle" \in S) => ~At(S)
      /\ asleep = {} /\ ~unsaved /\ owed = {}
  BY BootFacts
<1>2. \A q \in Procs : pc'[q] = "idle"
  BY Zenon DEF IInv, BootInv
<1>3. \A S : ~("idle" \in S) => ~At(S)'
  BY <1>2 DEF At
<1>4. Active' = {} /\ Cardinality(Active') = 0
  BY <1>1, Zenon DEF Active, Counting, EmptyFact
<1>5. Cardinality(Unused') = 0
  BY <1>4, Zenon DEF Unused, Counting, EmptyFact
<1>6. SpaceInv'
  <2>1. Len(lh') + Cardinality(Unused') <= LOGBLOCKS
    BY <1>5, LogAssumption DEF LogAssumption
  <2> QED
    BY <1>2, <2>1, Zenon DEF IInv, SpaceInv, InOp
<1>7. CountInv'
  <2>1. CommitAlone' /\ NoPanic' /\ ~At(InCommit)'
    BY <1>2, <1>3, Zenon DEF CommitAlone, NoPanic, InCommit
  <2> QED
    BY <1>1, <1>4, <2>1, Zenon DEF CountInv
<1>8. SyncInv'
  BY <1>1, <1>2, <1>3, Zenon DEF SyncInv, SleepersHaveWaker
<1> QED
  BY <1>2, <1>3, <1>6, <1>7, <1>8

(* read_head() at boot keeps the invariant.                                *)
LEMMA ReadHeadStep ==
  ASSUME Counting, IInv, TypeOK', ReadHead
  PROVE  IInv'
<1> USE DEF memory, loghdr, history
<1>1. /\ boot = "read_head" /\ lh' = dhead /\ boot' = (IF dhead = <<>> THEN "clear" ELSE "install")
      /\ UNCHANGED <<disk, dhead, cache, pin, lock, outstanding, committing, ncommit, tail, pc, asleep, goal, wrote, unsaved, owed>>
  BY DEF ReadHead
<1>2. dhead \in Seq(Home) /\ Len(dhead) < LOGBLOCKS
  BY Zenon DEF IInv, TypeOK, HeadInv
<1>3. /\ SpaceInv' /\ CountInv' /\ SyncInv'
      /\ \A S : ~("idle" \in S) => ~At(S)'
      /\ \A q \in Procs : pc'[q] = "idle"
  BY <1>1, <1>2, BootFrame
<1>4. tail = 0
  <2>1. \A S : ~("idle" \in S) => ~At(S)
    BY <1>1, BootFacts, Zenon
  <2> QED
    BY <1>1, <2>1, Zenon DEF IInv, TailInv
<1>5. BootInv'
  BY <1>1, <1>3, Zenon DEF IInv, BootInv
<1>6. TailInv'
  <2>1. dhead # <<>> => 0 < Len(dhead)
    BY <1>2
  <2> QED
    BY <1>1, <1>3, <1>4, <2>1, Zenon DEF TailInv
<1>7. HeadInv'
  BY <1>1 DEF IInv, HeadInv, Injective
<1>8. CopyInv'
  BY <1>1, <1>2, <1>3, <1>4 DEF CopyInv
<1>9. CleanInv'
  BY <1>1, Zenon DEF CleanInv, PinsMatchLog
<1> QED
  BY <1>3, <1>5, <1>6, <1>7, <1>8, <1>9 DEF IInv

(* One iteration of install_trans(1) keeps the invariant, and so may be    *)
(* repeated after another crash.                                           *)
LEMMA RecoverStep ==
  ASSUME Counting, OpsFit, IInv, TypeOK', RecoverBlock
  PROVE  IInv'
<1> USE DEF memory, loghdr, history
<1> DEFINE dst == lh[tail + 1]
           last == ~(tail + 1 < Len(lh))
<1>1. /\ boot = "install"
      /\ boot' = (IF last THEN "clear" ELSE "install") /\ tail' = IF last THEN 0 ELSE tail + 1
      /\ disk' = [disk EXCEPT ![dst] = disk[tail + 1]]
      /\ cache' = [cache EXCEPT ![dst] = disk[tail + 1]]
      /\ UNCHANGED <<dhead, lh, pin, lock, outstanding, committing, ncommit, pc, asleep, goal, wrote, unsaved, owed>>
  BY Zenon DEF RecoverBlock
<1>2. /\ lh \in Seq(Home) /\ tail \in Nat /\ cache \in [Home -> Val \cup {Torn, NoVal}]
      /\ disk \in [Slots \cup Home -> Val \cup {Torn}] /\ Len(lh) < LOGBLOCKS /\ lh = dhead
  BY <1>1, Zenon DEF IInv, TypeOK, SpaceInv, BootInv
<1>3. /\ SpaceInv' /\ CountInv' /\ SyncInv'
      /\ \A S : ~("idle" \in S) => ~At(S)'
      /\ \A q \in Procs : pc'[q] = "idle"
  BY <1>1, <1>2, BootFrame
<1>4. tail + 1 \in 1 .. Len(lh) /\ dst \in Home /\ tail + 1 \in Slots /\ tail + 1 \notin Home
  BY <1>1, TailInLog, SlotsNotHome, Zenon
<1>5. \A i \in 1 .. Len(lh) : disk'[i] = disk[i] /\ lh[i] \in Home
  BY <1>1, <1>2, <1>4, SlotsNotHome
<1>6. \A i \in 1 .. Len(lh) : i # tail + 1 => lh[i] # dst
  BY <1>4, Zenon DEF IInv, HeadInv, Injective
<1>7. \A b \in Home : b # dst => disk'[b] = disk[b] /\ cache'[b] = cache[b]
  BY <1>1, <1>2, <1>4, Zenon
<1>8. disk'[dst] = disk[tail + 1] /\ cache'[dst] = disk[tail + 1]
  BY <1>1, <1>2, <1>4, Zenon
<1>9. last => tail + 1 = Len(lh)
  BY <1>2, <1>4
<1>10. BootInv'
  <2>1. \A b \in Home : cache'[b] \in {NoVal, disk'[b]}
    BY <1>1, <1>7, <1>8, Zenon DEF IInv, BootInv
  <2> QED
    BY <1>1, <1>2, <1>3, <2>1, Zenon DEF IInv, BootInv
<1>11. TailInv'
  BY <1>1, <1>2, <1>3, <1>4, Zenon DEF TailInv
<1>12. HeadInv'
  BY <1>1 DEF IInv, HeadInv, Injective
<1>13. CopyInv'
  <2>1. \A i \in 1 .. tail + 1 : disk'[lh[i]] = disk'[i]
    <3>1. \A i \in 1 .. tail : disk[lh[i]] = disk[i]
      BY <1>1, Zenon DEF IInv, CopyInv
    <3>2. \A i \in 1 .. tail + 1 : i \in 1 .. Len(lh) /\ (i \in 1 .. tail \/ i = tail + 1)
      BY <1>2, <1>4
    <3>3. \A i \in 1 .. tail : i # tail + 1
      BY <1>2
    <3> QED
      BY <3>1, <3>2, <3>3, <1>5, <1>6, <1>7, <1>8
  <2>2. boot' = "install" => tail' = tail + 1
    BY <1>1, Zenon
  <2>3. boot' = "clear" => tail + 1 = Len(lh)
    BY <1>1, <1>9, Zenon
  <2> HIDE DEF last
  <2> QED
    BY <1>1, <1>3, <2>1, <2>2, <2>3, Zenon DEF CopyInv
<1>14. CleanInv'
  BY <1>1, Zenon DEF CleanInv, PinsMatchLog
<1> QED
  BY <1>3, <1>10, <1>11, <1>12, <1>13, <1>14 DEF IInv

(* Erasing the header at the end of recovery keeps the invariant.          *)
LEMMA ClearStep ==
  ASSUME Counting, IInv, TypeOK', ClearLog
  PROVE  IInv'
<1> USE DEF memory, loghdr, history
<1>1. /\ boot = "clear" /\ lh' = <<>> /\ dhead' = <<>> /\ boot' = "up"
      /\ UNCHANGED <<disk, cache, pin, lock, outstanding, committing, ncommit, tail, pc, asleep, goal, wrote, unsaved, owed>>
  BY DEF ClearLog
<1>2. Len(lh') = 0 /\ 0 < LOGBLOCKS
  BY <1>1, LogAssumption DEF LogAssumption
<1>3. /\ SpaceInv' /\ CountInv' /\ SyncInv'
      /\ \A S : ~("idle" \in S) => ~At(S)'
      /\ \A q \in Procs : pc'[q] = "idle"
  BY <1>1, <1>2, BootFrame, Zenon
<1>4. BootInv'
  BY <1>1 DEF BootInv
<1>5. TailInv'
  <2>1. \A S : ~("idle" \in S) => ~At(S)
    BY <1>1, BootFacts, Zenon
  <2> QED
    BY <1>1, <1>3, <2>1, Zenon DEF IInv, TailInv
<1>6. HeadInv'
  BY <1>1, <1>2, <1>3 DEF HeadInv, Injective
<1>7. CopyInv'
  BY <1>1, <1>3, Zenon DEF CopyInv
<1>8. CleanInv'
  BY <1>1, <1>2 DEF IInv, BootInv, CleanInv, PinsMatchLog
<1> QED
  BY <1>3, <1>4, <1>5, <1>6, <1>7, <1>8 DEF IInv

(* A kernel that starts on a disk with a well-formed header.               *)
Cold ==
  /\ TypeOK /\ Injective(dhead) /\ Len(dhead) < LOGBLOCKS
  /\ cache = [b \in Home |-> NoVal] /\ pin = [b \in Home |-> 0]
  /\ lh = <<>> /\ outstanding = 0 /\ committing = FALSE /\ tail = 0
  /\ pc = [p \in Procs |-> "idle"] /\ asleep = {} /\ boot = "read_head"
  /\ wrote = [p \in Procs |-> {}] /\ unsaved = FALSE /\ owed = {}

(* A machine that has just started, for the first time or after a crash,   *)
(* satisfies the invariant: initlog() needs nothing but a header that      *)
(* lists each block once.                                                  *)
LEMMA ColdInv == ASSUME Counting PROVE Cold => IInv
<1> SUFFICES ASSUME Cold PROVE IInv
  OBVIOUS
<1> USE DEF Cold
<1>1. Active = {} /\ \A q \in Procs : pc[q] = "idle"
  BY DEF Active, InOp
<1>2. Cardinality(Active) = 0 /\ IsFiniteSet({}) /\ Cardinality({}) = 0
  BY <1>1, Zenon DEF Counting, EmptyFact
<1>3. \A S : ~("idle" \in S) => ~At(S)
  BY <1>1 DEF At
<1>4. Len(lh) = 0 /\ 0 < LOGBLOCKS /\ 0 <= OpBlocks
  BY LogAssumption DEF LogAssumption
<1>5. SpaceInv
  BY <1>1, <1>2, <1>4, Zenon DEF SpaceInv, InOp
<1>6. CountInv
  <2>1. ~At(InCommit)
    BY <1>3, Zenon DEF InCommit
  <2> QED
    BY <1>1, <1>2, <2>1, Zenon DEF CountInv, CommitAlone, NoPanic, InCommit
<1>7. BootInv
  BY <1>1 DEF BootInv
<1>8. TailInv
  BY <1>3 DEF TailInv
<1>9. HeadInv
  BY <1>4 DEF HeadInv, Injective
<1>10. CopyInv
  BY <1>3, Zenon DEF CopyInv
<1>11. CleanInv
  BY DEF CleanInv, PinsMatchLog
<1>12. SyncInv
  BY <1>1, <1>3, Zenon DEF SyncInv, SleepersHaveWaker
<1> QED
  BY <1>5, <1>6, <1>7, <1>8, <1>9, <1>10, <1>11, <1>12 DEF IInv

(* A crash at any point, with the block in flight torn, leaves a disk from *)
(* which initlog() can start: the header is written in one sector.         *)
LEMMA CrashStep ==
  ASSUME Counting, IInv, TypeOK', NEW torn \in SUBSET InFlight, Crash(torn)
  PROVE  IInv'
<1>1. Cold'
  <2>1. Injective(dhead)' /\ (Len(dhead) < LOGBLOCKS)'
    BY DEF Crash, IInv, HeadInv, Injective
  <2> QED
    BY <2>1, Zenon DEF Crash, Cold
<1> QED
  BY <1>1, ColdInv, PTL

(* The invariant holds when the kernel first starts, and no step of any    *)
(* process, of the recovery or of the machine breaks it.                   *)
LEMMA InvInit == ASSUME Counting PROVE Init => IInv
<1> SUFFICES ASSUME Init PROVE IInv
  OBVIOUS
<1>1. Len(dhead) = 0 /\ Len(dhead) < LOGBLOCKS
  BY LogAssumption DEF Init, LogAssumption
<1>2. Injective(dhead)
  BY <1>1 DEF Injective
<1>3. Cold
  BY <1>1, <1>2, TypeInit, Zenon DEF Init, Cold
<1> QED
  BY <1>3, ColdInv

(* See InvInit: the inductive step, one case per action of Next.           *)
LEMMA InvNext == ASSUME Counting, OpsFit, IInv, [Next]_vars PROVE IInv'
<1>1. CASE Next /\ ~ \E p \in Procs : Kick(p)
  <2>1. TypeOK'
    BY <1>1, TypeStep
  <2>2. CASE ReadHead \/ RecoverBlock \/ ClearLog
    BY <2>1, <2>2, ReadHeadStep, RecoverStep, ClearStep
  <2>3. ASSUME NEW p \in Procs,
               BeginOpSleep(p) \/ Brelse(p) \/ SyncStart(p) \/ SyncLoop(p)
               \/ \E b \in Home : Bread(p, b)
        PROVE IInv'
    BY <2>1, <2>3, ClientSteps
  <2>4. ASSUME NEW p \in Procs, BeginOp(p) \/ EndOp(p) PROVE IInv'
    BY <2>1, <2>4, BeginStep, EndStep
  <2>5. ASSUME NEW p \in Procs, CommitStep(p) PROVE IInv'
    BY <2>1, <2>5, WriteLogStep, WriteHeadStep, InstallStep, EraseStep, FinishStep, Zenon
    DEF CommitStep
  <2>6. ASSUME NEW p \in Procs, NEW b \in Home, NEW v \in Val, LogWrite(p, b, v)
        PROVE IInv'
    BY <2>1, <2>6, LogWriteStep
  <2>7. ASSUME NEW b \in Home, Recycle(b) PROVE IInv'
    BY <2>1, <2>7, RecycleStep
  <2>8. ASSUME NEW torn \in SUBSET InFlight, Crash(torn) PROVE IInv'
    BY <2>1, <2>8, CrashStep
  <2> QED
    BY <1>1, <2>2, <2>3, <2>4, <2>5, <2>6, <2>7, <2>8, Zenon DEF Next
<1>2. CASE /\ asleep' \subseteq asleep
           /\ UNCHANGED <<disk, dhead, memory, loghdr, tail, pc, goal, boot, history>>
  <2> USE <1>2 DEF memory, loghdr, history
  <2>1. Active' = Active /\ Unused' = Unused
    BY DEF Active, Unused
  <2>2. \A S : At(S)' = At(S)
    BY DEF At
  <2>3. \A b : Data(b)' = Data(b)
    BY DEF Data
  <2>4. TypeOK' /\ SpaceInv' /\ BootInv' /\ TailInv'
    <3>1. TypeOK'
      BY Zenon DEF IInv, TypeOK
    <3>2. SpaceInv'
      BY <2>1, Zenon DEF IInv, SpaceInv
    <3>3. BootInv' /\ TailInv'
      BY <2>2, Zenon DEF IInv, BootInv, TailInv
    <3> QED
      BY <3>1, <3>2, <3>3
  <2>5. CountInv'
    BY <2>1, <2>2, Zenon DEF IInv, CountInv, CommitAlone, NoPanic
  <2>6. HeadInv' /\ CopyInv'
    BY <2>2, <2>3 DEF IInv, HeadInv, Injective, CopyInv
  <2>7. CleanInv'
    BY DEF IInv, CleanInv, PinsMatchLog
  <2>8. SyncInv'
    BY <2>2, Zenon DEF IInv, SyncInv, SleepersHaveWaker
  <2> QED
    BY <2>4, <2>5, <2>6, <2>7, <2>8, Zenon DEF IInv
<1>3. CASE \E p \in Procs : Kick(p)
  BY <1>2, <1>3 DEF Kick
<1> QED
  BY <1>1, <1>2, <1>3 DEF vars

-----------------------------------------------------------------------------
(* The corollaries for the properties of Log.                              *)

(* The parts of the invariant imply the properties of Log.                 *)
LEMMA InvImplies ==
  ASSUME OpsFit
  PROVE  IInv => /\ TypeOK /\ NoPanic /\ LogInsideRegion /\ CommitAlone
                 /\ PinsMatchLog /\ SyncDurable /\ SleepersHaveWaker
<1> SUFFICES ASSUME IInv PROVE TypeOK /\ NoPanic /\ LogInsideRegion /\ CommitAlone
                 /\ PinsMatchLog /\ SyncDurable /\ SleepersHaveWaker
  OBVIOUS
<1>1. LogInsideRegion
  <2>1. lh \in Seq(Home) /\ Len(lh) < LOGBLOCKS
    BY DEF IInv, TypeOK, SpaceInv
  <2>2. Len(lh) \in Nat /\ LOGBLOCKS \in Nat /\ NLog \in Nat /\ LOGBLOCKS <= NLog
    BY <2>1, LogAssumption DEF LogAssumption, OpsFit
  <2> QED
    BY <2>1, <2>2 DEF LogInsideRegion
<1>2. SyncDurable
  <2>1. ASSUME NEW p \in Procs, pc[p] = "sync", ncommit >= goal[p], p \in owed
        PROVE FALSE
    <3>1. goal[p] = ncommit + 1 /\ ncommit \in Nat
      BY <2>1, Zenon DEF IInv, SyncInv, TypeOK
    <3> QED
      BY ONLY <2>1, <3>1
  <2>2. ASSUME boot = "up", ~committing, outstanding = 0 PROVE ~unsaved
    BY <2>2 DEF IInv, CountInv, SyncInv
  <2> QED
    BY <2>1, <2>2 DEF SyncDurable
<1> QED
  BY <1>1, <1>2, Zenon DEF IInv, CountInv, CleanInv, SyncInv

-----------------------------------------------------------------------------
(* The log implements AtomicDisk.                                          *)

(* What recovery makes of a disk d whose header is h.                      *)
Overlay(h, d, b) ==
  IF b \in Blocks(h) THEN d[CHOOSE i \in 1 .. Len(h) : h[i] = b] ELSE d[b]

(* install_trans(1) copies slot i to the i-th block of the header, which   *)
(* names it only once, and touches no other block.                         *)
LEMMA OverlayAt ==
  ASSUME NEW h, NEW d, Injective(h), NEW i \in 1 .. Len(h)
  PROVE  Overlay(h, d, h[i]) = d[i]
<1>1. h[i] \in Blocks(h)
  BY DEF Blocks
<1>2. (CHOOSE j \in 1 .. Len(h) : h[j] = h[i]) = i
  BY DEF Injective
<1> QED
  BY <1>1, <1>2, Zenon DEF Overlay

(* Two disks that recovery cannot tell apart.                              *)
LEMMA OverlaySame ==
  ASSUME NEW h, NEW d, NEW e, NEW b, Injective(h),
         \A i \in 1 .. Len(h) : e[i] = d[i], b \in Blocks(h) \/ e[b] = d[b]
  PROVE  Overlay(h, e, b) = Overlay(h, d, b)
<1>1. CASE b \in Blocks(h)
  <2>1. PICK i \in 1 .. Len(h) : h[i] = b
    BY <1>1 DEF Blocks
  <2>2. Overlay(h, e, h[i]) = e[i] /\ Overlay(h, d, h[i]) = d[i]
    BY OverlayAt
  <2> QED
    BY <2>1, <2>2
<1>2. CASE b \notin Blocks(h)
  BY <1>2 DEF Overlay
<1> QED
  BY <1>1, <1>2

(* A step that leaves alone the header and all that recovery reads.        *)
LEMMA SameDur ==
  ASSUME IInv, dhead' = dhead,
         \A i \in 1 .. Len(dhead) : disk'[i] = disk[i],
         \A b \in Home : b \in Blocks(dhead) \/ disk'[b] = disk[b]
  PROVE  Dur' = Dur
<1>1. Injective(dhead)
  BY DEF IInv, HeadInv
<1>2. \A b \in Home : Overlay(dhead, disk', b) = Overlay(dhead, disk, b)
  BY <1>1, OverlaySame
<1>3. \A b \in Home : Recovered(b) = Overlay(dhead, disk, b)
  BY DEF Recovered, Overlay
<1>4. \A b \in Home : Recovered(b)' = Overlay(dhead, disk', b)
  BY DEF Recovered, Overlay
<1> QED
  BY <1>2, <1>3, <1>4 DEF Dur

(* Erasing the header once every slot has been copied to its home block.   *)
LEMMA EraseDur ==
  ASSUME IInv, disk' = disk, dhead' = <<>>,
         \A i \in 1 .. Len(dhead) : disk[dhead[i]] = disk[i]
  PROVE  Dur' = Dur /\ Dur = [b \in Home |-> disk[b]]
<1>1. \A b \in Home : Recovered(b) = disk[b]
  <2> SUFFICES ASSUME NEW b \in Home PROVE Recovered(b) = disk[b]
    OBVIOUS
  <2>1. CASE b \in Blocks(dhead)
    <3>1. PICK i \in 1 .. Len(dhead) : dhead[i] = b
      BY <2>1 DEF Blocks
    <3>2. Overlay(dhead, disk, dhead[i]) = disk[i]
      BY OverlayAt DEF IInv, HeadInv
    <3> QED
      BY <3>1, <3>2, Zenon DEF Recovered, Overlay
  <2>2. CASE b \notin Blocks(dhead)
    BY <2>2 DEF Recovered
  <2> QED
    BY <2>1, <2>2
<1>2. \A b \in Home : Recovered(b)' = disk[b]
  <2>1. Blocks(<<>>) = {}
    BY DEF Blocks
  <2> QED
    BY <2>1 DEF Recovered
<1> QED
  BY <1>1, <1>2 DEF Dur

(* While the system is up, Cur is what bread() returns.                    *)
LEMMA SameCur ==
  ASSUME boot = "up", boot' = "up", \A b \in Home : Data(b)' = Data(b)
  PROVE  Cur' = Cur
  BY DEF Cur

(* The steps of a call that write no block are Begin, End or a stutter.    *)
LEMMA RefineClient ==
  ASSUME OpsFit, IInv, IInv', NEW p \in Procs,
         \/ BeginOp(p) \/ BeginOpSleep(p) \/ EndOp(p) \/ Brelse(p)
         \/ SyncStart(p) \/ SyncLoop(p) \/ FinishCommit(p)
         \/ \E b \in Home : Bread(p, b)
  PROVE  [AD!Next]_AD!vars
<1> USE DEF memory, loghdr, history
<1>1. boot = "up" /\ boot' = boot /\ disk' = disk /\ dhead' = dhead
  BY Zenon DEF BeginOp, BeginOpSleep, EndOp, Brelse, SyncStart, SyncLoop, FinishCommit,
         Bread, IInv, BootInv
<1>2. Dur' = Dur
  BY <1>1, SameDur
<1>3. \A b \in Home : Data(b)' = Data(b)
  <2>1. cache \in [Home -> Val \cup {Torn, NoVal}] /\ NoVal \notin Val /\ NoVal # Torn
    BY LogAssumption, Zenon DEF IInv, TypeOK, LogAssumption
  <2>2. \A b \in Home : Data(b) # NoVal
    BY <2>1, DataType, Zenon DEF IInv
  <2>3. CASE \E b \in Home : Bread(p, b)
    <3>1. PICK c \in Home : cache' = [cache EXCEPT ![c] = Data(c)]
      BY <2>3, Zenon DEF Bread
    <3>2. \A b \in Home : cache'[b] = cache[b] \/ cache'[b] = Data(b)
      BY <2>1, <3>1, Zenon
    <3> QED
      BY <1>1, <2>2, <3>2, Zenon DEF Data
  <2>4. CASE cache' = cache
    BY <1>1, <2>4 DEF Data
  <2> QED
    BY <2>3, <2>4, Zenon DEF BeginOp, BeginOpSleep, EndOp, Brelse, SyncStart, SyncLoop, FinishCommit
<1>4. Cur' = Cur
  BY <1>1, <1>3, SameCur
<1>5. pc \in [Procs -> PC] /\ pc'[p] # "panic"
  BY Zenon DEF IInv, TypeOK, CountInv, NoPanic
<1>6. CASE BeginOp(p)
  <2>1. Active' = Active \cup {p} /\ p \notin Active
    BY <1>5, <1>6, Zenon DEF BeginOp, Active, InOp
  <2> QED
    BY <1>2, <1>4, <2>1 DEF AD!Next, AD!Begin
<1>7. CASE EndOp(p)
  <2>1. pc' = [pc EXCEPT ![p] = pc'[p]] /\ pc'[p] \notin InOp /\ pc[p] = "op"
    BY <1>5, <1>7, Zenon DEF EndOp, InOp
  <2>2. Active' = Active \ {p} /\ p \in Active
    BY <1>5, <2>1 DEF Active, InOp
  <2> QED
    BY <1>2, <1>4, <2>2 DEF AD!Next, AD!End
<1>8. CASE ~BeginOp(p) /\ ~EndOp(p)
  <2>1. pc' = [pc EXCEPT ![p] = pc'[p]] /\ (pc'[p] \in InOp <=> pc[p] \in InOp)
    BY <1>5, <1>8, Zenon DEF BeginOpSleep, Brelse, SyncStart, SyncLoop, FinishCommit, Bread, InOp
  <2>2. Active' = Active
    BY <1>5, <2>1 DEF Active
  <2> QED
    BY <1>2, <1>4, <2>2 DEF AD!vars
<1> QED
  BY <1>6, <1>7, <1>8

(* log_write() is a Write.                                                 *)
LEMMA RefineWrite ==
  ASSUME OpsFit, IInv, IInv', NEW p \in Procs, NEW b \in Home, NEW v \in Val,
         LogWrite(p, b, v)
  PROVE  AD!Write(p, b, v)
<1> USE DEF memory, loghdr, history
<1>1. boot = "up" /\ boot' = boot /\ disk' = disk /\ dhead' = dhead /\ pc[p] = "held"
      /\ cache' = [cache EXCEPT ![b] = v]
  BY Zenon DEF LogWrite, Absent, IInv, BootInv
<1>2. Dur' = Dur
  BY <1>1, SameDur
<1>3. cache \in [Home -> Val \cup {Torn, NoVal}] /\ NoVal \notin Val
  BY LogAssumption, Zenon DEF IInv, TypeOK, LogAssumption
<1>4. Data(b)' = v /\ \A c \in Home : c # b => Data(c)' = Data(c)
  BY <1>1, <1>3 DEF Data
<1>5. Cur' = [Cur EXCEPT ![b] = v]
  BY <1>1, <1>4, Zenon DEF Cur
<1>6. pc \in [Procs -> PC] /\ pc'[p] # "panic"
  BY Zenon DEF IInv, TypeOK, CountInv, NoPanic
<1>7. pc' = pc
  BY <1>6, Zenon DEF LogWrite, Absent
<1>8. Active' = Active /\ p \in Active
  BY <1>1, <1>7 DEF Active, InOp
<1> QED
  BY <1>2, <1>5, <1>8 DEF AD!Write

(* write_head() is the step at which a group of calls becomes durable; the *)
(* rest of commit() changes nothing that a reader or a crash can see.      *)
LEMMA RefineCommit ==
  ASSUME OpsFit, IInv, IInv', NEW p \in Procs, CommitStep(p)
  PROVE  [AD!Next]_AD!vars
<1> USE DEF memory, loghdr, history
<1>1. CASE FinishCommit(p)
  BY <1>1, RefineClient
<1> SUFFICES ASSUME WriteLog(p) \/ WriteHead(p) \/ InstallBlock(p) \/ EraseHead(p)
             PROVE  [AD!Next]_AD!vars
  BY <1>1 DEF CommitStep
<1>2. pc[p] \in InCommit \ {"finish"} /\ boot' = boot
  BY Zenon DEF WriteLog, WriteHead, InstallBlock, EraseHead, InCommit
<1>3. boot = "up" /\ (\A S \in SUBSET InCommit : At(S) <=> pc[p] \in S)
      /\ \A q \in Procs : pc[q] \notin InOp
  BY <1>2, CommitterFacts, Zenon
<1>4. pc \in [Procs -> PC] /\ pc' \in [Procs -> PC] /\ lh \in Seq(Home)
      /\ cache \in [Home -> Val \cup {Torn, NoVal}] /\ NoVal \notin Val /\ NoVal # Torn
      /\ disk \in [Slots \cup Home -> Val \cup {Torn}]
  BY LogAssumption, Zenon DEF IInv, TypeOK, LogAssumption
<1>5. Active = {} /\ Active' = {}
  <2>1. Active = {}
    BY <1>3 DEF Active
  <2>2. pc' = [pc EXCEPT ![p] = pc'[p]] /\ pc'[p] \notin InOp
    BY <1>2, <1>4, Zenon DEF WriteLog, WriteHead, InstallBlock, EraseHead, NextTail, InOp, InCommit
  <2> QED
    BY <1>3, <1>4, <2>1, <2>2, Zenon DEF Active
<1>6. /\ At({"write_log", "install"}) <=> pc[p] \in {"write_log", "install"}
      /\ At({"write_log"}) <=> pc[p] = "write_log"
      /\ At({"write_head", "install", "clear"}) <=> pc[p] \in {"write_head", "install", "clear"}
      /\ At({"install", "clear"}) <=> pc[p] \in {"install", "clear"}
      /\ At({"clear"}) <=> pc[p] = "clear"
  BY <1>3 DEF InCommit
<1>7. CASE WriteLog(p)
  <2>1. pc[p] = "write_log" /\ dhead' = dhead
        /\ disk' = [disk EXCEPT ![tail + 1] = Data(lh[tail + 1])]
        /\ cache' = [cache EXCEPT ![lh[tail + 1]] = Data(lh[tail + 1])]
    BY <1>7, Zenon DEF WriteLog
  <2>2. tail + 1 \in 1 .. Len(lh) /\ tail + 1 \notin Home /\ lh[tail + 1] \in Home
    BY <1>6, <2>1, TailInLog, SlotsNotHome, Zenon
  <2>3. \A b \in Home : disk'[b] = disk[b]
    BY <1>4, <2>1, <2>2, Zenon
  <2>4. dhead = <<>> /\ Len(dhead) = 0
    BY <1>3, <1>6, <2>1 DEF IInv, HeadInv
  <2>5. Dur' = Dur
    BY <2>1, <2>3, <2>4, SameDur
  <2>6. \A b \in Home : Data(b)' = Data(b)
    <3>1. \A b \in Home : Data(b) # NoVal
      BY <1>4, DataType, Zenon DEF IInv
    <3>2. \A b \in Home : cache'[b] = cache[b] \/ cache'[b] = Data(b)
      BY <1>4, <2>1, <2>2, Zenon
    <3> QED
      BY <2>3, <3>1, <3>2, Zenon DEF Data
  <2> QED
    BY <1>2, <1>3, <1>5, <2>5, <2>6, SameCur, Zenon DEF AD!vars
<1>8. CASE WriteHead(p)
  <2>1. pc[p] = "write_head" /\ dhead' = lh /\ disk' = disk /\ cache' = cache
    BY <1>8, Zenon DEF WriteHead
  <2>2. Cur' = Cur
    BY <1>2, <1>3, <2>1, SameCur, Zenon DEF Data
  <2>3. \A i \in 1 .. Len(lh) : disk[i] = Data(lh[i])
    BY <1>6, <2>1, Zenon DEF IInv, CopyInv
  <2>4. \A b \in Home : b \notin Blocks(lh) => disk[b] = Data(b)
    <3>0. PinsMatchLog
      BY <1>3, Zenon DEF IInv, CleanInv
    <3>1. \A b \in Home : b \notin Blocks(lh) => pin[b] = 0
      BY <1>3, <3>0 DEF PinsMatchLog, Blocks
    <3>2. \A b \in Home : pin[b] = 0 => cache[b] \in {NoVal, disk[b]}
      BY <1>3, Zenon DEF IInv, CleanInv
    <3> QED
      BY <3>1, <3>2 DEF Data
  <2>5. \A b \in Home : Recovered(b)' = Data(b)
    <3> SUFFICES ASSUME NEW b \in Home PROVE Recovered(b)' = Data(b)
      OBVIOUS
    <3>1. Recovered(b)' = Overlay(lh, disk, b)
      BY <2>1 DEF Recovered, Overlay
    <3>2. CASE b \in Blocks(lh)
      <4>1. PICK i \in 1 .. Len(lh) : lh[i] = b
        BY <3>2 DEF Blocks
      <4>2. Overlay(lh, disk, lh[i]) = disk[i]
        BY OverlayAt, Zenon DEF IInv, HeadInv
      <4> QED
        BY <2>3, <3>1, <4>1, <4>2
    <3>3. CASE b \notin Blocks(lh)
      BY <2>4, <3>1, <3>3 DEF Overlay
    <3> QED
      BY <3>2, <3>3
  <2>6. Dur' = Cur
    BY <1>3, <2>5 DEF Dur, Cur
  <2> QED
    BY <1>5, <2>2, <2>6 DEF AD!Next, AD!Commit
<1>9. CASE InstallBlock(p)
  <2>1. pc[p] = "install" /\ dhead' = dhead
        /\ disk' = [disk EXCEPT ![lh[tail + 1]] = disk[tail + 1]]
        /\ cache' = [cache EXCEPT ![lh[tail + 1]] = disk[tail + 1]]
    BY <1>9, Zenon DEF InstallBlock
  <2>2. tail + 1 \in 1 .. Len(lh) /\ lh[tail + 1] \in Home
    BY <1>6, <2>1, TailInLog, Zenon
  <2>3. dhead = lh /\ lh[tail + 1] \in Blocks(dhead)
    BY <1>3, <1>6, <2>1, <2>2, Zenon DEF IInv, HeadInv, Blocks
  <2>4. \A i \in 1 .. Len(dhead) : disk'[i] = disk[i]
    BY <1>4, <2>1, <2>2, SlotsNotHome
  <2>5. \A b \in Home : b \in Blocks(dhead) \/ disk'[b] = disk[b]
    BY <1>4, <2>1, <2>3, Zenon
  <2>6. Dur' = Dur
    BY <2>1, <2>4, <2>5, SameDur, Zenon
  <2>7. \A b \in Home : Data(b)' = Data(b)
    <3>1. disk[tail + 1] = Data(lh[tail + 1])
      BY <1>6, <2>1, <2>2, Zenon DEF IInv, CopyInv
    <3>2. Data(lh[tail + 1]) # NoVal
      BY <1>4, <2>2, DataType, Zenon DEF IInv
    <3>3. \A b \in Home : b # lh[tail + 1] => cache'[b] = cache[b] /\ disk'[b] = disk[b]
      BY <1>4, <2>1, <2>2, Zenon
    <3>4. cache'[lh[tail + 1]] = disk[tail + 1]
      BY <1>4, <2>1, <2>2, Zenon
    <3> QED
      BY <3>1, <3>2, <3>3, <3>4, Zenon DEF Data
  <2> QED
    BY <1>2, <1>3, <1>5, <2>6, <2>7, SameCur DEF AD!vars
<1>10. CASE EraseHead(p)
  <2>1. pc[p] = "clear" /\ dhead' = <<>> /\ disk' = disk /\ cache' = cache
    BY <1>10, Zenon DEF EraseHead
  <2>2. dhead = lh /\ \A i \in 1 .. Len(lh) : disk[lh[i]] = disk[i]
    BY <1>3, <1>6, <2>1, Zenon DEF IInv, HeadInv, CopyInv
  <2>3. Dur' = Dur
    BY <2>1, <2>2, EraseDur, Zenon
  <2>4. Cur' = Cur
    BY <1>2, <1>3, <2>1, SameCur, Zenon DEF Data
  <2> QED
    BY <1>5, <2>3, <2>4 DEF AD!vars
<1> QED
  BY <1>7, <1>8, <1>9, <1>10

(* Recovery and the recycling of clean buffers cannot be seen.             *)
LEMMA RefineQuiet ==
  ASSUME OpsFit, IInv, IInv',
         ReadHead \/ RecoverBlock \/ ClearLog \/ \E b \in Home : Recycle(b)
  PROVE  UNCHANGED AD!vars
<1> USE DEF memory, loghdr, history
<1>1. Active' = Active
  BY Zenon DEF ReadHead, RecoverBlock, ClearLog, Recycle, Active
<1>2. CASE ReadHead
  <2>1. boot # "up" /\ boot' # "up" /\ disk' = disk /\ dhead' = dhead
    BY <1>2, Zenon DEF ReadHead
  <2>2. Dur' = Dur
    BY <2>1, SameDur
  <2> QED
    BY <1>1, <2>1, <2>2 DEF Cur, Dur, AD!vars
<1>3. CASE RecoverBlock
  <2>1. boot = "install" /\ boot' # "up" /\ dhead' = dhead
        /\ disk' = [disk EXCEPT ![lh[tail + 1]] = disk[tail + 1]]
    BY <1>3, Zenon DEF RecoverBlock
  <2>2. /\ tail + 1 \in 1 .. Len(lh) /\ lh[tail + 1] \in Home /\ lh = dhead
        /\ disk \in [Slots \cup Home -> Val \cup {Torn}]
    BY <2>1, TailInLog, Zenon DEF IInv, BootInv, TypeOK
  <2>3. lh[tail + 1] \in Blocks(dhead)
    BY <2>2 DEF Blocks
  <2>4. \A i \in 1 .. Len(dhead) : disk'[i] = disk[i]
    BY <2>1, <2>2, SlotsNotHome, Zenon
  <2>5. \A b \in Home : b \in Blocks(dhead) \/ disk'[b] = disk[b]
    BY <2>1, <2>2, <2>3, Zenon
  <2>6. Dur' = Dur
    BY <2>1, <2>4, <2>5, SameDur, Zenon
  <2>7. boot # "up"
    BY <2>1
  <2> QED
    BY <1>1, <2>1, <2>6, <2>7, Zenon DEF Cur, Dur, AD!vars
<1>4. CASE ClearLog
  <2>1. boot = "clear" /\ boot' = "up" /\ disk' = disk /\ cache' = cache /\ dhead' = <<>>
    BY <1>4, Zenon DEF ClearLog
  <2>2. lh = dhead /\ \A b \in Home : cache[b] \in {NoVal, disk[b]}
    BY <2>1, Zenon DEF IInv, BootInv
  <2>3. \A i \in 1 .. Len(lh) : disk[lh[i]] = disk[i]
    BY <2>1, Zenon DEF IInv, CopyInv
  <2>4. Dur' = Dur /\ Dur = [b \in Home |-> disk[b]]
    BY <2>1, <2>2, <2>3, EraseDur, Zenon
  <2>5. Cur = Dur
    BY <2>1 DEF Cur, Dur
  <2>6. \A b \in Home : Data(b)' = disk[b]
    BY <2>1, <2>2 DEF Data
  <2>7. Cur' = [b \in Home |-> disk[b]]
    BY <2>1, <2>6 DEF Cur
  <2> QED
    BY <1>1, <2>4, <2>5, <2>7 DEF AD!vars
<1>5. CASE \E b \in Home : Recycle(b)
  <2>1. PICK c \in Home : Recycle(c)
    BY <1>5
  <2>2. disk' = disk /\ dhead' = dhead /\ boot' = boot /\ pin[c] = 0
        /\ cache' = [cache EXCEPT ![c] = NoVal]
    BY <2>1, Zenon DEF Recycle
  <2>3. Dur' = Dur
    BY <2>2, SameDur
  <2>4. CASE boot = "up"
    <3>1. cache[c] \in {NoVal, disk[c]} /\ cache \in [Home -> Val \cup {Torn, NoVal}]
      BY <2>2, <2>4, Zenon DEF IInv, CleanInv, TypeOK
    <3>2. \A b \in Home : Data(b)' = Data(b)
      BY <2>2, <3>1, Zenon DEF Data
    <3> QED
      BY <1>1, <2>2, <2>3, <2>4, <3>2, SameCur DEF AD!vars
  <2>5. CASE boot # "up"
    BY <1>1, <2>2, <2>3, <2>5 DEF Cur, Dur, AD!vars
  <2> QED
    BY <2>4, <2>5
<1> QED
  BY <1>2, <1>3, <1>4, <1>5

(* A crash loses what was not committed and nothing else, also when it     *)
(* tears the block that write_log() or install_trans() was writing: the    *)
(* one is not yet in the header, the other is still in the log.            *)
LEMMA RefineCrash ==
  ASSUME OpsFit, IInv, IInv', NEW torn \in SUBSET InFlight, Crash(torn)
  PROVE  AD!Crash
<1>1. /\ disk' = [a \in Slots \cup Home |-> IF a \in torn THEN Torn ELSE disk[a]]
      /\ dhead' = dhead /\ boot' = "read_head" /\ pc' = [p \in Procs |-> "idle"]
  BY Zenon DEF Crash
<1>2. disk \in [Slots \cup Home -> Val \cup {Torn}]
  BY Zenon DEF IInv, TypeOK
<1>3. /\ \A i \in 1 .. Len(dhead) : i \notin torn
      /\ \A b \in Home : b \in Blocks(dhead) \/ b \notin torn
  <2>1. CASE At({"write_log"})
    <3>1. tail + 1 \in 1 .. Len(lh) /\ tail + 1 \notin Home
      BY <2>1, TailInLog, SlotsNotHome, Zenon DEF At
    <3>2. boot = "up" /\ ~At({"install", "clear"})
      <4>1. PICK p \in Procs : pc[p] = "write_log"
        BY <2>1 DEF At
      <4>2. pc[p] \in InCommit
        BY <4>1 DEF InCommit
      <4>3. boot = "up" /\ \A S \in SUBSET InCommit : At(S) <=> pc[p] \in S
        BY <4>2, CommitterFacts
      <4> QED
        BY <4>1, <4>3 DEF InCommit
    <3>3. dhead = <<>> /\ Len(dhead) = 0
      BY <3>2 DEF IInv, HeadInv
    <3>4. torn \subseteq {tail + 1}
      BY <2>1 DEF InFlight, At
    <3>5. 1 .. Len(dhead) = {}
      BY <3>3
    <3>6. \A b \in Home : b \notin torn
      BY <3>1, <3>4, Zenon
    <3> QED
      BY <3>5, <3>6
  <2>2. CASE ~At({"write_log"}) /\ (boot = "install" \/ At({"install"}))
    <3>1. tail + 1 \in 1 .. Len(lh) /\ lh[tail + 1] \in Home
      BY <2>2, TailInLog DEF At
    <3>2. dhead = lh
      <4>1. CASE boot = "install"
        BY <4>1, Zenon DEF IInv, BootInv
      <4>2. CASE boot # "install"
        <5>1. At({"install"}) /\ At({"install", "clear"})
          BY <2>2, <4>2 DEF At
        <5>2. boot = "up"
          BY <5>1, Zenon DEF IInv, BootInv, At
        <5> QED
          BY <5>1, <5>2, Zenon DEF IInv, HeadInv
      <4> QED
        BY <4>1, <4>2
    <3>3. torn \subseteq {lh[tail + 1]}
      BY <2>2 DEF InFlight, At
    <3>4. lh[tail + 1] \in Blocks(dhead)
      BY <3>1, <3>2 DEF Blocks
    <3> QED
      BY <3>1, <3>2, <3>3, <3>4, SlotsNotHome, Zenon
  <2>3. CASE ~At({"write_log"}) /\ ~(boot = "install" \/ At({"install"}))
    BY <2>3, Zenon DEF InFlight, At
  <2> QED
    BY <2>1, <2>2, <2>3
<1>4. \A i \in 1 .. Len(dhead) : disk'[i] = disk[i]
  BY <1>1, <1>3, SlotsNotHome, Zenon
<1>5. \A b \in Home : b \in Blocks(dhead) \/ disk'[b] = disk[b]
  BY <1>1, <1>3
<1>6. Dur' = Dur
  BY <1>1, <1>4, <1>5, SameDur, Zenon
<1>7. Cur' = Dur'
  BY <1>1 DEF Cur, Dur
<1>8. Active' = {}
  BY <1>1 DEF Active, InOp
<1> QED
  BY <1>6, <1>7, <1>8 DEF AD!Crash

(* Every step of the log is a step of AtomicDisk or leaves it unchanged.   *)
LEMMA RefineStep ==
  ASSUME OpsFit, IInv, IInv', [Next]_vars
  PROVE  [AD!Next]_AD!vars
<1>1. ASSUME NEW p \in Procs,
             \/ BeginOp(p) \/ BeginOpSleep(p) \/ EndOp(p) \/ Brelse(p)
             \/ SyncStart(p) \/ SyncLoop(p) \/ \E b \in Home : Bread(p, b)
      PROVE [AD!Next]_AD!vars
  BY <1>1, RefineClient
<1>2. ASSUME NEW p \in Procs, CommitStep(p) PROVE [AD!Next]_AD!vars
  BY <1>2, RefineCommit
<1>3. ASSUME NEW p \in Procs, NEW b \in Home, NEW v \in Val, LogWrite(p, b, v)
      PROVE [AD!Next]_AD!vars
  BY <1>3, RefineWrite DEF AD!Next
<1>4. CASE ReadHead \/ RecoverBlock \/ ClearLog \/ \E b \in Home : Recycle(b)
  BY <1>4, RefineQuiet
<1>5. ASSUME NEW torn \in SUBSET InFlight, Crash(torn) PROVE [AD!Next]_AD!vars
  BY <1>5, RefineCrash DEF AD!Next
<1>6. CASE UNCHANGED <<disk, dhead, memory, loghdr, tail, pc, goal, boot, history>>
  <2>1. Dur' = Dur /\ Active' = Active
    BY <1>6 DEF memory, loghdr, Dur, Active, Recovered
  <2>2. Cur' = Cur
    BY <1>6 DEF memory, loghdr, Cur, Recovered, Data
  <2> QED
    BY <2>1, <2>2 DEF AD!vars
<1>7. CASE \E p \in Procs : Kick(p)
  BY <1>6, <1>7 DEF Kick
<1>8. CASE Next /\ ~ \E p \in Procs : Kick(p)
  BY <1>1, <1>2, <1>3, <1>4, <1>5, <1>8, Zenon DEF Next
<1> QED
  BY <1>6, <1>7, <1>8 DEF vars

-----------------------------------------------------------------------------
(* The facts about finite sets, from the library; and the theorems.        *)

FST == INSTANCE FiniteSetTheorems

(* Finite is the same thing for the log and for the library.               *)
LEMMA LibraryFinite == \A S : IsFiniteSet(S) = FST!IsFiniteSet(S)
  BY DEF IsFiniteSet, FST!IsFiniteSet

(* Both count alike.                                                       *)
LEMMA LibraryCardinality == \A S : Cardinality(S) = FST!Cardinality(S)
  BY Zenon DEF Cardinality, FST!Cardinality

(* Calls in progress, and the blocks they write and may still write, can   *)
(* be counted.                                                             *)
LEMMA CanCount == Counting
<1>1. EmptyFact /\ NumberFact
  BY FST!FS_EmptySet, FST!FS_CardinalityType, LibraryFinite, LibraryCardinality
     DEF EmptyFact, NumberFact
<1>2. SubsetFact
  BY FST!FS_Subset, LibraryFinite, LibraryCardinality DEF SubsetFact
<1>3. AddFact
  BY FST!FS_AddElement, LibraryFinite, LibraryCardinality DEF AddFact
<1>4. RemoveFact
  BY FST!FS_RemoveElement, LibraryFinite, LibraryCardinality DEF RemoveFact
<1>5. SingletonFact
  BY FST!FS_Singleton, LibraryFinite, LibraryCardinality, Zenon DEF SingletonFact
<1>6. IntervalFact
  BY FST!FS_Interval, LibraryFinite, LibraryCardinality DEF IntervalFact
<1>7. ProductFact
  BY FST!FS_Product, LibraryFinite, LibraryCardinality DEF ProductFact
<1>8. UnionFact
  BY FST!FS_Union, LibraryFinite, LibraryCardinality DEF UnionFact
<1>9. MeetFact
  BY FST!FS_Intersection, LibraryFinite DEF MeetFact
<1> QED
  BY <1>1, <1>2, <1>3, <1>4, <1>5, <1>6, <1>7, <1>8, <1>9 DEF Counting

(* The inductive invariant of the log holds in every reachable state, for  *)
(* any number of processes and blocks and any log size, provided that the  *)
(* callers write fewer than MAXOPBLOCKS distinct blocks per transaction.   *)
THEOREM Invariance == ASSUME OpsFit PROVE Spec => []IInv
<1>1. IInv /\ [Next]_vars => IInv'
  BY CanCount, InvNext
<1>2. Init => IInv
  BY CanCount, InvInit
<1> QED
  BY <1>1, <1>2, PTL DEF Spec

(* The variables of the log always have their types.                       *)
THEOREM TypeCorrect == ASSUME OpsFit PROVE Spec => []TypeOK
<1>1. IInv => TypeOK
  BY InvImplies
<1> QED
  BY <1>1, Invariance, PTL

(* The space that begin_op() sets aside for a call is never used up by     *)
(* another: log_write() and end_op() never panic, and write_log() stays    *)
(* inside the blocks the image reserves for the log.                       *)
THEOREM SpaceSuffices == ASSUME OpsFit PROVE Spec => []LogFits
<1>1. IInv => LogFits
  BY InvImplies DEF LogFits
<1> QED
  BY <1>1, Invariance, PTL

(* commit() runs alone although it does not hold log.lock.                 *)
THEOREM CommitExclusion == ASSUME OpsFit PROVE Spec => []CommitAlone
<1>1. IInv => CommitAlone
  BY InvImplies
<1> QED
  BY <1>1, Invariance, PTL

(* bpin() in log_write() and bunpin() in install_trans() are balanced.     *)
THEOREM PinBalance == ASSUME OpsFit PROVE Spec => []PinsMatchLog
<1>1. IInv => PinsMatchLog
  BY InvImplies
<1> QED
  BY <1>1, Invariance, PTL

(* A return from sys_sync() means that the finished calls are on disk.     *)
THEOREM SyncIsDurable == ASSUME OpsFit PROVE Spec => []SyncDurable
<1>1. IInv => SyncDurable
  BY InvImplies
<1> QED
  BY <1>1, Invariance, PTL

(* Nobody sleeps on &log with no wakeup() still to come.                   *)
THEOREM NoLostWakeup == ASSUME OpsFit PROVE Spec => []SleepersHaveWaker
<1>1. IInv => SleepersHaveWaker
  BY InvImplies
<1> QED
  BY <1>1, Invariance, PTL

(* The log implements the atomic block store: every crash, at any point,   *)
(* with or without a torn block, brings back the state of the last commit, *)
(* and every read sees the writes before it.                               *)
THEOREM CrashAtomicity == ASSUME OpsFit PROVE Spec => CrashAtomic
<1>1. Init => AD!Init
  <2> SUFFICES ASSUME Init PROVE AD!Init
    OBVIOUS
  <2>1. \A b \in Home : Recovered(b) = Zero
    BY DEF Init, Recovered, Blocks
  <2>2. boot # "up" /\ \A p \in Procs : pc[p] \notin InOp
    BY DEF Init, InOp
  <2> QED
    BY <2>1, <2>2 DEF AD!Init, Cur, Dur, Active
<1>2. IInv /\ IInv' /\ [Next]_vars => [AD!Next]_AD!vars
  BY RefineStep
<1> QED
  BY <1>1, <1>2, Invariance, PTL DEF Spec, CrashAtomic, AD!Spec
=============================================================================
