---------------------------- MODULE InodeBlocks -----------------------------
(***************************************************************************)
(* Proofs about Inode, second part: the steps that get a reference to an   *)
(* inode, and those that change its blocks.                                *)
(***************************************************************************)
EXTENDS InodeSteps

-----------------------------------------------------------------------------
(* iget()                                                                  *)

(* The entry that iget() returns has the inode, or is empty when no entry  *)
(* has it.                                                                 *)
Entry(s, i) ==
  /\ s \in Slots /\ (ref[s] > 0 => inum[s] = i)
  /\ \A t \in Slots : ref[t] > 0 /\ inum[t] = i => t = s

(* What iget() does to the table.                                          *)
Gets(s, i) ==
  /\ ref' \in [Slots -> Nat] /\ inum' \in [Slots -> Inums \cup {None}]
  /\ valid' \in [Slots -> BOOLEAN] /\ mem' = mem /\ lock' = lock
  /\ ref'[s] = ref[s] + 1 /\ inum'[s] = i
  /\ \A t \in Slots \ {s} : ref'[t] = ref[t] /\ inum'[t] = inum[t] /\ valid'[t] = valid[t]
  /\ valid'[s] = (valid[s] /\ ref[s] > 0)

LEMMA SlotForIs ==
  ASSUME Counting, NInv, NEW i \in Inums, NEW s, s = SlotFor(i), s # None
  PROVE  Entry(s, i)
<1>0. PICK H, E : H = {t \in Slots : ref[t] > 0 /\ inum[t] = i} /\ E = {t \in Slots : ref[t] = 0}
  BY Zenon
<1>1. s = IF H # {} THEN Min(H) ELSE IF E # {} THEN Min(E) ELSE None
  BY <1>0, Zenon DEF SlotFor
<1>2. Slots \subseteq Nat
  BY InodeAssumption DEF InodeAssumption, Slots
<1>3. H \in SUBSET Nat /\ E \in SUBSET Nat
  BY <1>0, <1>2, Zenon
<1>4. CASE H # {}
  <2>1. s \in H
    BY <1>1, <1>3, <1>4, MinIn, Zenon
  <2>2. s \in Slots /\ ref[s] > 0 /\ inum[s] = i
    BY <1>0, <2>1, Zenon
  <2> QED
    BY <2>2, Parts, Zenon DEF Entry, TableInv
<1>5. CASE H = {}
  <2>1. E # {} /\ s = Min(E)
    BY <1>1, <1>5, Zenon
  <2>2. s \in E
    BY <1>3, <2>1, MinIn, Zenon
  <2>3. s \in Slots /\ ref[s] = 0
    BY <1>0, <2>2, Zenon
  <2>4. ~(ref[s] > 0)
    BY <2>3
  <2>5. \A t \in Slots : ~(ref[t] > 0 /\ inum[t] = i)
    BY <1>0, <1>5, Zenon
  <2> QED
    BY <2>3, <2>4, <2>5, Zenon DEF Entry
<1> QED
  BY <1>4, <1>5, Zenon

(* iget() with room in the table.                                          *)
LEMMA IgetDoes ==
  ASSUME Counting, NInv, Room, NEW p \in Procs, NEW i \in Inums, NEW l, Iget(p, i, l),
         NEW s, s = SlotFor(i)
  PROVE  Entry(s, i) /\ Gets(s, i) /\ Go(p, l)
<1>1. s # None
  BY Zenon DEF Room
<1>2. Entry(s, i)
  BY <1>1, SlotForIs, Zenon
<1>3. /\ ref' = [ref EXCEPT ![s] = @ + 1] /\ inum' = [inum EXCEPT ![s] = i]
      /\ valid' = [valid EXCEPT ![s] = @ /\ ~(ref[s] = 0)] /\ Go(p, l) /\ mem' = mem /\ lock' = lock
  BY <1>1, Zenon DEF Iget
<1>4. /\ ref \in [Slots -> Nat] /\ inum \in [Slots -> Inums \cup {None}]
      /\ valid \in [Slots -> BOOLEAN] /\ s \in Slots
  BY <1>2, Parts, Types, Zenon DEF Entry
<1>5. ref[s] \in Nat /\ ref[s] + 1 \in Nat /\ (ref[s] > 0 <=> ~(ref[s] = 0))
  BY <1>4
<1>6. /\ ref' \in [Slots -> Nat] /\ ref'[s] = ref[s] + 1
      /\ \A t \in Slots \ {s} : ref'[t] = ref[t]
  BY <1>3, <1>4, <1>5, Zenon
<1>7. /\ inum' \in [Slots -> Inums \cup {None}] /\ inum'[s] = i
      /\ \A t \in Slots \ {s} : inum'[t] = inum[t]
  BY <1>3, <1>4, Zenon
<1>8. PICK v : v = (valid[s] /\ ref[s] > 0)
  BY Zenon
<1>9. v \in BOOLEAN /\ valid' = [valid EXCEPT ![s] = v]
  BY <1>3, <1>4, <1>5, <1>8, Zenon
<1>10. /\ valid' \in [Slots -> BOOLEAN] /\ valid'[s] = v
       /\ \A t \in Slots \ {s} : valid'[t] = valid[t]
  BY <1>4, <1>9, Zenon
<1> QED
  BY <1>2, <1>3, <1>6, <1>7, <1>8, <1>10, Zenon DEF Gets

(* The table after it.                                                     *)
LEMMA GetsTable ==
  ASSUME Counting, NInv, NEW s, NEW i \in cur.type, Entry(s, i), Gets(s, i), cur' = cur
  PROVE  /\ KeepInum /\ TableInv' /\ ref'[s] > 0
         /\ \A t \in Slots : ref[t] > 0 => ref'[t] > 0 /\ inum'[t] = inum[t] /\ valid'[t] = valid[t]
         /\ \A t \in Slots \ {s} : ref'[t] > 0 => ref[t] > 0
<1>1. s \in Slots /\ ref[s] \in Nat
  BY Parts, Types, Zenon DEF Entry
<1>2. ref'[s] > 0
  <2>1. ref'[s] = ref[s] + 1
    BY Zenon DEF Gets
  <2> QED
    BY ONLY <1>1, <2>1
<1>3. ASSUME NEW t \in Slots, ref[t] > 0
      PROVE  ref'[t] > 0 /\ inum'[t] = inum[t] /\ valid'[t] = valid[t]
  <2>1. valid[s] \in BOOLEAN
    BY <1>1, Parts, Types, Zenon
  <2> QED
    BY <1>2, <1>3, <2>1, Zenon DEF Gets, Entry
<1>4. \A t \in Slots \ {s} : ref'[t] > 0 => ref[t] > 0
  BY Zenon DEF Gets
<1>5. \A t \in Slots : ref'[t] > 0 => inum'[t] \in cur.type
  BY <1>3, <1>4, Parts, Zenon DEF TableInv, Gets
<1>6. ASSUME NEW t \in Slots, NEW u \in Slots, ref'[t] > 0, ref'[u] > 0, inum'[t] = inum'[u]
      PROVE  t = u
  <2>1. CASE t = s
    BY <1>3, <1>4, <1>6, <2>1, Zenon DEF Gets, Entry
  <2>2. CASE u = s
    BY <1>3, <1>4, <1>6, <2>2, Zenon DEF Gets, Entry
  <2>3. CASE t # s /\ u # s
    <3>1. ref[t] > 0 /\ ref[u] > 0 /\ inum[t] = inum[u]
      BY <1>3, <1>4, <1>6, <2>3, Zenon
    <3> QED
      BY <3>1, Parts, Zenon DEF TableInv
  <2> QED
    BY <2>1, <2>2, <2>3, Zenon
<1>7. ASSUME NEW t \in Slots, ref'[t] > 0, valid'[t] PROVE mem'[t] = cur'.ino[inum'[t]]
  <2>1. ref[t] > 0
    BY <1>4, <1>7, Zenon DEF Gets
  <2>2. valid[t] /\ inum'[t] = inum[t] /\ mem' = mem
    BY <1>3, <1>7, <2>1, Zenon DEF Gets
  <2> QED
    BY <2>1, <2>2, Parts, Zenon DEF TableInv
<1> QED
  BY <1>2, <1>3, <1>4, <1>5, <1>6, <1>7, Zenon DEF KeepInum, TableInv

(* p gets a reference, in ip or in put.                                    *)
LEMMA GetBalance ==
  ASSUME Counting, NInv, NEW p \in Procs, NEW s, NEW i, Entry(s, i), Gets(s, i),
         file'[p] = file[p],
         \/ IpRef[p] = None /\ IpRef'[p] = s /\ PutRef'[p] = PutRef[p]
         \/ PutRef[p] = None /\ PutRef'[p] = s /\ IpRef'[p] = IpRef[p]
  PROVE  Balanced(p)
<1> SUFFICES ASSUME NEW t \in Slots
             PROVE  ref'[t] + One(file[p], t) + One(IpRef[p], t) + One(PutRef[p], t)
                      = ref[t] + One(file'[p], t) + One(IpRef'[p], t) + One(PutRef'[p], t)
  BY Zenon DEF Balanced
<1>1. \A x, v : One(x, v) \in {0, 1}
  BY DEF One
<1>2. One(None, t) = 0 /\ One(file'[p], t) = One(file[p], t)
  BY NoneIsNone, Zenon DEF One
<1>3. ref[t] \in Nat /\ ref'[t] = ref[t] + One(s, t)
  <2>1. ref[t] \in Nat
    BY Parts, Types, Zenon
  <2>2. CASE t = s
    <3>1. One(s, t) = 1 /\ ref'[t] = ref[t] + 1
      BY <2>2, Zenon DEF One, Gets
    <3> QED
      BY <2>1, <3>1, Zenon
  <2>3. CASE t # s
    <3>1. One(s, t) = 0 /\ ref'[t] = ref[t]
      BY <2>3, Zenon DEF One, Gets
    <3> QED
      BY ONLY <2>1, <3>1
  <2> QED
    BY <2>2, <2>3, Zenon
<1>4. CASE IpRef[p] = None /\ IpRef'[p] = s /\ PutRef'[p] = PutRef[p]
  <2>1. One(IpRef[p], t) = 0 /\ One(IpRef'[p], t) = One(s, t) /\ One(PutRef'[p], t) = One(PutRef[p], t)
    BY <1>2, <1>4, Zenon
  <2> QED
    BY ONLY <1>1, <1>2, <1>3, <2>1
<1>5. CASE PutRef[p] = None /\ PutRef'[p] = s /\ IpRef'[p] = IpRef[p]
  <2>1. One(PutRef[p], t) = 0 /\ One(PutRef'[p], t) = One(s, t) /\ One(IpRef'[p], t) = One(IpRef[p], t)
    BY <1>2, <1>5, Zenon
  <2> QED
    BY ONLY <1>1, <1>2, <1>3, <2>1
<1> QED
  BY <1>4, <1>5, Zenon

(* Nobody else is the last to use the inode, or the only one to know it.   *)
Unowned(p, i) ==
  \A q \in Procs \ {p} : Private[q] # i /\ (Lone[q] # None => inum[Lone[q]] # i)

(* An inode that has a name has links, and so is nobody's to free.         *)
LEMMA NamedUnowned ==
  ASSUME Counting, NInv, NEW p, NEW x \in Names, NEW i, i = cur.dir[x], i # None
  PROVE  i \in cur.type /\ i \in Inums /\ Unowned(p, i)
<1>1. i \in cur.type
  BY Parts, Zenon DEF LinkInv
<1>2. cur.ino[i].nlink \in Nat /\ cur.ino[i].nlink > 0
  BY <1>1, HasLink, Zenon
<1>3. cur.ino[i].nlink # 0
  BY ONLY <1>2
<1>4. i \in Inums
  BY <1>1, Parts, Types, Zenon
<1>5. ASSUME NEW q \in Procs, Private[q] = i PROVE FALSE
  <2>1. cur.ino[i] = Empty
    BY <1>5, Parts, Zenon DEF ProcOK, PrivateOK
  <2> QED
    BY <1>3, <2>1 DEF Empty
<1>6. ASSUME NEW q \in Procs, Lone[q] # None PROVE inum[Lone[q]] # i
  BY <1>3, <1>6, Parts, Zenon DEF ProcOK, LoneOK
<1> QED
  BY <1>1, <1>4, <1>5, <1>6, Zenon DEF Unowned

(* A step of p that is an iget().                                          *)
Getting(p, s, i) ==
  /\ cur' = cur /\ dur' = dur /\ DirSafe(p) /\ file'[p] = file[p]
  /\ \/ IpRef[p] = None /\ IpRef'[p] = s /\ PutRef'[p] = PutRef[p]
     \/ PutRef[p] = None /\ PutRef'[p] = s /\ IpRef'[p] = IpRef[p]
  /\ LockOf'[p] = LockOf[p] /\ Owner'[p] = Owner[p]
  /\ Private'[p] = None /\ Private[p] \in {None, i}
  /\ {pc[p], pc'[p]} \cap {"iupdate", "wrote"} = {} /\ pc'[p] # "panic"
  /\ boot' = boot \/ (boot' = boot + 1 /\ boot = i)

LEMMA IgetStep ==
  ASSUME Counting, NInv, Typed', NEW p \in Procs, Others(p), NEW i \in cur.type, NEW s,
         Entry(s, i), Gets(s, i), Unowned(p, i), Getting(p, s, i), ProcOK(p)'
  PROVE  NInv'
<1>0. /\ cur' = cur /\ dur' = dur /\ DirSafe(p) /\ LockOf'[p] = LockOf[p] /\ Owner'[p] = Owner[p]
      /\ Private'[p] = None /\ Private[p] \in {None, i} /\ pc'[p] # "panic" /\ file'[p] = file[p]
      /\ {pc[p], pc'[p]} \cap {"iupdate", "wrote"} = {}
  BY Zenon DEF Getting
<1>1. /\ KeepInum /\ TableInv' /\ ref'[s] > 0 /\ s \in Slots /\ inum'[s] = i /\ lock' = lock
      /\ \A t \in Slots : ref[t] > 0 => ref'[t] > 0 /\ inum'[t] = inum[t] /\ valid'[t] = valid[t]
      /\ \A t \in Slots \ {s} : ref'[t] > 0 => ref[t] > 0
  <2>1. s \in Slots /\ inum'[s] = i /\ lock' = lock
    BY Zenon DEF Entry, Gets
  <2> QED
    BY <1>0, <2>1, GetsTable, Zenon
<1>2. Balanced(p)
  BY GetBalance, Zenon DEF Getting
<1>3. LockInv'
  BY <1>0, <1>1, LockKept, Zenon
<1>4. OwesTo'[p] = OwesTo[p]
  <2>1. CASE Owner[p] = None
    BY <1>0, <2>1, Zenon DEF OwesTo
  <2>2. CASE Owner[p] # None
    <3>1. Owner[p] \in Slots \cup {None}
      BY PartTypes, Parts, Zenon
    <3>2. Owner[p] \in Slots /\ Holds(p, Owner[p])
      BY <2>2, <3>1, PartsHeld, Parts, Zenon
    <3>3. ref[Owner[p]] > 0
      BY <3>2, HeldHasRef, Parts, Zenon
    <3>4. inum'[Owner[p]] = inum[Owner[p]]
      BY <1>1, <3>2, <3>3, Zenon
    <3> QED
      BY <1>0, <2>2, <3>4, Zenon DEF OwesTo
  <2> QED
    BY <2>1, <2>2, Zenon
<1>5. LinkInv' /\ BlockInv'
  BY <1>0, <1>1, <1>4, SameDisk, Zenon
<1>6. Tame(p)
  <2>1. ASSUME NEW q \in Procs \ {p}, NEW t \in Slots, valid[t], Holds(q, t) PROVE valid'[t]
    BY <1>1, <2>1, HeldHasRef, Parts, Zenon
  <2>2. ASSUME NEW q \in Procs \ {p}, Lone[q] # None
        PROVE  ref'[Lone[q]] = ref[Lone[q]] /\ valid'[Lone[q]] = valid[Lone[q]]
    <3>1. Lone[q] \in Slots \cup {None}
      BY PartTypes, Parts, Zenon
    <3>2. Lone[q] \in Slots /\ Holds(q, Lone[q])
      BY <2>2, <3>1, PartsHeld, Parts, Zenon
    <3>3. ref[Lone[q]] > 0
      BY <3>2, HeldHasRef, Parts, Zenon
    <3>4. Lone[q] # s
      BY <2>2, <3>3, Zenon DEF Unowned, Entry
    <3> QED
      BY <3>2, <3>4, Zenon DEF Gets
  <2>3. ASSUME NEW q \in Procs \ {p}, Private[q] # None
        PROVE  /\ Private[q] \in cur.type /\ Private'[p] # Private[q]
               /\ \A t \in Slots : ref'[t] > 0 => inum'[t] # Private[q]
    <3>1. Private[q] \in cur.type /\ \A t \in Slots : ref[t] > 0 => inum[t] # Private[q]
      BY <2>3, Parts, Zenon DEF ProcOK, PrivateOK
    <3>2. Private[q] # i
      BY Zenon DEF Unowned
    <3>3. ASSUME NEW t \in Slots, ref'[t] > 0 PROVE inum'[t] # Private[q]
      BY <1>1, <3>1, <3>2, <3>3, Zenon
    <3> QED
      BY <1>0, <2>3, <3>1, <3>3, Zenon
  <2> QED
    BY <1>0, <1>1, <2>1, <2>2, <2>3, Zenon DEF Tame
<1>7. OrphanInv'
  <2> SUFFICES ASSUME NEW j \in Inums, Orphan(j)', j < boot'
               PROVE  \/ \E t \in Slots : ref'[t] > 0 /\ inum'[t] = j
                      \/ \E q \in Procs : Private'[q] = j
    BY Zenon DEF OrphanInv
  <2>1. CASE j = i
    BY <1>1, <2>1, Zenon
  <2>2. CASE j # i
    <3>1. Orphan(j)
      BY <1>0, Zenon DEF Orphan
    <3>2. j < boot
      <4>1. CASE boot' = boot
        BY <4>1, Zenon
      <4>2. CASE boot' = boot + 1 /\ boot = i
        <5>1. boot \in Nat /\ j \in Nat
          BY Parts, Types, InodeAssumption DEF InodeAssumption, Inums
        <5> QED
          BY <2>2, <4>2, <5>1
      <4> QED
        BY <4>1, <4>2, Zenon DEF Getting
    <3>3. ASSUME NEW q \in Procs, Private[q] = j PROVE Private'[q] = j
      <4>1. q # p
        BY <1>0, <2>2, <3>3, NoneIsNone, Zenon
      <4> QED
        BY <3>3, <4>1, Frame, Zenon DEF SameParts
    <3> QED
      BY <1>1, <3>1, <3>2, <3>3, Parts, Zenon DEF OrphanInv
  <2> QED
    BY <2>1, <2>2, Zenon
<1> QED
  BY <1>0, <1>1, <1>2, <1>3, <1>5, <1>6, <1>7, TameStep, Zenon

(* An entry with a reference stays valid, and stays with p.                *)
LEMMA GetsValid ==
  ASSUME Counting, NInv, NEW p \in Procs, NEW s, NEW i \in cur.type, Entry(s, i), Gets(s, i),
         cur' = cur, Owner'[p] = Owner[p], file'[p] = file[p], LockOf'[p] = None
  PROVE  \A t \in Slots : t \in {LockOf'[p], Owner'[p], file'[p]} => valid'[t]
<1> SUFFICES ASSUME NEW t \in Slots, t \in {Owner[p], file[p]} PROVE valid'[t]
  BY NoneIsNone, Zenon
<1>1. valid[t]
  BY Parts, Zenon DEF ProcOK, ValidOK
<1>2. Holds(p, t)
  BY PartsHeld, Parts, Zenon DEF Holds
<1>3. ref[t] > 0
  BY <1>2, HeldHasRef, Parts, Zenon
<1> QED
  BY <1>1, <1>3, GetsTable, Zenon

(* The local variables of a process that has found an inode.               *)
LEMMA GetLocals ==
  ASSUME NInv, NEW p \in Procs, NEW l \in Labels, Go(p, l), NEW s \in Slots, NEW i, Gets(s, i),
         ip' = [ip EXCEPT ![p] = s], ret' = ret, arg' = arg, put' = put, file' = file,
         num' = num \/ num' = [num EXCEPT ![p] = None], cur' = cur, dur' = dur,
         group' = group, dlock' \in {dlock, p}, boot' \in 1 .. NInodes + 1
  PROVE  Others(p) /\ Typed' /\ Rows(p)' /\ pc'[p] = l /\ ip'[p] = s
<1>1. Shape
  BY Parts, ShapeTyped, Zenon
<1>2. /\ pc' \in [Procs -> Labels] /\ pc'[p] = l /\ \A q \in Procs \ {p} : pc'[q] = pc[q]
  BY <1>1, Zenon DEF Shape, Go
<1>3. /\ ip' \in [Procs -> Slots \cup {None}] /\ ip'[p] = s
      /\ \A q \in Procs \ {p} : ip'[q] = ip[q]
  BY <1>1, Zenon DEF Shape
<1>4. /\ num' \in [Procs -> Nat] /\ \A q \in Procs \ {p} : num'[q] = num[q]
  <2>1. None \in Nat
    BY DEF None
  <2>2. num \in [Procs -> Nat]
    BY <1>1, Zenon DEF Shape
  <2>3. CASE num' = num
    BY <2>2, <2>3, Zenon
  <2>4. CASE num' = [num EXCEPT ![p] = None]
    BY <2>1, <2>2, <2>4, Zenon
  <2> QED
    BY <2>3, <2>4, Zenon
<1>5. Others(p)
  BY <1>2, <1>3, <1>4, Zenon DEF Others
<1>6. Shape'
  BY <1>1, <1>2, <1>3, <1>4, Zenon DEF Shape, Gets
<1>7. Typed'
  BY <1>6, ShapeNext, Zenon
<1> QED
  BY <1>2, <1>3, <1>5, <1>7, RowsNext, Zenon

(* namei() and dirlookup(): the name has an inode.                         *)
LEMMA FoundStep ==
  ASSUME Counting, NInv, Room, NEW p \in Procs, Found(p)
  PROVE  NInv'
<1>0. PICK i, l : i = cur.dir[arg[p][1]] /\ l = FoundAt(pc[p])
  BY Zenon
<1>1. PICK s : s = SlotFor(i)
  BY Zenon
<1>2. /\ cur' = cur /\ dur' = dur /\ group' = group /\ boot' = boot /\ file' = file /\ dlock' = dlock
      /\ pc[p] \in {"open", "create", "link"} /\ dlock = NoProc /\ i # None /\ Iget(p, i, l)
      /\ ret' = ret /\ arg' = arg /\ ip' = [ip EXCEPT ![p] = s] /\ put' = put /\ num' = num
  BY <1>0, <1>1, Zenon DEF Found, logged
<1>3. Typed /\ ProcOK(p) /\ Rows(p)
  BY Parts, RowsNow, Zenon
<1>4. /\ pc[p] \in NameLabels /\ (pc[p] = "link" => pc[p] \in TwoLabels)
      /\ pc[p] \in Plain \cup {"ialloc"} /\ pc[p] \notin Putting /\ pc[p] \notin DirLabels
      /\ pc[p] \notin NewLabels \cup LoneLabels \cup NumLabels \cup {"wrote"}
  BY <1>2 DEF NameLabels, TwoLabels, Plain, Putting, PutLabels, DirLabels, NewLabels, LoneLabels,
     TruncLabels, NumLabels, UnlinkLabels
<1>5. arg[p][1] \in Names
  BY <1>3, <1>4, Zenon DEF ProcOK, ArgOK
<1>6. i \in cur.type /\ i \in Inums /\ Unowned(p, i)
  BY <1>0, <1>2, <1>5, NamedUnowned, Zenon
<1>7. Entry(s, i) /\ Gets(s, i) /\ Go(p, l) /\ s \in Slots
  <2>1. Entry(s, i) /\ Gets(s, i) /\ Go(p, l)
    BY <1>1, <1>2, <1>6, IgetDoes, Zenon
  <2> QED
    BY <2>1, Zenon DEF Entry
<1>8. /\ l \in {"lock_open", "lock_link"} /\ (l = "lock_link" => pc[p] = "link") /\ l \in Labels
  <2>1. l \in {"lock_open", "lock_link"} /\ (l = "lock_link" => pc[p] = "link")
    BY <1>0, <1>2 DEF FoundAt
  <2> QED
    BY <2>1 DEF Labels
<1>9. Others(p) /\ Typed' /\ Rows(p)' /\ pc'[p] = l /\ ip'[p] = s
  <2>1. boot' \in 1 .. NInodes + 1 /\ dlock' \in {dlock, p}
    BY <1>2, <1>3, Types, Zenon
  <2> QED
    BY <1>2, <1>7, <1>8, <2>1, GetLocals, Zenon
<1>10. /\ pc'[p] \in {"lock_open", "lock_link", "lock_unlink", "lock_orphan", "lock_new"}
       /\ pc'[p] \notin Putting /\ pc'[p] \notin DirLabels
       /\ pc'[p] \notin NewLabels \cup LoneLabels \cup NumLabels \cup {"wrote"}
       /\ {pc[p], pc'[p]} \cap {"iupdate", "wrote"} = {} /\ pc'[p] \notin {"panic", "iput", "unref"}
       /\ pc'[p] \notin NewLabels \cup {"ialloc"} /\ pc'[p] \notin UnlinkLabels
       /\ pc'[p] \notin PutLabels /\ pc'[p] \notin WriteLabels \cup {"write"}
       /\ pc'[p] \notin NumLabels /\ pc'[p] \notin NameLabels
       /\ (pc'[p] \in TwoLabels => pc[p] = "link")
  BY <1>2, <1>8, <1>9 DEF NameLabels, TwoLabels, Putting, PutLabels, DirLabels, NewLabels,
     LoneLabels, TruncLabels, NumLabels, UnlinkLabels, WriteLabels
<1>11. Has(p, None, None, None, None) /\ Has(p, s, None, None, None)'
  BY <1>3, <1>4, <1>9, <1>10, Zenon DEF Rows, HasRow, Has
<1>12. Alone(p, None, None, None, None) /\ Alone(p, None, None, None, None)'
  BY <1>3, <1>4, <1>9, <1>10, Zenon DEF Rows, AloneRow
<1>13. (InDir(p)' <=> InDir(p)) /\ ~Bad(p)'
  BY <1>3, <1>4, <1>9, <1>10, Zenon DEF Rows, DirRow
<1>14. Getting(p, s, i)
  BY <1>2, <1>10, <1>11, <1>12, Zenon DEF Getting, DirSafe, Has, Alone
<1>15. ProcOK(p)'
  <2>1. LoneOK(p)' /\ PrivateOK(p)'
    BY <1>10, <1>12, NoLoneNext, Zenon
  <2>2. ValidOK(p)'
    <3>1. \A t \in Slots : t \in {LockOf'[p], Owner'[p], file'[p]} => valid'[t]
      BY <1>2, <1>6, <1>7, <1>11, GetsValid, Zenon DEF Has
    <3> QED
      BY <1>10, <3>1, Zenon DEF ValidOK
  <2>3. DirOK(p)'
    BY <1>2, <1>3, <1>10, <1>13, Zenon DEF ProcOK, DirOK
  <2>4. ArgOK(p)'
    BY <1>2, <1>3, <1>4, <1>7, <1>9, <1>10, <1>13, Zenon DEF ProcOK, ArgOK
  <2> QED
    BY <2>1, <2>2, <2>3, <2>4, Zenon DEF ProcOK
<1> QED
  BY <1>6, <1>7, <1>9, <1>14, <1>15, IgetStep, Zenon

(* sys_unlink() finds the inode, and keeps the directory locked.           *)
LEMMA UnlinkFindsStep ==
  ASSUME Counting, NInv, Room, NEW p \in Procs, UnlinkFinds(p)
  PROVE  NInv'
<1>0. PICK i : i = cur.dir[arg[p][1]]
  BY Zenon
<1>1. PICK s : s = SlotFor(i)
  BY Zenon
<1>2. /\ cur' = cur /\ dur' = dur /\ group' = group /\ boot' = boot /\ file' = file /\ dlock' = p
      /\ pc[p] = "unlink" /\ dlock = NoProc /\ i # None /\ Iget(p, i, "lock_unlink")
      /\ ret' = ret /\ arg' = arg /\ ip' = [ip EXCEPT ![p] = s] /\ put' = put /\ num' = num
  BY <1>0, <1>1, Zenon DEF UnlinkFinds, logged
<1>3. Typed /\ ProcOK(p) /\ Rows(p)
  BY Parts, RowsNow, Zenon
<1>4. /\ pc[p] \in NameLabels /\ pc[p] \in Plain \cup {"ialloc"}
      /\ pc[p] \notin NewLabels \cup LoneLabels \cup NumLabels \cup {"wrote"}
      /\ "lock_unlink" \in Labels
  BY <1>2 DEF NameLabels, Plain, NewLabels, LoneLabels, TruncLabels, NumLabels, Labels
<1>5. arg[p][1] \in Names
  BY <1>3, <1>4, Zenon DEF ProcOK, ArgOK
<1>6. i \in cur.type /\ i \in Inums /\ Unowned(p, i)
  BY <1>0, <1>2, <1>5, NamedUnowned, Zenon
<1>7. Entry(s, i) /\ Gets(s, i) /\ Go(p, "lock_unlink") /\ s \in Slots /\ inum'[s] = i
  <2>1. Entry(s, i) /\ Gets(s, i) /\ Go(p, "lock_unlink")
    BY <1>1, <1>2, <1>6, IgetDoes, Zenon
  <2> QED
    BY <2>1, Zenon DEF Entry, Gets
<1>8. Others(p) /\ Typed' /\ Rows(p)' /\ pc'[p] = "lock_unlink" /\ ip'[p] = s
  <2>1. boot' \in 1 .. NInodes + 1 /\ dlock' \in {dlock, p}
    BY <1>2, <1>3, Types, Zenon
  <2> QED
    BY <1>2, <1>4, <1>7, <2>1, GetLocals, Zenon
<1>9. /\ pc'[p] \in {"lock_open", "lock_link", "lock_unlink", "lock_orphan", "lock_new"}
      /\ pc'[p] \notin Putting /\ pc'[p] \in DirLabels
      /\ pc'[p] \notin NewLabels \cup LoneLabels \cup NumLabels \cup {"wrote"}
      /\ {pc[p], pc'[p]} \cap {"iupdate", "wrote"} = {} /\ pc'[p] \notin {"panic", "iput", "unref"}
      /\ pc'[p] \notin NewLabels \cup {"ialloc"}
      /\ pc'[p] \notin PutLabels /\ pc'[p] \notin WriteLabels \cup {"write"}
      /\ pc'[p] \notin NumLabels /\ pc'[p] \notin TwoLabels
  BY <1>2, <1>8 DEF TwoLabels, Putting, PutLabels, DirLabels, NewLabels,
     LoneLabels, TruncLabels, NumLabels, UnlinkLabels, WriteLabels
<1>10. Has(p, None, None, None, None) /\ Has(p, s, None, None, None)'
  BY <1>3, <1>4, <1>8, <1>9, Zenon DEF Rows, HasRow, Has
<1>11. Alone(p, None, None, None, None) /\ Alone(p, None, None, None, None)'
  BY <1>3, <1>4, <1>8, <1>9, Zenon DEF Rows, AloneRow
<1>12. InDir(p)' /\ ~Bad(p)'
  BY <1>8, <1>9, Zenon DEF Rows, DirRow
<1>13. Getting(p, s, i)
  BY <1>2, <1>9, <1>10, <1>11, Zenon DEF Getting, DirSafe, Has, Alone
<1>14. ProcOK(p)'
  <2>1. LoneOK(p)' /\ PrivateOK(p)'
    BY <1>9, <1>11, NoLoneNext, Zenon
  <2>2. ValidOK(p)'
    <3>1. \A t \in Slots : t \in {LockOf'[p], Owner'[p], file'[p]} => valid'[t]
      BY <1>2, <1>6, <1>7, <1>10, GetsValid, Zenon DEF Has
    <3> QED
      BY <1>9, <3>1, Zenon DEF ValidOK
  <2>3. DirOK(p)'
    <3>1. cur'.dir[arg'[p][1]] = inum'[ip'[p]] /\ dlock' = p
      BY <1>0, <1>2, <1>7, <1>8, Zenon
    <3> QED
      BY <1>9, <1>12, <3>1, Zenon DEF DirOK
  <2>4. ArgOK(p)'
    BY <1>2, <1>5, <1>7, <1>8, <1>9, <1>12, Zenon DEF ArgOK
  <2> QED
    BY <2>1, <2>2, <2>3, <2>4, Zenon DEF ProcOK
<1> QED
  BY <1>6, <1>7, <1>8, <1>13, <1>14, IgetStep, Zenon

(* ialloc() ends with iget(): no entry has the new inode.                  *)
LEMMA IallocIgetStep ==
  ASSUME Counting, NInv, Room, NEW p \in Procs, IallocIget(p)
  PROVE  NInv'
<1>0. PICK i : i = num[p]
  BY Zenon
<1>1. PICK s : s = SlotFor(i)
  BY Zenon
<1>2. /\ cur' = cur /\ dur' = dur /\ group' = group /\ boot' = boot /\ file' = file /\ dlock' = dlock
      /\ pc[p] = "ialloc" /\ Iget(p, i, "lock_new") /\ ret' = ret /\ arg' = arg
      /\ ip' = [ip EXCEPT ![p] = s] /\ put' = put /\ num' = [num EXCEPT ![p] = None]
  BY <1>0, <1>1, Zenon DEF IallocIget, logged
<1>3. Typed /\ ProcOK(p) /\ Rows(p)
  BY Parts, RowsNow, Zenon
<1>4. /\ pc[p] \in NameLabels /\ pc[p] \in Plain \cup {"ialloc"} /\ pc[p] \in NumLabels
      /\ pc[p] \in DirLabels /\ pc[p] \notin Putting /\ pc[p] \in NewLabels \cup {"ialloc"}
      /\ "lock_new" \in Labels
  BY <1>2 DEF NameLabels, Plain, NumLabels, DirLabels, Putting, PutLabels, Labels
<1>5. arg[p][1] \in Names /\ i \in Inums /\ i # None /\ cur.dir[arg[p][1]] = None
  BY <1>0, <1>3, <1>4, NoneIsNone, Zenon DEF ProcOK, ArgOK, DirOK
<1>6. Has(p, None, None, None, None) /\ Alone(p, None, None, i, None) /\ InDir(p)
  BY <1>0, <1>3, <1>4, Zenon DEF Rows, HasRow, AloneRow, DirRow
<1>7. /\ i \in cur.type /\ cur.ino[i] = Empty /\ \A t \in Slots : ref[t] > 0 => inum[t] # i
      /\ \A q \in Procs \ {p} : Private[q] # i
  BY <1>3, <1>5, <1>6, Zenon DEF ProcOK, PrivateOK, Alone
<1>8. Unowned(p, i)
  <2>1. ASSUME NEW q \in Procs, Lone[q] # None PROVE inum[Lone[q]] # i
    <3>1. Lone[q] \in Slots \cup {None}
      BY <1>3, PartTypes, Zenon
    <3>2. Lone[q] \in Slots /\ Holds(q, Lone[q])
      BY <2>1, <3>1, PartsHeld, Parts, Zenon
    <3>3. ref[Lone[q]] > 0
      BY <3>2, HeldHasRef, Parts, Zenon
    <3> QED
      BY <1>7, <3>2, <3>3, Zenon
  <2> QED
    BY <1>7, <2>1, Zenon DEF Unowned
<1>9. Entry(s, i) /\ Gets(s, i) /\ Go(p, "lock_new") /\ s \in Slots /\ inum'[s] = i
      /\ ref'[s] = ref[s] + 1
  <2>1. Entry(s, i) /\ Gets(s, i) /\ Go(p, "lock_new")
    BY <1>1, <1>2, <1>5, IgetDoes, Zenon
  <2> QED
    BY <2>1, Zenon DEF Entry, Gets
<1>10. ref'[s] = 1
  <2>1. ref[s] \in Nat
    BY <1>3, <1>9, Types, Zenon
  <2>2. ~(ref[s] > 0)
    BY <1>7, <1>9, Zenon DEF Entry
  <2> QED
    BY ONLY <1>9, <2>1, <2>2
<1>11. Others(p) /\ Typed' /\ Rows(p)' /\ pc'[p] = "lock_new" /\ ip'[p] = s
  <2>1. boot' \in 1 .. NInodes + 1 /\ dlock' \in {dlock, p}
    BY <1>2, <1>3, Types, Zenon
  <2> QED
    BY <1>2, <1>4, <1>9, <2>1, GetLocals, Zenon
<1>12. /\ pc'[p] \in {"lock_open", "lock_link", "lock_unlink", "lock_orphan", "lock_new"}
       /\ pc'[p] \notin Putting /\ pc'[p] \in DirLabels /\ pc'[p] \in NewLabels
       /\ {pc[p], pc'[p]} \cap {"iupdate", "wrote"} = {} /\ pc'[p] \notin {"panic", "iput", "unref"}
       /\ pc'[p] \notin UnlinkLabels
       /\ pc'[p] \notin PutLabels /\ pc'[p] \notin WriteLabels \cup {"write"}
       /\ pc'[p] \notin NumLabels /\ pc'[p] \notin TwoLabels
  BY <1>2, <1>11 DEF TwoLabels, Putting, PutLabels, DirLabels, NewLabels,
     NumLabels, UnlinkLabels, WriteLabels
<1>13. Has(p, s, None, None, None)' /\ Alone(p, s, None, None, None)' /\ InDir(p)' /\ ~Bad(p)'
  BY <1>11, <1>12, Zenon DEF Rows, HasRow, Has, AloneRow, Alone, DirRow
<1>14. Getting(p, s, i)
  BY <1>2, <1>6, <1>12, <1>13, Zenon DEF Getting, DirSafe, Has, Alone
<1>15. ProcOK(p)'
  <2>1. LoneOK(p)' /\ PrivateOK(p)'
    <3>1. cur'.ino[inum'[s]].nlink = 0
      BY <1>2, <1>7, <1>9 DEF Empty
    <3> QED
      BY <1>10, <1>12, <1>13, <3>1, Zenon DEF LoneOK, PrivateOK, Alone
  <2>2. ValidOK(p)'
    <3>1. \A t \in Slots : t \in {LockOf'[p], Owner'[p], file'[p]} => valid'[t]
      BY <1>2, <1>6, <1>7, <1>9, <1>13, GetsValid, Zenon DEF Has
    <3> QED
      BY <1>12, <3>1, Zenon DEF ValidOK
  <2>3. DirOK(p)'
    BY <1>2, <1>3, <1>5, <1>6, <1>12, <1>13, Zenon DEF ProcOK, DirOK
  <2>4. ArgOK(p)'
    BY <1>2, <1>5, <1>9, <1>11, <1>12, <1>13, Zenon DEF ArgOK
  <2> QED
    BY <2>1, <2>2, <2>3, <2>4, Zenon DEF ProcOK
<1> QED
  BY <1>7, <1>8, <1>9, <1>11, <1>14, <1>15, IgetStep, Zenon

(* dirlink() of sys_link() finds the new name in use, and drops the inode  *)
(* it has looked up; the inode that is being linked stays with p.          *)
LEMMA LinkExistsStep ==
  ASSUME Counting, NInv, Room, NEW p \in Procs, LinkExists(p)
  PROVE  NInv'
<1>0. PICK i : i = cur.dir[arg[p][2]]
  BY Zenon
<1>1. PICK s : s = SlotFor(i)
  BY Zenon
<1>2. /\ cur' = cur /\ dur' = dur /\ group' = group /\ boot' = boot /\ file' = file /\ dlock' = p
      /\ pc[p] = "link_dir" /\ dlock = NoProc /\ i # None /\ Iget(p, i, "iput")
      /\ ret' = [ret EXCEPT ![p] = "unlock_dir_bad"] /\ arg' = arg /\ ip' = ip
      /\ put' = [put EXCEPT ![p] = s] /\ num' = num
  BY <1>0, <1>1, Zenon DEF LinkExists, logged
<1>3. Typed /\ ProcOK(p) /\ Rows(p) /\ Shape
  BY Parts, RowsNow, ShapeTyped, Zenon
<1>4. /\ pc[p] \in TwoLabels /\ pc[p] \in IpLabels
      /\ pc[p] \notin NewLabels \cup LoneLabels \cup NumLabels \cup {"wrote"}
      /\ "iput" \in Labels
  BY <1>2 DEF TwoLabels, IpLabels, NewLabels, LoneLabels, TruncLabels, NumLabels, Labels
<1>5. arg[p][2] \in Names /\ ip[p] \in Slots
  BY <1>3, <1>4, Zenon DEF ProcOK, ArgOK
<1>6. i \in cur.type /\ i \in Inums /\ Unowned(p, i)
  BY <1>0, <1>2, <1>5, NamedUnowned, Zenon
<1>7. Entry(s, i) /\ Gets(s, i) /\ Go(p, "iput") /\ s \in Slots /\ inum'[s] = i
  <2>1. Entry(s, i) /\ Gets(s, i) /\ Go(p, "iput")
    BY <1>1, <1>2, <1>6, IgetDoes, Zenon
  <2> QED
    BY <2>1, Zenon DEF Entry, Gets
<1>8. /\ pc' \in [Procs -> Labels] /\ pc'[p] = "iput" /\ \A q \in Procs \ {p} : pc'[q] = pc[q]
  BY <1>3, <1>4, <1>7, Zenon DEF Shape, Go
<1>9. /\ put' \in [Procs -> Slots \cup {None}] /\ put'[p] = s
      /\ \A q \in Procs \ {p} : put'[q] = put[q]
  BY <1>2, <1>3, <1>7, Zenon DEF Shape
<1>10. /\ ret' \in [Procs -> {"end", "unlock_dir", "unlock_dir_bad"}] /\ ret'[p] = "unlock_dir_bad"
       /\ \A q \in Procs \ {p} : ret'[q] = ret[q]
  BY <1>2, <1>3, Zenon DEF Shape
<1>11. Others(p)
  BY <1>2, <1>8, <1>9, <1>10, Zenon DEF Others
<1>12. Typed' /\ Rows(p)'
  <2>1. Shape'
    BY <1>2, <1>3, <1>7, <1>8, <1>9, <1>10, Zenon DEF Shape, Gets
  <2> QED
    BY <2>1, ShapeNext, RowsNext, Zenon
<1>13. /\ pc'[p] \in Putting /\ pc'[p] \in PutLabels
       /\ pc'[p] \notin NewLabels \cup LoneLabels \cup NumLabels \cup {"wrote"}
       /\ {pc[p], pc'[p]} \cap {"iupdate", "wrote"} = {} /\ pc'[p] \notin {"panic", "unref"}
       /\ pc'[p] \notin NewLabels \cup {"ialloc"} /\ pc'[p] \notin UnlinkLabels
       /\ pc'[p] \notin WriteLabels \cup {"write"} /\ pc'[p] \notin NumLabels
       /\ pc'[p] \notin NameLabels /\ ret'[p] # "end"
  BY <1>2, <1>8, <1>10 DEF Putting, PutLabels, NewLabels, NameLabels,
     LoneLabels, TruncLabels, NumLabels, UnlinkLabels, WriteLabels
<1>14. InDir(p)' /\ Bad(p)'
  BY <1>10, <1>12, <1>13, Zenon DEF Rows, DirRow
<1>15. Has(p, ip[p], None, None, ip[p]) /\ Has(p, ip[p], s, None, ip[p])'
  <2>1. Has(p, ip[p], None, None, ip[p])
    BY <1>2, <1>3, Zenon DEF Rows, HasRow
  <2>2. BadIp(p)' = ip[p]
    BY <1>2, <1>14, Zenon DEF BadIp
  <2>3. Has(p, BadIp(p), put[p], None, BadIp(p))'
    BY <1>8, <1>12, Zenon DEF Rows, HasRow
  <2>4. BadIp(p)' = ip'[p] /\ put'[p] = s
    BY <1>2, <1>9, <2>2, Zenon
  <2> QED
    BY <2>1, <2>3, <2>4, Zenon DEF Has
<1>16. Alone(p, None, None, None, None) /\ Alone(p, None, None, None, None)'
  BY <1>3, <1>4, <1>12, <1>13, Zenon DEF Rows, AloneRow
<1>17. Getting(p, s, i)
  BY <1>2, <1>13, <1>15, <1>16, Zenon DEF Getting, DirSafe, Has, Alone
<1>18. ProcOK(p)'
  <2>1. LoneOK(p)' /\ PrivateOK(p)'
    BY <1>13, <1>16, NoLoneNext, Zenon
  <2>2. ValidOK(p)'
    <3>1. \A t \in Slots : t \in {LockOf'[p], Owner'[p], file'[p]} => valid'[t]
      BY <1>2, <1>6, <1>7, <1>15, GetsValid, Zenon DEF Has
    <3> QED
      BY <1>14, <3>1, Zenon DEF ValidOK
  <2>3. DirOK(p)'
    <3>1. cur'.dir[arg'[p][2]] = inum'[put'[p]] /\ dlock' = p
      BY <1>0, <1>2, <1>7, <1>9, Zenon
    <3> QED
      BY <1>13, <1>14, <3>1, Zenon DEF DirOK
  <2>4. ArgOK(p)'
    BY <1>2, <1>5, <1>7, <1>9, <1>13, Zenon DEF ArgOK
  <2> QED
    BY <2>1, <2>2, <2>3, <2>4, Zenon DEF ProcOK
<1> QED
  BY <1>6, <1>7, <1>11, <1>12, <1>17, <1>18, IgetStep, Zenon

(* An idle process has nothing.                                            *)
LEMMA IdleHas ==
  ASSUME NInv, NEW q \in Procs, pc[q] = "idle"
  PROVE  Has(q, None, None, None, None) /\ Alone(q, None, None, None, None) /\ ~InDir(q)
<1>1. Rows(q)
  BY Parts, RowsNow, Zenon
<1>2. /\ pc[q] \in Plain \cup {"ialloc"} /\ pc[q] \notin DirLabels /\ pc[q] \notin Putting
      /\ pc[q] \notin NewLabels \cup LoneLabels \cup NumLabels \cup {"wrote"}
  BY DEF Plain, Putting, PutLabels, NewLabels, LoneLabels, TruncLabels, NumLabels,
     DirLabels, UnlinkLabels
<1> QED
  BY <1>1, <1>2, Zenon DEF Rows, HasRow, AloneRow, DirRow

(* ireclaim() finds an inode without links.                                *)
LEMMA ReclaimFinds ==
  ASSUME Counting, NInv, Room, NEW p \in Procs, Reclaim(p), Orphan(boot)
  PROVE  NInv'
<1>0. PICK i : i = boot
  BY Zenon
<1>1. PICK s : s = SlotFor(i)
  BY Zenon
<1>2. /\ cur' = cur /\ dur' = dur /\ group' = group /\ boot' = boot + 1 /\ file' = file
      /\ dlock' = dlock /\ ~Up /\ (\A q \in Procs : pc[q] = "idle") /\ Iget(p, i, "lock_orphan")
      /\ ret' = ret /\ arg' = arg /\ ip' = [ip EXCEPT ![p] = s] /\ put' = put /\ num' = num
  BY <1>0, <1>1, Zenon DEF Reclaim, logged
<1>3. Typed /\ ProcOK(p) /\ i \in cur.type /\ i \in Inums
  <2>1. Typed /\ ProcOK(p) /\ i \in cur.type
    BY <1>0, Parts, Zenon DEF Orphan
  <2> QED
    BY <2>1, Types, Zenon
<1>4. \A q \in Procs : Has(q, None, None, None, None) /\ Alone(q, None, None, None, None) /\ ~InDir(q)
  BY <1>2, IdleHas, Zenon
<1>5. Unowned(p, i)
  BY <1>3, <1>4, NoneIsNone, Zenon DEF Unowned, Alone
<1>6. Entry(s, i) /\ Gets(s, i) /\ Go(p, "lock_orphan") /\ s \in Slots
  <2>1. Entry(s, i) /\ Gets(s, i) /\ Go(p, "lock_orphan")
    BY <1>1, <1>2, <1>3, IgetDoes, Zenon
  <2> QED
    BY <2>1, Zenon DEF Entry
<1>7. Others(p) /\ Typed' /\ Rows(p)' /\ pc'[p] = "lock_orphan" /\ ip'[p] = s
  <2>1. boot' \in 1 .. NInodes + 1
    <3>1. boot \in 1 .. NInodes
      BY <1>0, <1>3, Zenon DEF Inums
    <3> QED
      BY ONLY <1>2, <3>1, InodeAssumption DEF InodeAssumption
  <2>2. dlock' \in {dlock, p} /\ "lock_orphan" \in Labels
    BY <1>2 DEF Labels
  <2> QED
    BY <1>2, <1>6, <2>1, <2>2, GetLocals, Zenon
<1>8. /\ pc'[p] \in {"lock_open", "lock_link", "lock_unlink", "lock_orphan", "lock_new"}
      /\ pc'[p] \notin Putting /\ pc'[p] \notin DirLabels
      /\ pc'[p] \notin NewLabels \cup LoneLabels \cup NumLabels \cup {"wrote"}
      /\ {pc[p], pc'[p]} \cap {"iupdate", "wrote"} = {} /\ pc'[p] \notin {"panic", "iput", "unref"}
      /\ pc'[p] \notin NewLabels \cup {"ialloc"} /\ pc'[p] \notin UnlinkLabels
      /\ pc'[p] \notin PutLabels /\ pc'[p] \notin WriteLabels \cup {"write"}
      /\ pc'[p] \notin NumLabels /\ pc'[p] \notin NameLabels /\ pc'[p] \notin TwoLabels
  <2>1. pc[p] = "idle"
    BY <1>2, Zenon
  <2> QED
    BY <2>1, <1>7 DEF NameLabels, TwoLabels, Putting, PutLabels, DirLabels, NewLabels,
       LoneLabels, TruncLabels, NumLabels, UnlinkLabels, WriteLabels
<1>9. /\ Has(p, s, None, None, None)' /\ Alone(p, None, None, None, None)' /\ ~InDir(p)' /\ ~Bad(p)'
  BY <1>7, <1>8, Zenon DEF Rows, HasRow, Has, AloneRow, DirRow
<1>10. Getting(p, s, i)
  BY <1>0, <1>2, <1>4, <1>8, <1>9, Zenon DEF Getting, DirSafe, Has, Alone
<1>11. ProcOK(p)'
  <2>1. LoneOK(p)' /\ PrivateOK(p)'
    BY <1>8, <1>9, NoLoneNext, Zenon
  <2>2. ValidOK(p)'
    <3>1. \A t \in Slots : t \in {LockOf'[p], Owner'[p], file'[p]} => valid'[t]
      BY <1>2, <1>3, <1>4, <1>6, <1>9, GetsValid, Zenon DEF Has
    <3> QED
      BY <1>8, <3>1, Zenon DEF ValidOK
  <2>3. DirOK(p)'
    BY <1>2, <1>3, <1>4, <1>8, <1>9, Zenon DEF ProcOK, DirOK
  <2>4. ArgOK(p)'
    BY <1>2, <1>6, <1>7, <1>8, <1>9, Zenon DEF ArgOK
  <2> QED
    BY <2>1, <2>2, <2>3, <2>4, Zenon DEF ProcOK
<1> QED
  BY <1>3, <1>5, <1>6, <1>7, <1>10, <1>11, IgetStep, Zenon

(* ireclaim() passes an inode that is free or has links.                   *)
LEMMA ReclaimPasses ==
  ASSUME Counting, NInv, NEW p \in Procs, Reclaim(p), ~Orphan(boot)
  PROVE  NInv'
<1>1. /\ cur' = cur /\ dur' = dur /\ group' = group /\ boot' = boot + 1 /\ file' = file
      /\ dlock' = dlock /\ ~Up /\ (\A q \in Procs : pc[q] = "idle") /\ pc' = pc /\ ip' = ip
      /\ inum' = inum /\ ref' = ref /\ valid' = valid /\ mem' = mem /\ lock' = lock
      /\ ret' = ret /\ arg' = arg /\ put' = put /\ num' = num
  BY Zenon DEF Reclaim, logged, table
<1>2. Typed /\ ProcOK(p) /\ Shape /\ TableInv /\ OrphanInv
  BY Parts, ShapeTyped, Zenon
<1>3. Others(p)
  BY <1>1, Zenon DEF Others
<1>4. boot \in Nat /\ boot' \in 1 .. NInodes + 1
  <2>1. boot \in 1 .. NInodes + 1 /\ ~(boot > NInodes)
    BY <1>1, <1>2, Zenon DEF Shape, Up
  <2> QED
    BY ONLY <1>1, <2>1, InodeAssumption DEF InodeAssumption
<1>5. Typed'
  <2>1. Shape'
    BY <1>1, <1>2, <1>4, Zenon DEF Shape
  <2> QED
    BY <2>1, ShapeNext, Zenon
<1>6. /\ IpRef' = IpRef /\ PutRef' = PutRef /\ LockOf' = LockOf /\ Owner' = Owner /\ Lone' = Lone
      /\ Private' = Private /\ OwesTo' = OwesTo /\ Bad(p)' = Bad(p) /\ InDir(p)' = InDir(p)
  <2>1. \A q \in Procs : Bad(q)' = Bad(q) /\ Owes(q)' = Owes(q) /\ InDir(q)' = InDir(q)
    BY <1>1, Zenon DEF Bad, Owes, InDir
  <2>2. /\ IpRef' = IpRef /\ PutRef' = PutRef /\ LockOf' = LockOf /\ Owner' = Owner /\ Lone' = Lone
        /\ Private' = Private
    BY <1>1, <2>1, Zenon DEF IpRef, PutRef, LockOf, Owner, Lone, Private
  <2> QED
    BY <1>1, <2>1, <2>2, Zenon DEF OwesTo
<1>7. LockInv'
  BY <1>1, <1>3, <1>6, LockKept, Zenon
<1>8. LinkInv' /\ BlockInv'
  <2>1. KeepInum
    BY <1>1, Zenon DEF KeepInum
  <2>2. {pc[p], pc'[p]} \cap {"iupdate", "wrote"} = {}
    <3>1. pc[p] = "idle" /\ pc'[p] = "idle"
      BY <1>1, Zenon
    <3> QED
      BY <3>1
  <2> QED
    BY <1>1, <1>3, <1>5, <1>6, <2>1, <2>2, SameDisk, Zenon
<1>9. TableInv'
  BY <1>1, <1>2, Zenon DEF TableInv
<1>10. Balanced(p)
  BY <1>1, <1>6, SameBalance, Zenon
<1>11. OrphanInv'
  <2> SUFFICES ASSUME NEW j \in Inums, Orphan(j)', j < boot'
               PROVE  \/ \E t \in Slots : ref'[t] > 0 /\ inum'[t] = j
                      \/ \E q \in Procs : Private'[q] = j
    BY Zenon DEF OrphanInv
  <2>1. Orphan(j) /\ j # boot
    BY <1>1, Zenon DEF Orphan
  <2>2. j \in Int
    BY DEF Inums
  <2>3. j < boot
    BY ONLY <1>1, <1>4, <2>1, <2>2, j < boot'
  <2> QED
    BY <1>1, <1>2, <1>6, <2>1, <2>3, Zenon DEF OrphanInv
<1>12. ProcOK(p)'
  <2>1. LoneOK(p)' /\ PrivateOK(p)'
    BY <1>1, <1>2, <1>6, Zenon DEF ProcOK, LoneOK, PrivateOK
  <2>2. ValidOK(p)' /\ DirOK(p)' /\ ArgOK(p)'
    BY <1>1, <1>2, <1>6, Zenon DEF ProcOK, ValidOK, DirOK, ArgOK
  <2> QED
    BY <2>1, <2>2, Zenon DEF ProcOK
<1>13. Tame(p)
  BY <1>1, <1>6, Parts, Zenon DEF Tame, KeepInum, DirSafe, ProcOK, PrivateOK
<1>14. pc'[p] # "panic"
  BY <1>1, Parts, Zenon DEF NoPanic
<1> QED
  BY <1>1, <1>3, <1>5, <1>7, <1>8, <1>9, <1>10, <1>11, <1>12, <1>13, <1>14, TameStep, Zenon

-----------------------------------------------------------------------------
(* Steps that change the blocks of an inode                                *)

(* BlockInv, in the terms of a ledger: the inodes L with their blocks A,   *)
(* the bitmap M, and the calls W that add a block G to the inode F.        *)
Books(L, A, M, W, F, G) ==
  /\ \A i, j \in L : A[i] = A[j] /\ A[i] # None => i = j
  /\ \A i \in L : A[i] \in M \cup {None}
  /\ \A q \in W : F[q] \in L
  /\ \A q \in W : \/ A[F[q]] = G[q]
                  \/ A[F[q]] = None /\ G[q] \in M /\ \A i \in L : A[i] # G[q]
  /\ \A q, r \in W : G[q] # None /\ G[q] = G[r] => q = r
  /\ \A b \in M : (\E i \in L : A[i] = b) \/ (\E q \in W : G[q] = b)

LiveSet == {i \in Inums : Live(i)}
Addr == [i \in Inums |-> cur.ino[i].addr]
Writers == {q \in Procs : pc[q] = "wrote"}
Target == [q \in Procs |-> inum[ip[q]]]
Ledger == Books(LiveSet, Addr, cur.bitmap, Writers, Target, num)

(* A call that is writing has the inode of its file locked.                *)
LEMMA Writer ==
  ASSUME Counting, NInv, NEW q \in Procs, pc[q] \in WriteLabels
  PROVE  ip[q] \in Slots /\ LockOf[q] = ip[q] /\ Holds(q, ip[q]) /\ Emptied[q] = None
         /\ inum[ip[q]] \in cur.type /\ inum[ip[q]] \in Inums
<1>1. ProcOK(q) /\ Rows(q)
  BY Parts, RowsNow, Zenon
<1>2. ip[q] \in Slots /\ LockOf[q] = ip[q]
  BY <1>1, Zenon DEF ProcOK, ArgOK, Rows, HasRow, Has
<1>3. Emptied[q] = None
  <2>1. pc[q] # "iupdate"
    BY DEF WriteLabels
  <2> QED
    BY <2>1, Zenon DEF Emptied
<1> QED
  BY <1>2, <1>3, Locked, Zenon

(* The inode that p has locked, or is the last to use, is not the one      *)
(* that another call uses with its lock or frees.                          *)
LEMMA OwnInode ==
  ASSUME Counting, NInv, NEW p \in Procs, NEW s \in Slots, Holds(p, s),
         LockOf[p] = s \/ ref[s] = 1, NEW q \in Procs \ {p}
  PROVE  /\ pc[q] \in WriteLabels => inum[ip[q]] # inum[s]
         /\ Emptied[q] # None => inum[Emptied[q]] # inum[s]
<1>1. ref[s] > 0 /\ q \in Procs
  BY HeldHasRef, Parts, Zenon
<1>2. ASSUME NEW t \in Slots, Holds(q, t), inum[t] = inum[s], LockOf[q] = t PROVE FALSE
  <2>1. ref[t] > 0
    BY <1>1, <1>2, HeldHasRef, Parts, Zenon
  <2>2. t = s
    BY <1>1, <1>2, <2>1, Parts, Zenon DEF TableInv
  <2>3. CASE LockOf[p] = s
    BY <1>1, <1>2, <2>2, <2>3, Parts, Zenon DEF LockInv
  <2>4. CASE ref[s] = 1
    <3>1. Holds(q, s)
      BY <1>2, <2>2, Zenon
    <3> QED
      BY <1>1, <2>4, <3>1, HeldOnce, Parts, Zenon
  <2> QED
    BY <2>3, <2>4, Zenon
<1>3. ASSUME pc[q] \in WriteLabels PROVE inum[ip[q]] # inum[s]
  BY <1>1, <1>2, <1>3, Writer, Zenon
<1>4. ASSUME Emptied[q] # None PROVE inum[Emptied[q]] # inum[s]
  <2>1. pc[q] = "iupdate" /\ Emptied[q] = put[q]
    BY <1>1, <1>4, Zenon DEF Emptied
  <2>2. pc[q] \in TruncLabels /\ pc[q] \in PutLabels
    BY <2>1 DEF TruncLabels, PutLabels
  <2>3. LockOf[q] = put[q]
    BY <1>1, <2>2, RowsNow, Parts, Zenon DEF Rows, HasRow, Has
  <2>4. put[q] \in Slots /\ Holds(q, put[q])
    BY <1>1, <2>2, AtPut, Zenon
  <2> QED
    BY <1>2, <2>1, <2>3, <2>4, Zenon
<1> QED
  BY <1>3, <1>4, Zenon

(* The inodes that are live, and those of the calls that are writing.      *)
LEMMA OwnLive ==
  ASSUME Counting, NInv, NEW p \in Procs, NEW s \in Slots, Holds(p, s),
         LockOf[p] = s \/ ref[s] = 1, Emptied[p] = None
  PROVE  inum[s] \in LiveSet
<1>1. inum[s] \in cur.type /\ inum[s] \in Inums
  <2>1. ref[s] > 0
    BY HeldHasRef, Parts, Zenon
  <2> QED
    BY <2>1, Parts, Types, Zenon DEF TableInv
<1>2. ASSUME NEW q \in Procs, Emptied[q] # None
      PROVE  inum[Emptied[q]] # inum[s]
  <2>1. q \in Procs \ {p}
    BY <1>2, Zenon
  <2> QED
    BY <1>2, <2>1, OwnInode, Zenon
<1> QED
  BY <1>1, <1>2, Zenon DEF LiveSet, Live

(* The ledger says what BlockInv does.                                     *)
LEMMA LedgerNow ==
  ASSUME Counting, NInv
  PROVE  Ledger
<1>1. \A i \in Inums : Addr[i] = cur.ino[i].addr /\ (i \in LiveSet <=> Live(i))
  BY Zenon DEF Addr, LiveSet
<1>2. LiveSet \subseteq Inums /\ None \notin cur.bitmap
  BY Types, Parts, NoneIsNone, Zenon DEF LiveSet
<1>3. \A q \in Procs : Target[q] = inum[ip[q]] /\ (q \in Writers <=> pc[q] = "wrote")
  BY Zenon DEF Target, Writers
<1>4. \A q \in Procs : Adding[q] = IF q \in Writers THEN num[q] ELSE None
  BY <1>3, Zenon DEF Adding
<1>5. Writers \subseteq Procs /\ BlockInv
  BY Parts, Zenon DEF Writers
<1>6. \A q \in Writers : Target[q] \in LiveSet
  <2> SUFFICES ASSUME NEW q \in Procs, pc[q] = "wrote" PROVE inum[ip[q]] \in LiveSet
    BY <1>3, <1>5, Zenon
  <2>1. pc[q] \in WriteLabels
    BY DEF WriteLabels
  <2> QED
    BY <2>1, Writer, OwnLive, Zenon
<1>7. \A i, j \in LiveSet : Addr[i] = Addr[j] /\ Addr[i] # None => i = j
  <2> SUFFICES ASSUME NEW i \in LiveSet, NEW j \in LiveSet, Addr[i] = Addr[j], Addr[i] # None
               PROVE  i = j
    BY Zenon
  <2>1. /\ i \in Inums /\ j \in Inums /\ Live(i) /\ Live(j)
        /\ cur.ino[i].addr = cur.ino[j].addr /\ cur.ino[i].addr # None
    BY <1>1, <1>2, Zenon
  <2> QED
    BY <1>5, <2>1, Zenon DEF BlockInv
<1>8. \A i \in LiveSet : Addr[i] \in cur.bitmap \cup {None}
  BY <1>1, <1>2, <1>5, Zenon DEF BlockInv
<1>9. ASSUME NEW q \in Writers
      PROVE  \/ Addr[Target[q]] = num[q]
             \/ /\ Addr[Target[q]] = None /\ num[q] \in cur.bitmap
                /\ \A i \in LiveSet : Addr[i] # num[q]
  <2>1. Addr[Target[q]] = cur.ino[inum[ip[q]]].addr /\ pc[q] = "wrote" /\ q \in Procs
    BY <1>1, <1>2, <1>3, <1>5, <1>6, Zenon
  <2>2. \/ cur.ino[inum[ip[q]]].addr = num[q]
        \/ /\ cur.ino[inum[ip[q]]].addr = None /\ num[q] \in cur.bitmap
           /\ \A i \in Inums : Live(i) => cur.ino[i].addr # num[q]
    BY <1>5, <2>1, Zenon DEF BlockInv
  <2> QED
    BY <1>1, <1>2, <2>1, <2>2, Zenon
<1>10. \A q, r \in Writers : num[q] # None /\ num[q] = num[r] => q = r
  <2> SUFFICES ASSUME NEW q \in Writers, NEW r \in Writers, num[q] # None, num[q] = num[r]
               PROVE  q = r
    BY Zenon
  <2>1. q \in Procs /\ r \in Procs /\ Adding[q] # None /\ Adding[q] = Adding[r]
    BY <1>4, <1>5, Zenon
  <2> QED
    BY <1>5, <2>1, Zenon DEF BlockInv
<1>11. \A b \in cur.bitmap : (\E i \in LiveSet : Addr[i] = b) \/ (\E q \in Writers : num[q] = b)
  BY <1>1, <1>2, <1>4, <1>5, Zenon DEF BlockInv
<1> QED
  BY <1>6, <1>7, <1>8, <1>9, <1>10, <1>11, Zenon DEF Ledger, Books

LEMMA LedgerBlocks == Ledger => BlockInv
<1> SUFFICES ASSUME Ledger PROVE BlockInv
  OBVIOUS
<1>1. \A i \in Inums : Addr[i] = cur.ino[i].addr /\ (i \in LiveSet <=> Live(i))
  BY Zenon DEF Addr, LiveSet
<1>2. LiveSet \subseteq Inums /\ Writers \subseteq Procs
  BY Zenon DEF LiveSet, Writers
<1>3. \A q \in Procs : Target[q] = inum[ip[q]] /\ (q \in Writers <=> pc[q] = "wrote")
  BY Zenon DEF Target, Writers
<1>4. \A q \in Procs : Adding[q] = IF q \in Writers THEN num[q] ELSE None
  BY <1>3, Zenon DEF Adding
<1>5. Books(LiveSet, Addr, cur.bitmap, Writers, Target, num)
  BY Zenon DEF Ledger
<1>6. \A i, j \in Inums :
        (Live(i) /\ Live(j) /\ cur.ino[i].addr = cur.ino[j].addr /\ cur.ino[i].addr # None) => i = j
  <2> SUFFICES ASSUME NEW i \in Inums, NEW j \in Inums, Live(i), Live(j),
                      cur.ino[i].addr = cur.ino[j].addr, cur.ino[i].addr # None
               PROVE  i = j
    BY Zenon
  <2>1. i \in LiveSet /\ j \in LiveSet /\ Addr[i] = Addr[j] /\ Addr[i] # None
    BY <1>1, Zenon
  <2> QED
    BY <1>5, <2>1, Zenon DEF Books
<1>7. \A i \in Inums : Live(i) => cur.ino[i].addr \in cur.bitmap \cup {None}
  BY <1>1, <1>5, Zenon DEF Books
<1>8. ASSUME NEW q \in Procs, pc[q] = "wrote"
      PROVE  \/ cur.ino[inum[ip[q]]].addr = num[q]
             \/ /\ cur.ino[inum[ip[q]]].addr = None /\ num[q] \in cur.bitmap
                /\ \A i \in Inums : Live(i) => cur.ino[i].addr # num[q]
  <2>1. q \in Writers /\ Target[q] = inum[ip[q]] /\ Target[q] \in Inums
    BY <1>2, <1>3, <1>5, <1>8, Zenon DEF Books
  <2>2. Addr[Target[q]] = cur.ino[inum[ip[q]]].addr
    BY <1>1, <2>1, Zenon
  <2>3. \/ Addr[Target[q]] = num[q]
        \/ /\ Addr[Target[q]] = None /\ num[q] \in cur.bitmap
           /\ \A i \in LiveSet : Addr[i] # num[q]
    BY <1>5, <2>1, Zenon DEF Books
  <2> QED
    BY <1>1, <2>2, <2>3, Zenon
<1>9. \A q, r \in Procs : (Adding[q] # None /\ Adding[q] = Adding[r]) => q = r
  BY <1>4, <1>5, Zenon DEF Books
<1>10. \A b \in cur.bitmap :
        \/ \E i \in Inums : Live(i) /\ cur.ino[i].addr = b
        \/ \E q \in Procs : Adding[q] = b
  <2> SUFFICES ASSUME NEW b \in cur.bitmap
               PROVE  \/ \E i \in Inums : Live(i) /\ cur.ino[i].addr = b
                      \/ \E q \in Procs : Adding[q] = b
    BY Zenon
  <2>1. (\E i \in LiveSet : Addr[i] = b) \/ (\E q \in Writers : num[q] = b)
    BY <1>5, Zenon DEF Books
  <2>2. \A i \in LiveSet : Addr[i] = b => Live(i) /\ cur.ino[i].addr = b /\ i \in Inums
    BY <1>1, <1>2, Zenon
  <2>3. \A q \in Writers : num[q] = b => Adding[q] = b /\ q \in Procs
    BY <1>2, <1>4, Zenon
  <2> QED
    BY <2>1, <2>2, <2>3, Zenon
<1> QED
  BY <1>6, <1>7, <1>8, <1>9, <1>10, Zenon DEF BlockInv

LEMMA LedgerNext ==
  ASSUME Ledger'
  PROVE  BlockInv'
  BY LedgerBlocks, PTL

(* itrunc(): bfree() clears the bit of the block of inode i.               *)
LEMMA BooksFreed ==
  ASSUME NEW L, NEW A, NEW M, NEW W, NEW F, NEW G, Books(L, A, M, W, F, G), NEW i \in L,
         \A q \in W : F[q] # i
  PROVE  Books(L \ {i}, A, M \ {A[i]}, W, F, G)
<1>1. \A j, k \in L \ {i} : A[j] = A[k] /\ A[j] # None => j = k
  BY Zenon DEF Books
<1>2. \A j \in L \ {i} : A[j] \in (M \ {A[i]}) \cup {None}
  BY DEF Books
<1>3. \A q \in W : \/ A[F[q]] = G[q]
                   \/ /\ A[F[q]] = None /\ G[q] \in M \ {A[i]}
                      /\ \A j \in L \ {i} : A[j] # G[q]
  BY DEF Books
<1>4. /\ \A q \in W : F[q] \in L \ {i}
      /\ \A q, r \in W : G[q] # None /\ G[q] = G[r] => q = r
  BY DEF Books
<1>5. \A b \in M \ {A[i]} : (\E j \in L \ {i} : A[j] = b) \/ (\E q \in W : G[q] = b)
  BY DEF Books
<1> QED
  BY <1>1, <1>2, <1>3, <1>4, <1>5, Zenon DEF Books

(* ... and iupdate() writes the dinode without it.                         *)
LEMMA BooksCleared ==
  ASSUME NEW L, NEW A, NEW M, NEW W, NEW F, NEW G, Books(L, A, M, W, F, G), None \notin M,
         NEW i, i \notin L, NEW B, B[i] = None, \A j \in L : B[j] = A[j]
  PROVE  Books(L \cup {i}, B, M, W, F, G)
<1>1. \A j, k \in L \cup {i} : B[j] = B[k] /\ B[j] # None => j = k
  BY DEF Books
<1>2. \A j \in L \cup {i} : B[j] \in M \cup {None}
  BY DEF Books
<1>3. \A q \in W : F[q] \in L /\ B[F[q]] = A[F[q]]
  BY DEF Books
<1>4. \A q \in W : \/ B[F[q]] = G[q]
                   \/ /\ B[F[q]] = None /\ G[q] \in M
                      /\ \A j \in L \cup {i} : B[j] # G[q]
  BY <1>3 DEF Books
<1>5. \A q, r \in W : G[q] # None /\ G[q] = G[r] => q = r
  BY Zenon DEF Books
<1>6. \A b \in M : (\E j \in L \cup {i} : B[j] = b) \/ (\E q \in W : G[q] = b)
  BY DEF Books
<1> QED
  BY <1>1, <1>2, <1>3, <1>4, <1>5, <1>6, Zenon DEF Books

(* bmap(): the file has a block, or there is none on disk; or balloc()     *)
(* sets the bit of one that is free.                                       *)
LEMMA BooksTaken ==
  ASSUME NEW L, NEW A, NEW M, NEW W, NEW F, NEW G, Books(L, A, M, W, F, G), None \notin M,
         NEW p, p \notin W, F[p] \in L, \A q \in W : F[q] # F[p],
         NEW N, NEW H, \A q \in W : H[q] = G[q],
         \/ H[p] = A[F[p]] /\ N = M
         \/ A[F[p]] = None /\ H[p] \notin M /\ H[p] # None /\ N = M \cup {H[p]}
  PROVE  Books(L, A, N, W \cup {p}, F, H)
<1>1. \A j, k \in L : A[j] = A[k] /\ A[j] # None => j = k
  BY Zenon DEF Books
<1>2. \A j \in L : A[j] \in N \cup {None}
  BY DEF Books
<1>3. \A q \in W \cup {p} : F[q] \in L
  BY DEF Books
<1>4. \A q \in W : \/ A[F[q]] = H[q]
                   \/ /\ A[F[q]] = None /\ H[q] \in N
                      /\ \A j \in L : A[j] # H[q]
  BY DEF Books
<1>5. \/ A[F[p]] = H[p]
      \/ /\ A[F[p]] = None /\ H[p] \in N
         /\ \A j \in L : A[j] # H[p]
  BY DEF Books
<1>6. ASSUME NEW q \in W, H[q] # None PROVE H[q] # H[p]
  BY <1>6 DEF Books
<1>7. \A q, r \in W : H[q] # None /\ H[q] = H[r] => q = r
  BY DEF Books
<1>8. \A q, r \in W \cup {p} : H[q] # None /\ H[q] = H[r] => q = r
  BY <1>6, <1>7, Zenon
<1>9. \A b \in N : (\E j \in L : A[j] = b) \/ (\E q \in W \cup {p} : H[q] = b)
  BY DEF Books
<1> QED
  BY <1>1, <1>2, <1>3, <1>4, <1>5, <1>8, <1>9, Zenon DEF Books

(* writei(): iupdate() writes the dinode with the block.                   *)
LEMMA BooksWritten ==
  ASSUME NEW L, NEW A, NEW M, NEW W, NEW F, NEW G, Books(L, A, M, W, F, G), None \notin M,
         NEW p \in W, \A q \in W \ {p} : F[q] # F[p],
         NEW B, B[F[p]] = G[p], \A j \in L \ {F[p]} : B[j] = A[j]
  PROVE  Books(L, B, M, W \ {p}, F, G)
<1>1. \A j, k \in L : B[j] = B[k] /\ B[j] # None => j = k
  BY DEF Books
<1>2. \A j \in L : B[j] \in M \cup {None}
  BY DEF Books
<1>3. \A q \in W \ {p} : F[q] \in L /\ B[F[q]] = A[F[q]] /\ G[q] \in M => G[q] # G[p]
  BY DEF Books
<1>4. \A q \in W \ {p} : \/ B[F[q]] = G[q]
                         \/ /\ B[F[q]] = None /\ G[q] \in M
                            /\ \A j \in L : B[j] # G[q]
  BY <1>3 DEF Books
<1>5. \A q \in W \ {p} : F[q] \in L
  BY Zenon DEF Books
<1>6. \A q, r \in W \ {p} : G[q] # None /\ G[q] = G[r] => q = r
  BY Zenon DEF Books
<1>7. \A b \in M : (\E j \in L : B[j] = b) \/ (\E q \in W \ {p} : G[q] = b)
  <2> SUFFICES ASSUME NEW b \in M
               PROVE  (\E j \in L : B[j] = b) \/ (\E q \in W \ {p} : G[q] = b)
    BY Zenon
  <2>1. F[p] \in L
    BY Zenon DEF Books
  <2>2. CASE \E j \in L : A[j] = b
    <3>1. PICK j \in L : A[j] = b
      BY <2>2, Zenon
    <3>2. j = F[p] => A[F[p]] = G[p]
      BY <3>1 DEF Books
    <3> QED
      BY <2>1, <3>1, <3>2, Zenon
  <2>3. CASE \E q \in W : G[q] = b
    BY <2>1, <2>3, Zenon
  <2> QED
    BY <2>2, <2>3, Zenon DEF Books
<1> QED
  BY <1>1, <1>2, <1>4, <1>5, <1>6, <1>7, Zenon DEF Books

(* What a step of p does to the live inodes.                               *)
LEMMA LiveNext ==
  ASSUME NEW p \in Procs, Others(p), inum' = inum, cur'.type = cur.type
  PROVE  /\ Emptied'[p] = Emptied[p] => LiveSet' = LiveSet
         /\ \A s \in Slots :
              Emptied[p] = None /\ Emptied'[p] = s => LiveSet' = LiveSet \ {inum[s]}
         /\ \A s \in Slots :
              /\ Emptied[p] = s /\ Emptied'[p] = None /\ inum[s] \in cur.type /\ inum[s] \in Inums
              /\ \A q \in Procs \ {p} : Emptied[q] # None => inum[Emptied[q]] # inum[s]
              => LiveSet' = LiveSet \cup {inum[s]}
<1>1. \A q \in Procs \ {p} : Emptied'[q] = Emptied[q]
  BY Frame, Zenon DEF SameParts
<1>2. \A i \in Inums : i \in LiveSet <=>
        i \in cur.type /\ \A q \in Procs : Emptied[q] # None => inum[Emptied[q]] # i
  BY Zenon DEF LiveSet, Live
<1>3. \A i \in Inums : i \in LiveSet' <=>
        i \in cur.type /\ \A q \in Procs : Emptied'[q] # None => inum[Emptied'[q]] # i
  BY Zenon DEF LiveSet, Live
<1>4. LiveSet \subseteq Inums /\ LiveSet' \subseteq Inums
  BY Zenon DEF LiveSet
<1>5. ASSUME Emptied'[p] = Emptied[p] PROVE LiveSet' = LiveSet
  BY <1>1, <1>2, <1>3, <1>4, <1>5
<1>6. ASSUME NEW s \in Slots, Emptied[p] = None, Emptied'[p] = s
      PROVE  LiveSet' = LiveSet \ {inum[s]}
  BY <1>1, <1>2, <1>3, <1>4, <1>6, NoneIsNone
<1>7. ASSUME NEW s \in Slots, Emptied[p] = s, Emptied'[p] = None, inum[s] \in cur.type,
             inum[s] \in Inums,
             \A q \in Procs \ {p} : Emptied[q] # None => inum[Emptied[q]] # inum[s]
      PROVE  LiveSet' = LiveSet \cup {inum[s]}
  BY <1>1, <1>2, <1>3, <1>4, <1>7, NoneIsNone
<1> QED
  BY <1>5, <1>6, <1>7, Zenon

(* No link count changes, and p owes what it did.                          *)
LEMMA SameLinks ==
  ASSUME Counting, NInv, Typed', NEW p \in Procs, Others(p), inum' = inum,
         cur'.type = cur.type, cur'.dir = cur.dir, Owner'[p] = Owner[p],
         \A i \in cur.type : cur'.ino[i].nlink = cur.ino[i].nlink
  PROVE  LinkInv'
<1>1. KeepInum
  BY Zenon DEF KeepInum
<1>2. Even(p)
  BY Zenon DEF Even, OwesTo
<1> QED
  BY <1>1, <1>2, LinkSame, Zenon

(* balloc() and bfree() change the bitmap.                                 *)
LEMMA Marked ==
  ASSUME NEW D \in Disk, NEW N \in SUBSET Blocks, NEW E, E = [D EXCEPT !.bitmap = N]
  PROVE  E \in Disk /\ E.type = D.type /\ E.ino = D.ino /\ E.bitmap = N /\ E.dir = D.dir
<1>1. E \in Disk
  BY Zenon DEF Disk
<1> QED
  BY <1>1 DEF Disk

(* itrunc() frees the block of an inode that nobody else has, so that no   *)
(* block is freed twice.                                                   *)
LEMMA ItruncStep ==
  ASSUME Counting, NInv, NEW p \in Procs, Itrunc(p)
  PROVE  NInv'
<1>0. PICK s, i, b, N : s = put[p] /\ i = inum[s] /\ b = mem[s].addr /\ N = cur.bitmap \ {b}
  BY Zenon
<1>1. /\ cur' = [cur EXCEPT !.bitmap = N] /\ dur' = dur /\ inum' = inum /\ valid' = valid
      /\ lock' = lock /\ mem' = mem /\ ref' = ref /\ group' = group /\ boot' = boot
      /\ file' = file /\ dlock' = dlock /\ pc[p] = "itrunc"
      /\ ret' = ret /\ arg' = arg /\ ip' = ip /\ put' = put /\ num' = num
      /\ Go(p, IF b # None /\ b \notin cur.bitmap THEN "panic" ELSE "iupdate")
  BY <1>0, Zenon DEF Itrunc, logged, table, local
<1>2. Typed /\ ProcOK(p) /\ Rows(p) /\ Shape
  BY Parts, RowsNow, ShapeTyped, Zenon
<1>3. pc[p] \in PutLabels /\ pc[p] \in TruncLabels /\ pc[p] \in Putting
      /\ pc[p] \in {"itrunc", "unref"} /\ pc[p] # "wrote"
  BY <1>1 DEF PutLabels, Putting, TruncLabels
<1>4. s \in Slots /\ s # None /\ i \in cur.type /\ i \in Inums /\ Holds(p, s)
  BY <1>0, <1>3, AtPut, Zenon
<1>5. Has(p, BadIp(p), s, s, BadIp(p)) /\ Alone(p, s, None, None, None)
  BY <1>0, <1>2, <1>3, Zenon DEF Rows, HasRow, AloneRow
<1>6. mem[s] = cur.ino[i] /\ valid[s] /\ LockOf[p] = s /\ Emptied[p] = None /\ Lone[p] = s
      /\ Private[p] = None
  BY <1>0, <1>4, <1>5, Locked, Zenon DEF Has, Alone
<1>7. i \in LiveSet /\ \A q \in Writers : Target[q] # i
  <2>1. i \in LiveSet
    BY <1>0, <1>4, <1>6, OwnLive, Zenon
  <2>2. ASSUME NEW q \in Writers PROVE Target[q] # i
    <3>1. q \in Procs /\ pc[q] = "wrote" /\ Target[q] = inum[ip[q]]
      BY Zenon DEF Writers, Target
    <3>2. q \in Procs \ {p} /\ pc[q] \in WriteLabels
      BY <1>1, <3>1 DEF WriteLabels
    <3>3. inum[ip[q]] # inum[s]
      BY <1>4, <1>6, <3>2, OwnInode, Zenon
    <3> QED
      BY <1>0, <3>1, <3>3, Zenon
  <2> QED
    BY <2>1, <2>2, Zenon
<1>8. Addr[i] = b /\ b \in cur.bitmap \cup {None}
  <2>1. Addr[i] = b
    BY <1>0, <1>4, <1>6, Zenon DEF Addr
  <2> QED
    BY <1>7, <2>1, LedgerNow, Zenon DEF Ledger, Books
<1>9. Others(p) /\ pc'[p] = "iupdate" /\ pc' \in [Procs -> Labels]
  <2>1. Go(p, "iupdate") /\ "iupdate" \in Labels
    BY <1>1, <1>8, Zenon DEF Labels
  <2> QED
    BY <1>1, <1>2, <2>1, GoLocals, Zenon
<1>10. /\ cur' \in Disk /\ cur'.type = cur.type /\ cur'.ino = cur.ino /\ cur'.bitmap = N
       /\ cur'.dir = cur.dir
  <2>1. cur \in Disk /\ N \in SUBSET Blocks
    <3>1. cur.bitmap \subseteq Blocks
      BY <1>2, Types, Zenon
    <3> QED
      BY <1>0, <1>2, <3>1, Zenon DEF Shape
  <2>2. cur' = [cur EXCEPT !.bitmap = N]
    BY <1>1, Zenon
  <2> QED
    BY ONLY <2>1, <2>2, Marked
<1>11. Typed'
  <2>1. Shape'
    BY <1>1, <1>2, <1>9, <1>10, Zenon DEF Shape
  <2> QED
    BY <2>1, ShapeNext, Zenon
<1>12. Rows(p)'
  BY <1>11, RowsNext, Zenon
<1>13. /\ pc'[p] \in TruncLabels /\ pc'[p] \in Putting /\ pc'[p] \in PutLabels
       /\ pc'[p] \notin {"panic", "iput", "unref", "wrote"}
       /\ pc'[p] \notin NewLabels \cup {"ialloc"} /\ pc'[p] \notin UnlinkLabels
       /\ pc'[p] \notin IpLabels /\ pc'[p] \notin WriteLabels \cup {"write"}
       /\ pc'[p] \notin NameLabels /\ pc'[p] \notin TwoLabels /\ pc'[p] \notin NumLabels
  BY <1>9 DEF Putting, PutLabels, NewLabels, NumLabels, UnlinkLabels, IpLabels, WriteLabels,
     NameLabels, TwoLabels, TruncLabels
<1>14. (Bad(p)' <=> Bad(p)) /\ (InDir(p)' <=> InDir(p)) /\ BadIp(p)' = BadIp(p)
  <2>1. (Bad(p)' <=> Bad(p)) /\ (InDir(p)' <=> InDir(p))
    BY <1>1, <1>2, <1>3, <1>12, <1>13, Zenon DEF Rows, DirRow
  <2> QED
    BY <1>1, <2>1, Zenon DEF BadIp
<1>15. /\ IpRef'[p] = IpRef[p] /\ PutRef'[p] = PutRef[p] /\ LockOf'[p] = s /\ Owner'[p] = Owner[p]
       /\ Alone(p, s, s, None, None)'
  BY <1>0, <1>1, <1>5, <1>9, <1>12, <1>13, <1>14, Zenon DEF Rows, HasRow, Has, AloneRow, Alone
<1>16. Balanced(p)
  BY <1>1, <1>15, SameBalance, Zenon
<1>17. PICK T : T = {}
  BY Zenon
<1>18. Touch(p, T)
  BY <1>1, <1>10, <1>15, <1>17, Zenon DEF Touch, DirSafe, Alone
<1>19. LockInv'
  BY <1>1, <1>6, <1>9, <1>15, LockKept, Zenon
<1>20. LinkInv'
  BY <1>1, <1>9, <1>10, <1>11, <1>15, SameLinks, Zenon
<1>21. BlockInv'
  <2>1. LiveSet' = LiveSet \ {i}
    BY <1>0, <1>1, <1>4, <1>6, <1>9, <1>10, <1>15, LiveNext, Zenon DEF Alone
  <2>2. Addr' = Addr /\ Target' = Target /\ Writers' = Writers
    <3>1. \A q \in Procs : pc'[q] = "wrote" <=> pc[q] = "wrote"
      BY <1>3, <1>9, <1>13, Zenon DEF Others
    <3>2. Target' = Target
      BY <1>1, Zenon DEF Target
    <3>3. Addr' = Addr
      BY <1>10 DEF Addr
    <3> QED
      BY <3>1, <3>2, <3>3 DEF Writers
  <2>3. Books(LiveSet \ {i}, Addr, cur.bitmap \ {Addr[i]}, Writers, Target, num)
    BY <1>7, LedgerNow, BooksFreed, Zenon DEF Ledger
  <2>4. Ledger'
    BY <1>0, <1>1, <1>8, <1>10, <2>1, <2>2, <2>3, Zenon DEF Ledger
  <2> QED
    BY <2>4, LedgerNext, Zenon
<1>22. ProcOK(p)'
  <2>1. LoneOK(p)' /\ PrivateOK(p)'
    <3>1. ref[s] = 1 /\ cur.ino[i].nlink = 0
      BY <1>0, <1>2, <1>4, <1>6, Zenon DEF ProcOK, LoneOK
    <3> QED
      BY <1>0, <1>1, <1>10, <1>13, <1>15, <3>1, Zenon DEF LoneOK, PrivateOK, Alone
  <2>2. ValidOK(p)'
    <3>1. \A t \in Slots : t \in {Owner[p], file[p]} => valid[t]
      BY <1>2, Zenon DEF ProcOK, ValidOK
    <3>2. \A t \in Slots : t \in {LockOf'[p], Owner'[p], file'[p]} => valid'[t]
      BY <1>1, <1>6, <1>15, <3>1, Zenon
    <3> QED
      BY <1>13, <3>2, Zenon DEF ValidOK
  <2>3. DirOK(p)'
    BY <1>1, <1>2, <1>13, <1>14, Zenon DEF ProcOK, DirOK
  <2>4. ArgOK(p)'
    BY <1>0, <1>1, <1>2, <1>4, <1>13, <1>14, Zenon DEF ProcOK, ArgOK
  <2> QED
    BY <2>1, <2>2, <2>3, <2>4, Zenon DEF ProcOK
<1>23. /\ \A t \in T : ref'[t] > 0 /\ valid'[t] => mem'[t] = cur'.ino[inum[t]]
       /\ \A t \in T : ref'[t] > 0 \/ ~Orphan(inum[t])' \/ Private'[p] = inum[t]
  BY <1>17, Zenon
<1>24. pc'[p] # "panic" /\ Private[p] \in {None, Private'[p]}
  BY <1>6, <1>13, Zenon
<1> QED
  BY <1>1, <1>9, <1>11, <1>16, <1>18, <1>19, <1>20, <1>21, <1>22, <1>23, <1>24, TouchStep, Zenon

(* What iupdate() does to the addresses.                                   *)
LEMMA AddrNext ==
  ASSUME NEW i \in Inums, \A j \in Inums \ {i} : cur'.ino[j] = cur.ino[j]
  PROVE  Addr'[i] = cur'.ino[i].addr /\ \A j \in Inums \ {i} : Addr'[j] = Addr[j]
<1>1. \A j \in Inums : Addr[j] = cur.ino[j].addr /\ Addr'[j] = cur'.ino[j].addr
  BY Zenon DEF Addr
<1> QED
  BY <1>1, Zenon

(* What the iupdate() of itrunc() and writei() writes: the links stay.     *)
LEMMA Rewritten ==
  ASSUME NInv, NEW i \in cur.type, NEW d \in Dinode, d.nlink = cur.ino[i].nlink,
         cur' = Iupdate(i, d)
  PROVE  /\ cur' \in Disk /\ cur'.type = cur.type /\ cur'.bitmap = cur.bitmap /\ cur'.dir = cur.dir
         /\ cur'.ino[i] = d /\ \A j \in Inums \ {i} : cur'.ino[j] = cur.ino[j]
         /\ \A j \in cur.type : cur'.ino[j].nlink = cur.ino[j].nlink
<1>1. Shape /\ i \in Inums /\ cur.type \subseteq Inums
  BY Parts, ShapeTyped, Types, Zenon
<1>2. cur \in Disk
  BY <1>1, Zenon DEF Shape
<1>3. /\ cur' \in Disk /\ cur'.type = cur.type \cup {i} /\ cur'.bitmap = cur.bitmap
      /\ cur'.dir = cur.dir /\ cur'.ino = [cur.ino EXCEPT ![i] = d]
  BY <1>1, <1>2, Updated, Zenon
<1>4. cur'.type = cur.type
  BY <1>3
<1>5. cur.ino \in [Inums -> Dinode]
  BY <1>2 DEF Disk
<1>6. cur'.ino[i] = d /\ \A j \in Inums \ {i} : cur'.ino[j] = cur.ino[j]
  BY <1>1, <1>3, <1>5, Zenon
<1>7. \A j \in cur.type : cur'.ino[j].nlink = cur.ino[j].nlink
  BY <1>1, <1>6, Zenon
<1> QED
  BY <1>3, <1>4, <1>6, <1>7, Zenon

(* itrunc() writes the inode without its block; iput() unlocks it.         *)
LEMMA ItruncUpdateStep ==
  ASSUME Counting, NInv, NEW p \in Procs, ItruncUpdate(p)
  PROVE  NInv'
<1>0. PICK s, i, d : s = put[p] /\ i = inum[s] /\ d = Truncated(mem[s])
  BY Zenon
<1>1. /\ cur' = Iupdate(i, d) /\ dur' = dur /\ inum' = inum
      /\ valid' = [valid EXCEPT ![s] = FALSE] /\ lock' = [lock EXCEPT ![s] = NoProc]
      /\ mem' = [mem EXCEPT ![s] = d] /\ ref' = ref /\ group' = group /\ boot' = boot
      /\ file' = file /\ dlock' = dlock /\ pc[p] = "iupdate"
      /\ ret' = ret /\ arg' = arg /\ ip' = ip /\ put' = put /\ num' = num /\ Go(p, "unref")
  BY <1>0, Zenon DEF ItruncUpdate, logged, local
<1>2. Typed /\ ProcOK(p) /\ Rows(p) /\ Shape
  BY Parts, RowsNow, ShapeTyped, Zenon
<1>3. pc[p] \in PutLabels /\ pc[p] \in TruncLabels /\ pc[p] \in Putting /\ pc[p] # "wrote"
  BY <1>1 DEF PutLabels, Putting, TruncLabels
<1>4. s \in Slots /\ s # None /\ i \in cur.type /\ i \in Inums /\ Holds(p, s) /\ ref[s] > 0
  BY <1>0, <1>3, AtPut, Zenon
<1>5. Has(p, BadIp(p), s, s, BadIp(p)) /\ Alone(p, s, s, None, None)
  BY <1>0, <1>1, <1>2, <1>3, Zenon DEF Rows, HasRow, AloneRow
<1>6. mem[s] = cur.ino[i] /\ valid[s] /\ LockOf[p] = s /\ Emptied[p] = s /\ Lone[p] = s
      /\ Private[p] = None
  BY <1>0, <1>4, <1>5, Locked, Zenon DEF Has, Alone
<1>7. ref[s] = 1 /\ cur.ino[i].nlink = 0
  BY <1>0, <1>2, <1>4, <1>6, Zenon DEF ProcOK, LoneOK
<1>8. d \in Dinode /\ d.nlink = cur.ino[i].nlink /\ d.addr = None
  <2>1. mem[s] \in Dinode
    BY <1>2, <1>4, Zenon DEF Shape
  <2> QED
    BY <1>0, <1>6, <2>1 DEF Truncated, Dinode
<1>9. /\ cur' \in Disk /\ cur'.type = cur.type /\ cur'.bitmap = cur.bitmap /\ cur'.dir = cur.dir
      /\ mem' \in [Slots -> Dinode] /\ cur'.ino[i] = d
      /\ \A j \in Inums \ {i} : cur'.ino[j] = cur.ino[j]
      /\ \A t \in Slots \ {s} : mem'[t] = mem[t]
      /\ \A j \in cur.type : cur'.ino[j].nlink = cur.ino[j].nlink
  <2>1. mem' \in [Slots -> Dinode] /\ \A t \in Slots \ {s} : mem'[t] = mem[t]
    BY <1>1, <1>2, <1>4, <1>8, Zenon DEF Shape
  <2>2. cur' = Iupdate(i, d)
    BY <1>1, Zenon
  <2> QED
    BY <1>4, <1>8, <2>1, <2>2, Rewritten, Zenon
<1>10. Others(p) /\ pc'[p] = "unref" /\ pc' \in [Procs -> Labels]
  <2>1. "unref" \in Labels
    BY Zenon DEF Labels
  <2> QED
    BY <1>1, <1>2, <2>1, GoLocals, Zenon
<1>11. /\ valid' \in [Slots -> BOOLEAN] /\ lock' \in [Slots -> Procs \cup {NoProc}]
       /\ valid'[s] = FALSE /\ \A t \in Slots \ {s} : valid'[t] = valid[t]
  BY <1>1, <1>2, <1>4, Zenon DEF Shape
<1>12. Typed'
  <2>1. Shape'
    BY <1>1, <1>2, <1>9, <1>10, <1>11, Zenon DEF Shape
  <2> QED
    BY <2>1, ShapeNext, Zenon
<1>13. Rows(p)'
  BY <1>12, RowsNext, Zenon
<1>14. /\ pc'[p] \in Putting /\ pc'[p] \in PutLabels /\ pc'[p] \in {"iput", "unref"}
       /\ pc'[p] \in {"itrunc", "unref"} /\ pc'[p] \notin {"panic", "iput", "wrote"}
       /\ pc'[p] \notin NewLabels \cup {"ialloc"} /\ pc'[p] \notin UnlinkLabels
       /\ pc'[p] \notin IpLabels /\ pc'[p] \notin WriteLabels \cup {"write"}
       /\ pc'[p] \notin NameLabels /\ pc'[p] \notin TwoLabels /\ pc'[p] \notin NumLabels
  BY <1>10 DEF Putting, PutLabels, NewLabels, NumLabels, UnlinkLabels, IpLabels, WriteLabels,
     NameLabels, TwoLabels
<1>15. (Bad(p)' <=> Bad(p)) /\ (InDir(p)' <=> InDir(p)) /\ BadIp(p)' = BadIp(p)
  <2>1. (Bad(p)' <=> Bad(p)) /\ (InDir(p)' <=> InDir(p))
    BY <1>1, <1>2, <1>3, <1>13, <1>14, Zenon DEF Rows, DirRow
  <2> QED
    BY <1>1, <2>1, Zenon DEF BadIp
<1>16. /\ IpRef'[p] = IpRef[p] /\ PutRef'[p] = PutRef[p] /\ LockOf'[p] = None /\ Owner'[p] = Owner[p]
       /\ Alone(p, s, None, None, None)'
  BY <1>0, <1>1, <1>5, <1>10, <1>13, <1>14, <1>15, Zenon DEF Rows, HasRow, Has, AloneRow, Alone
<1>17. Balanced(p)
  BY <1>1, <1>16, SameBalance, Zenon
<1>18. PICK T : T = {s}
  BY Zenon
<1>19. Touch(p, T)
  <2>1. \A t \in Slots \ T : ref'[t] = ref[t] /\ valid'[t] = valid[t] /\ mem'[t] = mem[t]
    BY <1>1, <1>9, <1>11, <1>18, Zenon
  <2>2. \A j \in Inums : (\A t \in T : inum[t] # j) => cur'.ino[j] = cur.ino[j]
    BY <1>0, <1>9, <1>18, Zenon
  <2> QED
    BY <1>1, <1>4, <1>7, <1>9, <1>16, <1>18, <2>1, <2>2, Zenon DEF Touch, DirSafe, Alone
<1>20. LockInv'
  BY <1>1, <1>4, <1>6, <1>10, <1>16, LockDropped, Zenon
<1>21. LinkInv'
  BY <1>1, <1>9, <1>10, <1>12, <1>16, SameLinks, Zenon
<1>22. BlockInv'
  <2>1. \A q \in Procs \ {p} : Emptied[q] # None => inum[Emptied[q]] # inum[s]
    BY <1>4, <1>6, OwnInode, Zenon
  <2>2. LiveSet' = LiveSet \cup {i}
    <3>1. Emptied'[p] = None
      BY <1>16, Zenon DEF Alone
    <3>2. Others(p) /\ inum' = inum /\ cur'.type = cur.type
      BY <1>1, <1>9, <1>10, Zenon
    <3>3. \A t \in Slots :
            /\ Emptied[p] = t /\ Emptied'[p] = None /\ inum[t] \in cur.type /\ inum[t] \in Inums
            /\ \A q \in Procs \ {p} : Emptied[q] # None => inum[Emptied[q]] # inum[t]
            => LiveSet' = LiveSet \cup {inum[t]}
      BY <3>2, LiveNext, Zenon
    <3>4. i = inum[s] /\ inum[s] \in cur.type /\ inum[s] \in Inums /\ Emptied[p] = s /\ s \in Slots
      BY <1>0, <1>4, <1>6, Zenon
    <3>5. LiveSet' = LiveSet \cup {inum[s]}
      BY <2>1, <3>1, <3>3, <3>4, Zenon
    <3> QED
      BY <3>4, <3>5, Zenon
  <2>3. i \notin LiveSet /\ LiveSet \subseteq Inums
    BY <1>0, <1>4, <1>6, Zenon DEF LiveSet, Live
  <2>4. Addr'[i] = None /\ \A j \in LiveSet : Addr'[j] = Addr[j]
    BY <1>4, <1>8, <1>9, <2>3, AddrNext, Zenon
  <2>5. Target' = Target
    BY <1>1, Zenon DEF Target
  <2>6. Writers' = Writers
    <3>1. \A q \in Procs : pc'[q] = "wrote" <=> pc[q] = "wrote"
      BY <1>3, <1>10, <1>14, Zenon DEF Others
    <3> QED
      BY <3>1 DEF Writers
  <2>7. None \notin cur.bitmap
    BY <1>2, Types, NoneIsNone, Zenon
  <2>8. Books(LiveSet \cup {i}, Addr', cur.bitmap, Writers, Target, num)
    <3>1. PICK B : B = Addr'
      BY Zenon
    <3>2. B[i] = None /\ \A j \in LiveSet : B[j] = Addr[j]
      BY <2>4, <3>1, Zenon
    <3>3. Books(LiveSet \cup {i}, B, cur.bitmap, Writers, Target, num)
      BY <2>3, <2>7, <3>2, LedgerNow, BooksCleared, Zenon DEF Ledger
    <3> QED
      BY <3>1, <3>3, Zenon
  <2>9. Ledger'
    BY <1>1, <1>9, <2>2, <2>5, <2>6, <2>8, Zenon DEF Ledger
  <2> QED
    BY <2>9, LedgerNext, Zenon
<1>23. ProcOK(p)'
  <2>1. LoneOK(p)' /\ PrivateOK(p)'
    <3>1. Lone'[p] = s /\ Private'[p] = None
      BY <1>16, Zenon DEF Alone
    <3>2. PrivateOK(p)'
      BY <3>1, Zenon DEF PrivateOK
    <3> QED
      BY <1>0, <1>1, <1>7, <1>8, <1>9, <3>1, <3>2, Zenon DEF LoneOK
  <2>2. ValidOK(p)'
    <3>1. \A t \in Slots : t \in {Owner[p], file[p]} => valid[t] /\ t # s
      <4>1. \A t \in Slots : t \in {Owner[p], file[p]} => valid[t]
        BY <1>2, Zenon DEF ProcOK, ValidOK
      <4>2. file[p] # s /\ IpRef[p] # s
        BY <1>4, <1>5, <1>7, HeldOnce, Parts, Zenon DEF Has
      <4>3. Owner[p] = IpRef[p]
        BY <1>5, Zenon DEF Has
      <4> QED
        BY <4>1, <4>2, <4>3, Zenon
    <3>2. \A t \in Slots : t \in {LockOf'[p], Owner'[p], file'[p]} => valid'[t]
      BY <1>1, <1>11, <1>16, <3>1, NoneIsNone, Zenon
    <3> QED
      BY <1>14, <3>2, Zenon DEF ValidOK
  <2>3. DirOK(p)'
    BY <1>1, <1>2, <1>9, <1>14, <1>15, Zenon DEF ProcOK, DirOK
  <2>4. ArgOK(p)'
    BY <1>0, <1>1, <1>2, <1>4, <1>14, <1>15, Zenon DEF ProcOK, ArgOK
  <2> QED
    BY <2>1, <2>2, <2>3, <2>4, Zenon DEF ProcOK
<1>24. /\ \A t \in T : ref'[t] > 0 /\ valid'[t] => mem'[t] = cur'.ino[inum[t]]
       /\ \A t \in T : ref'[t] > 0 \/ ~Orphan(inum[t])' \/ Private'[p] = inum[t]
  BY <1>1, <1>4, <1>11, <1>18, Zenon
<1>25. pc'[p] # "panic" /\ Private[p] \in {None, Private'[p]}
  BY <1>6, <1>14, Zenon
<1> QED
  BY <1>1, <1>10, <1>12, <1>17, <1>19, <1>20, <1>21, <1>22, <1>23, <1>24, <1>25, TouchStep, Zenon

(* bmap() finds the block of the file, or balloc() takes a free one.       *)
LEMMA BallocStep ==
  ASSUME Counting, NInv, NEW p \in Procs, Balloc(p)
  PROVE  NInv'
<1>0. PICK s, i, a, V : s = ip[p] /\ i = inum[s] /\ a = mem[s].addr /\ V = Blocks \ cur.bitmap
  BY Zenon
<1>1. PICK n : n = IF a # None \/ V = {} THEN a ELSE Min(V)
  BY Zenon
<1>2. PICK N : N = IF a # None \/ V = {} THEN cur.bitmap ELSE cur.bitmap \cup {Min(V)}
  BY Zenon
<1>3. /\ cur' = [cur EXCEPT !.bitmap = N] /\ dur' = dur /\ inum' = inum /\ valid' = valid
      /\ lock' = lock /\ mem' = mem /\ ref' = ref /\ group' = group /\ boot' = boot
      /\ file' = file /\ dlock' = dlock /\ pc[p] = "writing"
      /\ ret' = ret /\ arg' = arg /\ ip' = ip /\ put' = put /\ num' = [num EXCEPT ![p] = n]
      /\ pc' = [pc EXCEPT ![p] = "wrote"]
  BY <1>0, <1>1, <1>2, Zenon DEF Balloc, logged, table, Go
<1>4. Typed /\ ProcOK(p) /\ Rows(p) /\ Shape
  BY Parts, RowsNow, ShapeTyped, Zenon
<1>5. pc[p] \in WriteLabels /\ pc[p] # "wrote"
      /\ pc[p] \notin NewLabels \cup LoneLabels \cup NumLabels \cup {"wrote"}
      /\ pc[p] \notin Putting /\ pc[p] \notin DirLabels
  BY <1>3 DEF WriteLabels, NewLabels, LoneLabels, TruncLabels, NumLabels, Putting, PutLabels,
     DirLabels, UnlinkLabels
<1>6. s \in Slots /\ LockOf[p] = s /\ Holds(p, s) /\ Emptied[p] = None /\ i \in cur.type /\ i \in Inums
  BY <1>0, <1>5, Writer, Zenon
<1>7. mem[s] = cur.ino[i] /\ valid[s]
  BY <1>0, <1>6, Locked, Zenon
<1>8. cur.bitmap \subseteq Blocks /\ None \notin cur.bitmap /\ Blocks \subseteq Nat /\ None \notin Blocks
  <2>1. cur.bitmap \subseteq Blocks
    BY <1>4, Types, Zenon
  <2>2. Blocks \subseteq Nat
    BY InodeAssumption DEF InodeAssumption
  <2> QED
    BY <2>1, <2>2, NoneIsNone, Zenon
<1>9. a \in Blocks \cup {None}
  <2>1. mem[s] \in Dinode
    BY <1>4, <1>6, Zenon DEF Shape
  <2> QED
    BY <1>0, <2>1 DEF Dinode
<1>10. \/ n = a /\ N = cur.bitmap
       \/ a = None /\ n \in Blocks \ cur.bitmap /\ n # None /\ N = cur.bitmap \cup {n}
  <2>1. CASE a # None \/ V = {}
    BY <1>1, <1>2, <2>1, Zenon
  <2>2. CASE a = None /\ V # {}
    <3>1. V \in SUBSET Nat
      BY <1>0, <1>8, Zenon
    <3>2. Min(V) \in V
      BY <2>2, <3>1, MinIn, Zenon
    <3>3. n = Min(V) /\ N = cur.bitmap \cup {n}
      BY <1>1, <1>2, <2>2, Zenon
    <3> QED
      BY <1>0, <1>8, <2>2, <3>2, <3>3, Zenon
  <2> QED
    BY <2>1, <2>2, Zenon
<1>11. n \in Nat /\ N \in SUBSET Blocks
  <2>1. None \in Nat
    BY DEF None
  <2> QED
    BY <1>8, <1>9, <1>10, <2>1, Zenon
<1>12. /\ cur' \in Disk /\ cur'.type = cur.type /\ cur'.ino = cur.ino /\ cur'.bitmap = N
       /\ cur'.dir = cur.dir
  <2>1. cur \in Disk
    BY <1>4, Zenon DEF Shape
  <2>2. cur' = [cur EXCEPT !.bitmap = N]
    BY <1>3, Zenon
  <2> QED
    BY ONLY <1>11, <2>1, <2>2, Marked
<1>13. /\ pc'[p] = "wrote" /\ pc' \in [Procs -> Labels] /\ num' \in [Procs -> Nat] /\ num'[p] = n
       /\ \A q \in Procs \ {p} : pc'[q] = pc[q] /\ num'[q] = num[q]
  <2>1. "wrote" \in Labels
    BY Zenon DEF Labels
  <2> QED
    BY <1>3, <1>4, <1>11, <2>1, Zenon DEF Shape
<1>14. Others(p)
  BY <1>3, <1>13, Zenon DEF Others
<1>15. Typed'
  <2>1. Shape'
    BY <1>3, <1>4, <1>12, <1>13, Zenon DEF Shape
  <2> QED
    BY <2>1, ShapeNext, Zenon
<1>16. Rows(p)'
  BY <1>15, RowsNext, Zenon
<1>17. /\ pc'[p] \in WriteLabels /\ pc'[p] \notin {"panic", "iput", "unref"}
       /\ pc'[p] \notin NewLabels \cup {"ialloc"} /\ pc'[p] \notin UnlinkLabels
       /\ pc'[p] \notin IpLabels /\ pc'[p] \notin PutLabels
       /\ pc'[p] \notin NameLabels /\ pc'[p] \notin TwoLabels /\ pc'[p] \notin NumLabels
       /\ pc'[p] \notin Putting /\ pc'[p] \notin DirLabels
  BY <1>13 DEF Putting, PutLabels, NewLabels, NumLabels, UnlinkLabels, IpLabels, WriteLabels,
     NameLabels, TwoLabels, DirLabels
<1>18. (~Bad(p)') /\ (InDir(p)' <=> InDir(p))
  BY <1>4, <1>5, <1>16, <1>17, Zenon DEF Rows, DirRow
<1>19. /\ IpRef'[p] = IpRef[p] /\ PutRef'[p] = PutRef[p] /\ LockOf'[p] = LockOf[p]
       /\ Owner'[p] = Owner[p] /\ Owner[p] = None
  BY <1>3, <1>4, <1>5, <1>16, <1>17, Zenon DEF Rows, HasRow, Has
<1>20. Alone(p, None, None, None, None) /\ Alone(p, None, None, None, n)'
  BY <1>4, <1>5, <1>13, <1>16, Zenon DEF Rows, AloneRow, Alone
<1>21. Balanced(p)
  BY <1>3, <1>19, SameBalance, Zenon
<1>22. PICK T : T = {}
  BY Zenon
<1>23. Touch(p, T)
  BY <1>3, <1>12, <1>20, <1>22, Zenon DEF Touch, DirSafe, Alone
<1>24. LockInv'
  BY <1>3, <1>14, <1>19, LockKept, Zenon
<1>25. LinkInv'
  BY <1>3, <1>12, <1>14, <1>15, <1>19, SameLinks, Zenon
<1>26. BlockInv'
  <2>1. LiveSet' = LiveSet
    <3>1. Emptied'[p] = Emptied[p]
      BY <1>20, Zenon DEF Alone
    <3> QED
      BY <1>3, <1>12, <1>14, <3>1, LiveNext, Zenon
  <2>2. Target' = Target /\ Target[p] = i
    BY <1>0, <1>3, Zenon DEF Target
  <2>3. Addr' = Addr
    BY <1>12 DEF Addr
  <2>4. Addr[i] = a
    BY <1>0, <1>6, <1>7, Zenon DEF Addr
  <2>5. Writers' = Writers \cup {p} /\ p \notin Writers /\ Writers \subseteq Procs
    BY <1>5, <1>13 DEF Writers
  <2>6. i \in LiveSet
    BY <1>0, <1>6, OwnLive, Zenon
  <2>7. ASSUME NEW q \in Writers PROVE Target[q] # Target[p] /\ num'[q] = num[q]
    <3>1. q \in Procs \ {p} /\ pc[q] = "wrote" /\ Target[q] = inum[ip[q]]
      BY <2>5, <2>7, Zenon DEF Writers, Target
    <3>2. pc[q] \in WriteLabels
      BY <3>1 DEF WriteLabels
    <3>3. inum[ip[q]] # inum[s]
      BY <1>6, <3>1, <3>2, OwnInode, Zenon
    <3> QED
      BY <1>0, <1>13, <2>2, <3>1, <3>3, Zenon
  <2>8. Books(LiveSet, Addr, N, Writers \cup {p}, Target, num')
    <3>1. PICK H : H = num'
      BY Zenon
    <3>2. /\ \A q \in Writers : H[q] = num[q]
          /\ \/ H[p] = Addr[Target[p]] /\ N = cur.bitmap
             \/ /\ Addr[Target[p]] = None /\ H[p] \notin cur.bitmap /\ H[p] # None
                /\ N = cur.bitmap \cup {H[p]}
      BY <1>10, <1>13, <2>2, <2>4, <2>7, <3>1
    <3>3. Books(LiveSet, Addr, N, Writers \cup {p}, Target, H)
      BY <1>8, <2>2, <2>5, <2>6, <2>7, <3>2, LedgerNow, BooksTaken DEF Ledger
    <3> QED
      BY <3>1, <3>3, Zenon
  <2>9. Ledger'
    BY <1>12, <2>1, <2>2, <2>3, <2>5, <2>8, Zenon DEF Ledger
  <2> QED
    BY <2>9, LedgerNext, Zenon
<1>27. ProcOK(p)'
  <2>1. LoneOK(p)' /\ PrivateOK(p)'
    BY <1>17, <1>20, Zenon DEF LoneOK, PrivateOK, Alone
  <2>2. ValidOK(p)'
    <3>1. \A t \in Slots : t \in {LockOf'[p], Owner'[p], file'[p]} => valid'[t]
      BY <1>3, <1>4, <1>19, Zenon DEF ProcOK, ValidOK
    <3> QED
      BY <1>17, <3>1, Zenon DEF ValidOK
  <2>3. DirOK(p)'
    BY <1>3, <1>4, <1>17, <1>18, Zenon DEF ProcOK, DirOK
  <2>4. ArgOK(p)'
    BY <1>3, <1>4, <1>5, <1>17, <1>18, Zenon DEF ProcOK, ArgOK
  <2> QED
    BY <2>1, <2>2, <2>3, <2>4, Zenon DEF ProcOK
<1>28. /\ \A t \in T : ref'[t] > 0 /\ valid'[t] => mem'[t] = cur'.ino[inum[t]]
       /\ \A t \in T : ref'[t] > 0 \/ ~Orphan(inum[t])' \/ Private'[p] = inum[t]
  BY <1>22, Zenon
<1>29. pc'[p] # "panic" /\ Private[p] \in {None, Private'[p]}
  BY <1>17, <1>20, Zenon DEF Alone
<1> QED
  BY <1>3, <1>14, <1>15, <1>21, <1>23, <1>24, <1>25, <1>26, <1>27, <1>28, <1>29, TouchStep, Zenon

(* writei() writes the inode with its block, and filewrite() unlocks it.   *)
LEMMA WriteiStep ==
  ASSUME Counting, NInv, NEW p \in Procs, Writei(p)
  PROVE  NInv'
<1>0. PICK s, i, n, d : /\ s = ip[p] /\ i = inum[s] /\ n = num[p]
                        /\ d = [mem[s] EXCEPT !.addr = n]
  BY Zenon
<1>1. /\ cur' = Iupdate(i, d) /\ dur' = dur /\ inum' = inum /\ valid' = valid
      /\ lock' = [lock EXCEPT ![s] = NoProc] /\ mem' = [mem EXCEPT ![s] = d] /\ ref' = ref
      /\ group' = group /\ boot' = boot /\ file' = file /\ dlock' = dlock /\ pc[p] = "wrote"
      /\ ret' = ret /\ arg' = arg /\ ip' = ip /\ put' = put /\ num' = num /\ Go(p, "end")
  BY <1>0, Zenon DEF Writei, Iunlock, logged, local
<1>2. Typed /\ ProcOK(p) /\ Rows(p) /\ Shape
  BY Parts, RowsNow, ShapeTyped, Zenon
<1>3. pc[p] \in WriteLabels /\ pc[p] \notin Putting /\ pc[p] \notin DirLabels
  BY <1>1 DEF WriteLabels, Putting, PutLabels, DirLabels, NewLabels, UnlinkLabels
<1>4. s \in Slots /\ LockOf[p] = s /\ Holds(p, s) /\ Emptied[p] = None /\ i \in cur.type /\ i \in Inums
  BY <1>0, <1>3, Writer, Zenon
<1>5. mem[s] = cur.ino[i] /\ valid[s] /\ ref[s] > 0
  BY <1>0, <1>4, Locked, Zenon
<1>6. p \in Writers /\ Target[p] = i /\ Writers \subseteq Procs /\ i \in LiveSet
  <2>1. p \in Writers /\ Target[p] = i /\ Writers \subseteq Procs
    BY <1>0, <1>1, Zenon DEF Writers, Target
  <2> QED
    BY <1>0, <1>4, <2>1, OwnLive, Zenon
<1>7. cur.bitmap \subseteq Blocks /\ None \notin cur.bitmap
  BY <1>2, Types, NoneIsNone, Zenon
<1>8. n \in cur.bitmap \cup {None}
  <2>1. Addr[i] \in cur.bitmap \cup {None}
    BY <1>6, LedgerNow, Zenon DEF Ledger, Books
  <2>2. Addr[i] = n \/ n \in cur.bitmap
    BY <1>0, <1>6, LedgerNow, Zenon DEF Ledger, Books
  <2> QED
    BY <2>1, <2>2, Zenon
<1>9. d \in Dinode /\ d.nlink = cur.ino[i].nlink /\ d.addr = n
  <2>1. mem[s] \in Dinode
    BY <1>2, <1>4, Zenon DEF Shape
  <2> QED
    BY <1>0, <1>5, <1>7, <1>8, <2>1 DEF Dinode
<1>10. /\ cur' \in Disk /\ cur'.type = cur.type /\ cur'.bitmap = cur.bitmap /\ cur'.dir = cur.dir
       /\ mem' \in [Slots -> Dinode] /\ cur'.ino[i] = d /\ mem'[s] = d
       /\ \A j \in Inums \ {i} : cur'.ino[j] = cur.ino[j]
       /\ \A t \in Slots \ {s} : mem'[t] = mem[t]
       /\ \A j \in cur.type : cur'.ino[j].nlink = cur.ino[j].nlink
  <2>1. /\ mem' \in [Slots -> Dinode] /\ mem'[s] = d
        /\ \A t \in Slots \ {s} : mem'[t] = mem[t]
    BY <1>1, <1>2, <1>4, <1>9, Zenon DEF Shape
  <2>2. cur' = Iupdate(i, d)
    BY <1>1, Zenon
  <2> QED
    BY <1>4, <1>9, <2>1, <2>2, Rewritten, Zenon
<1>11. Others(p) /\ pc'[p] = "end" /\ pc' \in [Procs -> Labels]
  <2>1. "end" \in Labels
    BY Zenon DEF Labels
  <2> QED
    BY <1>1, <1>2, <2>1, GoLocals, Zenon
<1>12. Typed'
  <2>1. lock' \in [Slots -> Procs \cup {NoProc}]
    BY <1>1, <1>2, Zenon DEF Shape
  <2>2. Shape'
    BY <1>1, <1>2, <1>10, <1>11, <2>1, Zenon DEF Shape
  <2> QED
    BY <2>2, ShapeNext, Zenon
<1>13. Rows(p)'
  BY <1>12, RowsNext, Zenon
<1>14. /\ pc'[p] \in Plain \cup {"ialloc"} /\ pc'[p] \notin {"panic", "iput", "unref", "wrote"}
       /\ pc'[p] \notin NewLabels \cup LoneLabels \cup NumLabels \cup {"wrote"}
       /\ pc'[p] \notin NewLabels \cup {"ialloc"} /\ pc'[p] \notin UnlinkLabels
       /\ pc'[p] \notin IpLabels /\ pc'[p] \notin PutLabels /\ pc'[p] \notin WriteLabels \cup {"write"}
       /\ pc'[p] \notin NameLabels /\ pc'[p] \notin TwoLabels /\ pc'[p] \notin NumLabels
       /\ pc'[p] \notin Putting /\ pc'[p] \notin DirLabels
  BY <1>11 DEF Plain, Putting, PutLabels, NewLabels, NumLabels, LoneLabels, TruncLabels,
     UnlinkLabels, IpLabels, WriteLabels, NameLabels, TwoLabels, DirLabels
<1>15. (~Bad(p)') /\ (InDir(p)' <=> InDir(p))
  BY <1>2, <1>3, <1>13, <1>14, Zenon DEF Rows, DirRow
<1>16. /\ IpRef'[p] = IpRef[p] /\ PutRef'[p] = PutRef[p] /\ LockOf'[p] = None
       /\ Owner'[p] = Owner[p]
  BY <1>2, <1>3, <1>13, <1>14, Zenon DEF Rows, HasRow, Has
<1>17. Alone(p, None, None, None, n) /\ Alone(p, None, None, None, None)'
  BY <1>0, <1>1, <1>2, <1>13, <1>14, Zenon DEF Rows, AloneRow
<1>18. Balanced(p)
  BY <1>1, <1>16, SameBalance, Zenon
<1>19. PICK T : T = {s}
  BY Zenon
<1>20. Touch(p, T)
  <2>1. \A t \in Slots \ T : ref'[t] = ref[t] /\ valid'[t] = valid[t] /\ mem'[t] = mem[t]
    BY <1>1, <1>10, <1>19, Zenon
  <2>2. \A j \in Inums : (\A t \in T : inum[t] # j) => cur'.ino[j] = cur.ino[j]
    BY <1>0, <1>10, <1>19, Zenon
  <2> QED
    BY <1>1, <1>4, <1>10, <1>17, <1>19, <2>1, <2>2, Zenon DEF Touch, DirSafe, Alone
<1>21. LockInv'
  BY <1>1, <1>4, <1>11, <1>16, LockDropped, Zenon
<1>22. LinkInv'
  BY <1>1, <1>10, <1>11, <1>12, <1>16, SameLinks, Zenon
<1>23. BlockInv'
  <2>1. LiveSet' = LiveSet /\ LiveSet \subseteq Inums
    <3>1. Emptied'[p] = Emptied[p]
      BY <1>17, Zenon DEF Alone
    <3>2. LiveSet \subseteq Inums
      BY Zenon DEF LiveSet
    <3> QED
      BY <1>1, <1>10, <1>11, <3>1, <3>2, LiveNext, Zenon
  <2>2. Addr'[i] = n /\ \A j \in Inums \ {i} : Addr'[j] = Addr[j]
    BY <1>4, <1>9, <1>10, AddrNext, Zenon
  <2>3. Target' = Target
    BY <1>1, Zenon DEF Target
  <2>4. Writers' = Writers \ {p}
    <3>1. pc'[p] # "wrote" /\ \A q \in Procs \ {p} : pc'[q] = pc[q]
      BY <1>11, <1>14, Zenon DEF Others
    <3> QED
      BY <3>1 DEF Writers
  <2>5. ASSUME NEW q \in Writers \ {p} PROVE Target[q] # Target[p]
    <3>1. q \in Procs \ {p} /\ pc[q] = "wrote" /\ Target[q] = inum[ip[q]]
      BY <2>5, Zenon DEF Writers, Target
    <3>2. pc[q] \in WriteLabels
      BY <3>1 DEF WriteLabels
    <3>3. inum[ip[q]] # inum[s]
      BY <1>4, <3>1, <3>2, OwnInode, Zenon
    <3> QED
      BY <1>0, <1>6, <3>1, <3>3, Zenon
  <2>6. Books(LiveSet, Addr', cur.bitmap, Writers \ {p}, Target, num)
    <3>1. PICK B : B = Addr'
      BY Zenon
    <3>2. B[Target[p]] = num[p] /\ \A j \in LiveSet \ {Target[p]} : B[j] = Addr[j]
      BY <1>0, <1>6, <2>1, <2>2, <3>1, Zenon
    <3>3. Books(LiveSet, B, cur.bitmap, Writers \ {p}, Target, num)
      BY <1>6, <1>7, <2>5, <3>2, LedgerNow, BooksWritten, Zenon DEF Ledger
    <3> QED
      BY <3>1, <3>3, Zenon
  <2>7. Ledger'
    BY <1>1, <1>10, <2>1, <2>3, <2>4, <2>6, Zenon DEF Ledger
  <2> QED
    BY <2>7, LedgerNext, Zenon
<1>24. ProcOK(p)'
  <2>1. LoneOK(p)' /\ PrivateOK(p)'
    BY <1>14, <1>17, NoLoneNext, Zenon
  <2>2. ValidOK(p)'
    <3>1. \A t \in Slots : t \in {Owner[p], file[p]} => valid[t]
      BY <1>2, Zenon DEF ProcOK, ValidOK
    <3>2. \A t \in Slots : t \in {LockOf'[p], Owner'[p], file'[p]} => valid'[t]
      BY <1>1, <1>16, <3>1, NoneIsNone, Zenon
    <3> QED
      BY <1>14, <3>2, Zenon DEF ValidOK
  <2>3. DirOK(p)'
    BY <1>1, <1>2, <1>14, <1>15, Zenon DEF ProcOK, DirOK
  <2>4. ArgOK(p)'
    BY <1>14, <1>15, Zenon DEF ArgOK
  <2> QED
    BY <2>1, <2>2, <2>3, <2>4, Zenon DEF ProcOK
<1>25. /\ \A t \in T : ref'[t] > 0 /\ valid'[t] => mem'[t] = cur'.ino[inum[t]]
       /\ \A t \in T : ref'[t] > 0 \/ ~Orphan(inum[t])' \/ Private'[p] = inum[t]
  <2>1. mem'[s] = cur'.ino[inum[s]] /\ ref'[s] > 0
    BY <1>0, <1>1, <1>5, <1>10, Zenon
  <2> QED
    BY <1>19, <2>1, Zenon
<1>26. pc'[p] # "panic" /\ Private[p] \in {None, Private'[p]}
  BY <1>14, <1>17, Zenon DEF Alone
<1> QED
  BY <1>1, <1>11, <1>12, <1>18, <1>20, <1>21, <1>22, <1>24, <1>23, <1>25, <1>26, TouchStep, Zenon
=============================================================================
