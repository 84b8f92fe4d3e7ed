---------------------------- MODULE InodeProofs -----------------------------
(***************************************************************************)
(* Proofs about Inode, third part: the steps that allocate and free an     *)
(* inode, crashes, and the theorems.                                       *)
(***************************************************************************)
EXTENDS InodeBlocks

-----------------------------------------------------------------------------
(* ialloc(), and the end of iput(): steps that change the type of a dinode *)

(* A link is owed for an inode that is in use.                             *)
LEMMA OwesType ==
  ASSUME Counting, NInv, NEW q \in Procs
  PROVE  OwesTo[q] \in cur.type \cup {None}
<1>1. CASE Owner[q] = None
  BY <1>1, Zenon DEF OwesTo
<1>2. CASE Owner[q] # None
  <2>1. Owner[q] \in Slots \cup {None}
    BY PartTypes, Parts, Zenon
  <2>2. Owner[q] \in Slots /\ Holds(q, Owner[q])
    BY <1>2, <2>1, PartsHeld, Parts, Zenon
  <2>3. ref[Owner[q]] > 0
    BY <2>2, HeldHasRef, Parts, Zenon
  <2>4. inum[Owner[q]] \in cur.type
    BY <2>2, <2>3, Parts, Zenon DEF TableInv
  <2> QED
    BY <1>2, <2>4, Zenon DEF OwesTo
<1> QED
  BY <1>1, <1>2, Zenon

(* The links, when an inode without links is allocated or freed.           *)
LEMMA LinkTypes ==
  ASSUME Counting, NInv, Typed', NEW p \in Procs, Others(p), KeepInum, OwesTo'[p] = OwesTo[p],
         cur'.dir = cur.dir, \A x \in Names : cur.dir[x] \in cur'.type \cup {None},
         \A i \in cur'.type : i \in cur.type => cur'.ino[i].nlink = cur.ino[i].nlink,
         \A i \in cur'.type : i \notin cur.type => cur'.ino[i].nlink = 0
  PROVE  LinkInv'
<1> SUFFICES ASSUME NEW i \in cur'.type
             PROVE  cur'.ino[i].nlink = Count(cur.dir, i) + Count(OwesTo', i)
  BY Zenon DEF LinkInv
<1>1. /\ Count(OwesTo, i) \in Nat /\ Count(OwesTo', i) \in Nat
      /\ Count(OwesTo', i) + One(OwesTo[p], i) = Count(OwesTo, i) + One(OwesTo'[p], i)
  BY OwesCount, Zenon
<1>2. One(OwesTo[p], i) \in Nat /\ One(OwesTo'[p], i) = One(OwesTo[p], i)
  BY DEF One
<1>3. Count(OwesTo', i) = Count(OwesTo, i)
  BY ONLY <1>1, <1>2
<1>4. CASE i \in cur.type
  BY <1>3, <1>4, Parts, Zenon DEF LinkInv
<1>5. CASE i \notin cur.type
  <2>1. i # None
    <3>1. cur'.type \subseteq Inums
      BY Zenon DEF Typed, TypeOK
    <3> QED
      BY <3>1, NoneIsNone, Zenon
  <2>2. ~ \E q \in Procs : OwesTo[q] = i
    BY <1>5, <2>1, OwesType, Zenon
  <2>3. ~ \E x \in Names : cur.dir[x] = i
    BY <1>5, <2>1, Parts, Zenon DEF LinkInv
  <2>4. Count(OwesTo, i) = 0
    BY <2>2, Counted, Countable, Parts
  <2>5. Count(cur.dir, i) = 0
    BY <2>3, Counted, Countable, Parts
  <2>6. cur'.ino[i].nlink = 0
    BY <1>5, Zenon
  <2> QED
    BY ONLY <1>3, <2>4, <2>5, <2>6
<1> QED
  BY <1>4, <1>5, Zenon

(* Only the calls that add a block matter for the ledger.                  *)
LEMMA BooksFrame ==
  ASSUME NEW L, NEW A, NEW M, NEW W, NEW F, NEW G, Books(L, A, M, W, F, G), NEW E, NEW H,
         \A q \in W : E[q] = F[q] /\ H[q] = G[q]
  PROVE  Books(L, A, M, W, E, H)
<1>1. \A q \in W : E[q] \in L
  BY Zenon DEF Books
<1>2. \A q \in W : \/ A[E[q]] = H[q]
                   \/ A[E[q]] = None /\ H[q] \in M /\ \A i \in L : A[i] # H[q]
  BY DEF Books
<1>3. \A q, r \in W : H[q] # None /\ H[q] = H[r] => q = r
  BY DEF Books
<1>4. \A b \in M : (\E i \in L : A[i] = b) \/ (\E q \in W : H[q] = b)
  BY DEF Books
<1> QED
  BY <1>1, <1>2, <1>3, <1>4, Zenon DEF Books

(* The inodes of the calls that add a block, and those that iput() empties,*)
(* have entries.                                                           *)
LEMMA BusyHeld ==
  ASSUME Counting, NInv, NEW q \in Procs
  PROVE  /\ pc[q] = "wrote" =>
              ip[q] \in Slots /\ ref[ip[q]] > 0 /\ Target[q] = inum[ip[q]] /\ inum[ip[q]] \in cur.type
         /\ Emptied[q] # None =>
              Emptied[q] \in Slots /\ ref[Emptied[q]] > 0 /\ inum[Emptied[q]] \in cur.type
<1>1. ASSUME NEW t \in Slots, Holds(q, t) PROVE ref[t] > 0 /\ inum[t] \in cur.type
  <2>1. ref[t] > 0
    BY <1>1, HeldHasRef, Parts, Zenon
  <2> QED
    BY <2>1, Parts, Zenon DEF TableInv
<1>2. ASSUME pc[q] = "wrote"
      PROVE  ip[q] \in Slots /\ Holds(q, ip[q]) /\ Target[q] = inum[ip[q]]
  <2>1. pc[q] \in WriteLabels
    BY <1>2 DEF WriteLabels
  <2> QED
    BY <2>1, Writer, Zenon DEF Target
<1>3. ASSUME Emptied[q] # None
      PROVE  Emptied[q] \in Slots /\ Holds(q, Emptied[q])
  <2>1. Emptied[q] \in Slots \cup {None}
    BY PartTypes, Parts, Zenon
  <2> QED
    BY <1>3, <2>1, PartsHeld, Parts, Zenon
<1> QED
  BY <1>1, <1>2, <1>3, Zenon

(* ialloc() of a dinode.                                                   *)
Take(D, n) == [D EXCEPT !.type = @ \cup {n}, !.ino[n] = Empty]

(* It changes the type and the fields of one.                              *)
LEMMA Allocated ==
  ASSUME NEW D \in Disk, NEW n \in Inums, NEW E, E = Take(D, n)
  PROVE  /\ E \in Disk /\ E.type = D.type \cup {n} /\ E.bitmap = D.bitmap /\ E.dir = D.dir
         /\ E.ino[n] = Empty /\ \A j \in Inums \ {n} : E.ino[j] = D.ino[j]
<1>1. Empty \in Dinode
  BY DEF Empty, Dinode
<1>2. D.type \cup {n} \in SUBSET Inums /\ [D.ino EXCEPT ![n] = Empty] \in [Inums -> Dinode]
  <2>1. D.type \in SUBSET Inums /\ D.ino \in [Inums -> Dinode]
    BY DEF Disk
  <2> QED
    BY <1>1, <2>1, Zenon
<1>3. E \in Disk
  BY <1>2, Zenon DEF Disk, Take
<1>4. /\ E.type = D.type \cup {n} /\ E.bitmap = D.bitmap /\ E.dir = D.dir
      /\ E.ino = [D.ino EXCEPT ![n] = Empty]
  BY DEF Disk, Take
<1>5. D.ino \in [Inums -> Dinode]
  BY DEF Disk
<1> QED
  BY <1>3, <1>4, <1>5, Zenon

(* ialloc() finds a free dinode, which nobody can know yet.                *)
LEMMA IallocFinds ==
  ASSUME Counting, NInv, NEW p \in Procs, Ialloc(p), Inums \ cur.type # {}
  PROVE  NInv'
<1>0. PICK n : n = Min(Inums \ cur.type)
  BY Zenon
<1>1. /\ cur' = [cur EXCEPT !.type = @ \cup {n}, !.ino[n] = Empty] /\ dur' = dur /\ inum' = inum
      /\ valid' = valid /\ lock' = lock /\ mem' = mem /\ ref' = ref /\ group' = group
      /\ boot' = boot /\ file' = file /\ dlock = NoProc /\ dlock' = p /\ pc[p] = "create"
      /\ ret' = ret /\ arg' = arg /\ ip' = ip /\ put' = put /\ num' = [num EXCEPT ![p] = n]
      /\ pc' = [pc EXCEPT ![p] = "ialloc"] /\ cur.dir[arg[p][1]] = None
  BY <1>0, Zenon DEF Ialloc, logged, table, Go
<1>2. Typed /\ ProcOK(p) /\ Rows(p) /\ Shape
  BY Parts, RowsNow, ShapeTyped, Zenon
<1>3. n \in Inums /\ n \notin cur.type /\ n \in Nat /\ n # None
  <2>1. Inums \in SUBSET Nat
    BY InodeAssumption DEF InodeAssumption, Inums
  <2>2. n \in Inums \ cur.type
    <3>1. Inums \ cur.type \in SUBSET Nat
      BY <2>1, Zenon
    <3> QED
      BY <1>0, <3>1, MinIn, Zenon
  <2> QED
    BY <2>1, <2>2, NoneIsNone, Zenon
<1>4. /\ cur' \in Disk /\ cur'.type = cur.type \cup {n} /\ cur'.bitmap = cur.bitmap
      /\ cur'.dir = cur.dir /\ cur'.ino[n] = Empty
      /\ \A j \in Inums \ {n} : cur'.ino[j] = cur.ino[j]
  <2>1. cur \in Disk
    BY <1>2, Zenon DEF Shape
  <2>2. cur' = Take(cur, n)
    BY <1>1, Zenon DEF Take
  <2> QED
    BY ONLY <1>3, <2>1, <2>2, Allocated
<1>5. /\ pc'[p] = "ialloc" /\ pc' \in [Procs -> Labels] /\ num' \in [Procs -> Nat] /\ num'[p] = n
      /\ \A q \in Procs \ {p} : pc'[q] = pc[q] /\ num'[q] = num[q]
  <2>1. "ialloc" \in Labels
    BY Zenon DEF Labels
  <2> QED
    BY <1>1, <1>2, <1>3, <2>1, Zenon DEF Shape
<1>6. Others(p)
  BY <1>1, <1>5, Zenon DEF Others
<1>7. Typed'
  <2>1. dlock' \in Procs \cup {NoProc}
    BY <1>1, Zenon
  <2>2. Shape'
    BY <1>1, <1>2, <1>4, <1>5, <2>1, Zenon DEF Shape
  <2> QED
    BY <2>2, ShapeNext, Zenon
<1>8. Rows(p)'
  BY <1>7, RowsNext, Zenon
<1>9. /\ pc[p] \in Plain \cup {"ialloc"} /\ pc[p] \in NameLabels
      /\ pc[p] \notin NewLabels \cup LoneLabels \cup NumLabels \cup {"wrote"}
      /\ pc'[p] \in Plain \cup {"ialloc"} /\ pc'[p] \in NumLabels
      /\ pc'[p] \notin {"panic", "iput", "unref", "wrote"} /\ pc'[p] \notin UnlinkLabels
      /\ pc'[p] \notin IpLabels /\ pc'[p] \notin PutLabels /\ pc'[p] \notin WriteLabels \cup {"write"}
      /\ pc'[p] \notin TwoLabels /\ pc'[p] \notin Putting /\ pc'[p] \in DirLabels
  BY <1>1, <1>5 DEF Plain, Putting, PutLabels, NewLabels, NumLabels, LoneLabels, TruncLabels,
     UnlinkLabels, IpLabels, WriteLabels, NameLabels, TwoLabels, DirLabels
<1>10. (~Bad(p)') /\ InDir(p)'
  BY <1>8, <1>9, Zenon DEF Rows, DirRow
<1>11. Has(p, None, None, None, None) /\ Has(p, None, None, None, None)'
  BY <1>2, <1>8, <1>9, Zenon DEF Rows, HasRow
<1>12. Alone(p, None, None, None, None) /\ Alone(p, None, None, n, None)'
  BY <1>2, <1>5, <1>8, <1>9, Zenon DEF Rows, AloneRow
<1>13. Balanced(p)
  BY <1>1, <1>11, SameBalance, Zenon DEF Has
<1>14. \A t \in Slots : ref[t] > 0 => inum[t] \in cur.type /\ inum[t] \in Inums \ {n}
  BY <1>2, <1>3, Parts, Types, Zenon DEF TableInv
<1>15. ASSUME NEW q \in Procs \ {p}
       PROVE  Private[q] # None => Private[q] \in cur.type /\ Private[q] \in Inums \ {n}
  BY <1>2, <1>3, Parts, Types, Zenon DEF ProcOK, PrivateOK
<1>16. Tame(p)
  <2>1. KeepInum /\ DirSafe(p)
    BY <1>1, Zenon DEF KeepInum, DirSafe
  <2>2. ASSUME NEW q \in Procs \ {p}, Lone[q] # None
        PROVE  cur'.ino[inum[Lone[q]]] = cur.ino[inum[Lone[q]]]
    <3>1. Lone[q] \in Slots \cup {None}
      BY <1>2, PartTypes, Zenon
    <3>2. Lone[q] \in Slots /\ Holds(q, Lone[q])
      BY <2>2, <3>1, PartsHeld, Parts, Zenon
    <3>3. ref[Lone[q]] > 0
      BY <3>2, HeldHasRef, Parts, Zenon
    <3> QED
      BY <1>4, <1>14, <3>2, <3>3, Zenon
  <2>3. ASSUME NEW q \in Procs \ {p}, Private[q] # None
        PROVE  /\ Private[q] \in cur'.type /\ cur'.ino[Private[q]] = cur.ino[Private[q]]
               /\ \A s \in Slots : ref'[s] > 0 => inum'[s] # Private[q]
               /\ Private'[p] # Private[q]
    <3>1. Private[q] \in cur.type /\ Private[q] \in Inums \ {n}
      BY <1>15, <2>3, Zenon
    <3>2. Private'[p] = n
      BY <1>12, Zenon DEF Alone
    <3>3. \A s \in Slots : ref[s] > 0 => inum[s] # Private[q]
      BY <2>3, Parts, Zenon DEF ProcOK, PrivateOK
    <3> QED
      BY <1>1, <1>4, <3>1, <3>2, <3>3, Zenon
  <2> QED
    BY <1>1, <2>1, <2>2, <2>3, Zenon DEF Tame
<1>17. LockInv'
  BY <1>1, <1>6, <1>11, LockKept, Zenon DEF Has
<1>18. LinkInv'
  <2>1. KeepInum /\ OwesTo'[p] = OwesTo[p]
    BY <1>1, <1>11, Zenon DEF KeepInum, OwesTo, Has
  <2>2. \A x \in Names : cur.dir[x] \in cur'.type \cup {None}
    BY <1>4, Parts, Zenon DEF LinkInv
  <2>3. \A i \in cur'.type : i \in cur.type => cur'.ino[i].nlink = cur.ino[i].nlink
    BY <1>2, <1>3, <1>4, Types, Zenon
  <2>4. \A i \in cur'.type : i \notin cur.type => cur'.ino[i].nlink = 0
    <3>1. Empty.nlink = 0
      BY DEF Empty
    <3> QED
      BY <1>4, <3>1, Zenon
  <2> QED
    BY <1>4, <1>6, <1>7, <2>1, <2>2, <2>3, <2>4, LinkTypes, Zenon
<1>19. BlockInv'
  <2>1. LiveSet' = LiveSet \cup {n} /\ n \notin LiveSet /\ LiveSet \subseteq Inums
    <3>1. \A q \in Procs : Emptied'[q] = Emptied[q]
      BY <1>6, <1>12, Frame, Zenon DEF SameParts, Alone
    <3>2. \A q \in Procs : Emptied[q] # None => inum[Emptied[q]] # n
      BY <1>3, BusyHeld, Zenon
    <3>3. \A i \in Inums : Live(i)' <=> Live(i) \/ i = n
      BY <1>1, <1>4, <3>1, <3>2, Zenon DEF Live
    <3>4. ~Live(n)
      BY <1>3, Zenon DEF Live
    <3>5. \A i \in Inums : (i \in LiveSet <=> Live(i)) /\ (i \in LiveSet' <=> Live(i)')
      BY Zenon DEF LiveSet
    <3>6. \A i \in Inums : i \in LiveSet' <=> i \in LiveSet \/ i = n
      BY <3>3, <3>5, Zenon
    <3>7. LiveSet \subseteq Inums /\ LiveSet' \subseteq Inums /\ n \notin LiveSet
      BY <1>3, <3>4, <3>5, Zenon DEF LiveSet
    <3> QED
      BY <1>3, <3>6, <3>7, Zenon
  <2>2. Addr'[n] = None /\ \A j \in LiveSet : Addr'[j] = Addr[j]
    <3>1. Empty.addr = None
      BY DEF Empty
    <3> QED
      BY <1>3, <1>4, <2>1, <3>1, AddrNext, Zenon
  <2>3. Target' = Target
    BY <1>1, Zenon DEF Target
  <2>4. Writers' = Writers /\ p \notin Writers /\ Writers \subseteq Procs
    <3>1. pc'[p] # "wrote" /\ pc[p] # "wrote"
      BY <1>9
    <3> QED
      BY <1>5, <3>1 DEF Writers
  <2>5. None \notin cur.bitmap
    BY <1>2, Types, NoneIsNone, Zenon
  <2>6. Books(LiveSet \cup {n}, Addr', cur.bitmap, Writers, Target, num')
    <3>1. PICK B, H : B = Addr' /\ H = num'
      BY Zenon
    <3>2. B[n] = None /\ \A j \in LiveSet : B[j] = Addr[j]
      BY <2>2, <3>1, Zenon
    <3>3. Books(LiveSet \cup {n}, B, cur.bitmap, Writers, Target, num)
      BY <2>1, <2>5, <3>2, LedgerNow, BooksCleared, Zenon DEF Ledger
    <3>4. \A q \in Writers : Target[q] = Target[q] /\ H[q] = num[q]
      BY <1>5, <2>4, <3>1, Zenon
    <3>5. Books(LiveSet \cup {n}, B, cur.bitmap, Writers, Target, H)
      BY <3>3, <3>4, BooksFrame, Zenon
    <3> QED
      BY <3>1, <3>5, Zenon
  <2>7. Ledger'
    BY <1>4, <2>1, <2>3, <2>4, <2>6, Zenon DEF Ledger
  <2> QED
    BY <2>7, LedgerNext, Zenon
<1>20. TableInv'
  <2>1. \A t \in Slots : ref'[t] > 0 => inum'[t] \in cur'.type
    BY <1>1, <1>4, <1>14, Zenon
  <2>2. \A s, t \in Slots : (ref'[s] > 0 /\ ref'[t] > 0 /\ inum'[s] = inum'[t]) => s = t
    BY <1>1, Parts, Zenon DEF TableInv
  <2>3. \A t \in Slots : (ref'[t] > 0 /\ valid'[t]) => mem'[t] = cur'.ino[inum'[t]]
    BY <1>1, <1>4, <1>14, Parts, Zenon DEF TableInv
  <2> QED
    BY <2>1, <2>2, <2>3, Zenon DEF TableInv
<1>21. OrphanInv'
  <2> SUFFICES ASSUME NEW i \in Inums, Orphan(i)', i < boot'
               PROVE  \/ \E s \in Slots : ref'[s] > 0 /\ inum'[s] = i
                      \/ \E q \in Procs : Private'[q] = i
    BY Zenon DEF OrphanInv
  <2>1. CASE i = n
    BY <1>12, <2>1, Zenon DEF Alone
  <2>2. CASE i # n
    <3>1. Orphan(i)
      BY <1>4, <2>2, Zenon DEF Orphan
    <3>2. ASSUME NEW q \in Procs, Private[q] = i PROVE Private'[q] = i
      <4>1. q # p
        BY <1>12, <3>2, NoneIsNone, Zenon DEF Alone
      <4> QED
        BY <1>6, <3>2, <4>1, Frame, Zenon DEF SameParts
    <3> QED
      BY <1>1, <3>1, <3>2, Parts, Zenon DEF OrphanInv
  <2> QED
    BY <2>1, <2>2, Zenon
<1>22. ProcOK(p)'
  <2>1. PrivateOK(p)'
    <3>1. Private'[p] = n
      BY <1>12, Zenon DEF Alone
    <3>2. \A q \in Procs \ {p} : Private'[q] # n
      BY <1>3, <1>6, <1>15, Frame, Zenon DEF SameParts
    <3> QED
      BY <1>1, <1>4, <1>14, <3>1, <3>2, Zenon DEF PrivateOK
  <2>2. LoneOK(p)'
    BY <1>9, <1>12, Zenon DEF LoneOK, Alone
  <2>3. ValidOK(p)'
    <3>1. \A t \in Slots : t \in {LockOf'[p], Owner'[p], file'[p]} => valid'[t]
      BY <1>1, <1>2, <1>11, NoneIsNone, Zenon DEF ProcOK, ValidOK, Has
    <3> QED
      BY <1>9, <3>1, Zenon DEF ValidOK
  <2>4. DirOK(p)'
    <3>1. cur'.dir[arg'[p][1]] = None /\ dlock' = p
      BY <1>1, <1>4, Zenon
    <3> QED
      BY <1>9, <1>10, <3>1, Zenon DEF DirOK
  <2>5. ArgOK(p)'
    BY <1>1, <1>2, <1>3, <1>5, <1>9, <1>10, Zenon DEF ProcOK, ArgOK
  <2> QED
    BY <2>1, <2>2, <2>3, <2>4, <2>5, Zenon DEF ProcOK
<1>23. pc'[p] # "panic"
  BY <1>9
<1> QED
  BY <1>1, <1>6, <1>7, <1>13, <1>16, <1>17, <1>18, <1>19, <1>20, <1>21, <1>22, <1>23, TameStep, Zenon

(* ialloc(), whether or not there is a free dinode.                        *)
LEMMA IallocStep ==
  ASSUME Counting, NInv, NEW p \in Procs, Ialloc(p)
  PROVE  NInv'
<1>1. CASE Inums \ cur.type = {}
  <2>1. /\ pc[p] = "create" /\ Go(p, "end") /\ cur' = cur /\ dlock' = dlock /\ num' = num
        /\ UNCHANGED <<logged, table, file, ret, arg, ip, put, boot>>
    BY <1>1, Zenon DEF Ialloc
  <2>2. Leaves(p, "end") /\ UNCHANGED <<cur, logged, table, file, ret, local, boot>>
    BY <2>1, Zenon DEF Leaves, local
  <2> QED
    BY <2>1, <2>2, MoveOn, Zenon
<1>2. CASE Inums \ cur.type # {}
  BY <1>2, IallocFinds, Zenon
<1> QED
  BY <1>1, <1>2, Zenon

(* iput() clears the type of a dinode.                                     *)
Drop(D, n) == [D EXCEPT !.type = @ \ {n}]

(* It changes nothing else.                                                *)
LEMMA Dropped ==
  ASSUME NEW D \in Disk, NEW n, NEW E, E = Drop(D, n)
  PROVE  /\ E \in Disk /\ E.type = D.type \ {n} /\ E.bitmap = D.bitmap /\ E.dir = D.dir
         /\ E.ino = D.ino
<1>1. D.type \ {n} \in SUBSET Inums
  BY DEF Disk
<1>2. E \in Disk
  BY <1>1, Zenon DEF Disk, Drop
<1> QED
  BY <1>2 DEF Disk, Drop

(* The end of iput(): no name, no entry and no call has the inode number.  *)
LEMMA IfreeStep ==
  ASSUME Counting, NInv, NEW p \in Procs, Ifree(p)
  PROVE  NInv'
<1>0. PICK n, r : n = num[p] /\ r = ret[p]
  BY Zenon
<1>1. /\ cur' = Drop(cur, n) /\ dur' = dur /\ inum' = inum
      /\ valid' = valid /\ lock' = lock /\ mem' = mem /\ ref' = ref /\ group' = group
      /\ boot' = boot /\ file' = file /\ dlock' = dlock /\ pc[p] = "ifree"
      /\ ret' = ret /\ arg' = arg /\ ip' = ip /\ put' = put /\ num' = num /\ Go(p, r)
  BY <1>0, Zenon DEF Ifree, logged, table, local, Drop
<1>2. Typed /\ ProcOK(p) /\ Rows(p) /\ Shape
  BY Parts, RowsNow, ShapeTyped, Zenon
<1>3. pc[p] \in NumLabels /\ pc[p] \in Putting /\ pc[p] # "wrote"
  BY <1>1 DEF NumLabels, Putting
<1>4. Has(p, BadIp(p), None, None, BadIp(p)) /\ Alone(p, None, None, n, None)
  BY <1>0, <1>1, <1>2, <1>3, Zenon DEF Rows, HasRow, AloneRow
<1>5. n \in Inums /\ n # None /\ Private[p] = n
  BY <1>0, <1>2, <1>3, <1>4, NoneIsNone, Zenon DEF ProcOK, ArgOK, Alone
<1>6. /\ n \in cur.type /\ cur.ino[n] = Empty /\ \A t \in Slots : ref[t] > 0 => inum[t] # n
      /\ \A q \in Procs \ {p} : Private[q] # n
  BY <1>2, <1>5, Zenon DEF ProcOK, PrivateOK
<1>7. /\ cur' \in Disk /\ cur'.type = cur.type \ {n} /\ cur'.bitmap = cur.bitmap
      /\ cur'.dir = cur.dir /\ cur'.ino = cur.ino
  <2>1. cur \in Disk
    BY <1>2, Zenon DEF Shape
  <2>2. cur' = Drop(cur, n)
    BY <1>1, Zenon
  <2> QED
    BY ONLY <2>1, <2>2, Dropped
<1>8. r \in {"end", "unlock_dir", "unlock_dir_bad"} /\ r \in Labels
  <2>1. r \in {"end", "unlock_dir", "unlock_dir_bad"}
    BY <1>0, <1>2, Zenon DEF Shape
  <2> QED
    BY <2>1 DEF Labels
<1>9. Others(p) /\ pc'[p] = r /\ pc' \in [Procs -> Labels]
  BY <1>1, <1>2, <1>8, GoLocals, Zenon
<1>10. Typed'
  <2>1. Shape'
    BY <1>1, <1>2, <1>7, <1>9, Zenon DEF Shape
  <2> QED
    BY <2>1, ShapeNext, Zenon
<1>11. Rows(p)'
  BY <1>10, RowsNext, Zenon
<1>12. /\ pc'[p] \notin Putting /\ pc'[p] \notin NewLabels \cup LoneLabels \cup NumLabels \cup {"wrote"}
       /\ pc'[p] \notin {"panic", "iput", "unref", "wrote"}
       /\ pc'[p] \notin NewLabels \cup {"ialloc"} /\ pc'[p] \notin UnlinkLabels
       /\ (pc'[p] \in DirLabels <=> r # "end")
       /\ (pc'[p] \in IpLabels => r = "unlock_dir_bad")
       /\ pc'[p] \notin PutLabels /\ pc'[p] \notin WriteLabels \cup {"write"}
       /\ pc'[p] \notin NumLabels /\ pc'[p] \notin NameLabels /\ pc'[p] \notin TwoLabels
  BY <1>8, <1>9 DEF Putting, PutLabels, NewLabels, LoneLabels, TruncLabels, NumLabels,
     DirLabels, UnlinkLabels, IpLabels, WriteLabels, NameLabels, TwoLabels
<1>13. /\ Bad(p) <=> r = "unlock_dir_bad"
       /\ InDir(p)' <=> InDir(p)
       /\ ~Bad(p)'
  BY <1>0, <1>2, <1>3, <1>11, <1>12, Zenon DEF Rows, DirRow
<1>14. Alone(p, None, None, None, None)'
  BY <1>11, <1>12, Zenon DEF Rows, AloneRow
<1>15. /\ IpRef'[p] = IpRef[p] /\ PutRef'[p] = PutRef[p] /\ Owner'[p] = Owner[p] /\ LockOf'[p] = LockOf[p]
       /\ LockOf[p] = None
  <2>1. CASE r = "unlock_dir_bad"
    <3>1. pc'[p] \in {"link_dir", "lock_bad", "unlock_dir_bad"}
      BY <1>9, <2>1
    <3>2. BadIp(p) = ip[p]
      BY <1>13, <2>1, Zenon DEF BadIp
    <3> QED
      BY <1>1, <1>4, <1>11, <3>1, <3>2, Zenon DEF Rows, HasRow, Has
  <2>2. CASE r # "unlock_dir_bad"
    <3>1. pc'[p] \in Plain \cup {"ialloc"}
      BY <1>8, <1>9, <2>2 DEF Plain
    <3>2. BadIp(p) = None
      BY <1>13, <2>2, Zenon DEF BadIp
    <3> QED
      BY <1>4, <1>11, <3>1, <3>2, Zenon DEF Rows, HasRow, Has
  <2> QED
    BY <2>1, <2>2, Zenon
<1>16. Balanced(p)
  BY <1>1, <1>15, SameBalance, Zenon
<1>17. Tame(p)
  <2>1. KeepInum /\ DirSafe(p)
    BY <1>1, <1>7, Zenon DEF KeepInum, DirSafe
  <2>2. ASSUME NEW q \in Procs \ {p}, Private[q] # None
        PROVE  /\ Private[q] \in cur'.type /\ \A s \in Slots : ref[s] > 0 => inum[s] # Private[q]
               /\ Private'[p] # Private[q]
    <3>1. /\ Private[q] \in cur.type /\ Private[q] # n
          /\ \A s \in Slots : ref[s] > 0 => inum[s] # Private[q]
      BY <1>6, <2>2, Parts, Zenon DEF ProcOK, PrivateOK
    <3> QED
      BY <1>7, <1>14, <2>2, <3>1, Zenon DEF Alone
  <2> QED
    BY <1>1, <1>7, <2>1, <2>2, Zenon DEF Tame
<1>18. LockInv'
  BY <1>1, <1>9, <1>15, LockKept, Zenon
<1>19. LinkInv'
  <2>1. KeepInum /\ OwesTo'[p] = OwesTo[p]
    BY <1>1, <1>15, Zenon DEF KeepInum, OwesTo
  <2>2. ASSUME NEW x \in Names PROVE cur.dir[x] \in cur'.type \cup {None}
    <3>1. cur.dir[x] \in cur.type \cup {None}
      BY Parts, Zenon DEF LinkInv
    <3>2. cur.dir[x] # n
      <4>1. ASSUME cur.dir[x] = n PROVE FALSE
        <5>1. cur.ino[n].nlink \in Nat /\ cur.ino[n].nlink > 0
          BY <1>6, <4>1, HasLink, Zenon
        <5>2. cur.ino[n].nlink = 0
          BY <1>6 DEF Empty
        <5> QED
          BY ONLY <5>1, <5>2
      <4> QED
        BY <4>1, Zenon
    <3> QED
      BY <1>7, <3>1, <3>2, Zenon
  <2>3. \A i \in cur'.type : i \in cur.type /\ cur'.ino[i].nlink = cur.ino[i].nlink
    BY <1>7, Zenon
  <2> QED
    BY <1>7, <1>9, <1>10, <2>1, <2>2, <2>3, LinkTypes, Zenon
<1>20. BlockInv'
  <2>1. \A q \in Procs : Emptied[q] # None => inum[Emptied[q]] # n
    BY <1>6, BusyHeld, Zenon
  <2>2. LiveSet' = LiveSet \ {n} /\ n \in LiveSet
    <3>1. \A q \in Procs : Emptied'[q] = Emptied[q]
      BY <1>4, <1>9, <1>14, Frame, Zenon DEF SameParts, Alone
    <3>2. \A i \in Inums : Live(i)' <=> Live(i) /\ i # n
      BY <1>1, <1>7, <3>1, Zenon DEF Live
    <3>3. Live(n)
      BY <1>6, <2>1, Zenon DEF Live
    <3>4. \A i \in Inums : (i \in LiveSet <=> Live(i)) /\ (i \in LiveSet' <=> Live(i)')
      BY Zenon DEF LiveSet
    <3>5. \A i \in Inums : i \in LiveSet' <=> i \in LiveSet /\ i # n
      BY <3>2, <3>4, Zenon
    <3>6. LiveSet \subseteq Inums /\ LiveSet' \subseteq Inums /\ n \in LiveSet
      BY <1>5, <3>3, <3>4, Zenon DEF LiveSet
    <3> QED
      BY <3>5, <3>6, Zenon
  <2>3. Addr' = Addr
    BY <1>7 DEF Addr
  <2>4. Addr[n] = None
    <3>1. cur.ino[n].addr = None
      BY <1>6 DEF Empty
    <3> QED
      BY <1>5, <3>1, Zenon DEF Addr
  <2>5. Target' = Target
    BY <1>1, Zenon DEF Target
  <2>6. Writers' = Writers /\ Writers \subseteq Procs
    <3>1. \A q \in Procs : pc'[q] = "wrote" <=> pc[q] = "wrote"
      BY <1>3, <1>9, <1>12, Zenon DEF Others
    <3> QED
      BY <3>1 DEF Writers
  <2>7. \A q \in Writers : Target[q] # n
    <3> SUFFICES ASSUME NEW q \in Procs, pc[q] = "wrote" PROVE Target[q] # n
      BY <2>6, Zenon DEF Writers
    <3> QED
      BY <1>6, BusyHeld, Zenon
  <2>8. cur.bitmap \ {Addr[n]} = cur.bitmap
    <3>1. None \notin cur.bitmap
      BY <1>2, Types, NoneIsNone, Zenon
    <3> QED
      BY <2>4, <3>1, Zenon
  <2>9. Books(LiveSet \ {n}, Addr, cur.bitmap \ {Addr[n]}, Writers, Target, num)
    BY <2>2, <2>7, LedgerNow, BooksFreed, Zenon DEF Ledger
  <2>10. Ledger'
    BY <1>1, <1>7, <2>2, <2>3, <2>5, <2>6, <2>8, <2>9, Zenon DEF Ledger
  <2> QED
    BY <2>10, LedgerNext, Zenon
<1>21. TableInv'
  <2>1. \A t \in Slots : ref'[t] > 0 => inum'[t] \in cur'.type
    BY <1>1, <1>6, <1>7, Parts, Zenon DEF TableInv
  <2>2. /\ \A s, t \in Slots : (ref'[s] > 0 /\ ref'[t] > 0 /\ inum'[s] = inum'[t]) => s = t
        /\ \A t \in Slots : (ref'[t] > 0 /\ valid'[t]) => mem'[t] = cur'.ino[inum'[t]]
    BY <1>1, <1>7, Parts, Zenon DEF TableInv
  <2> QED
    BY <2>1, <2>2, Zenon DEF TableInv
<1>22. OrphanInv'
  <2> SUFFICES ASSUME NEW i \in Inums, Orphan(i)', i < boot'
               PROVE  \/ \E s \in Slots : ref'[s] > 0 /\ inum'[s] = i
                      \/ \E q \in Procs : Private'[q] = i
    BY Zenon DEF OrphanInv
  <2>1. Orphan(i) /\ i # n
    BY <1>7, Zenon DEF Orphan
  <2>2. ASSUME NEW q \in Procs, Private[q] = i PROVE Private'[q] = i
    BY <1>5, <1>9, <2>1, <2>2, Frame, Zenon DEF SameParts
  <2> QED
    BY <1>1, <2>1, <2>2, Parts, Zenon DEF OrphanInv
<1>23. ProcOK(p)'
  <2>1. LoneOK(p)' /\ PrivateOK(p)'
    BY <1>12, <1>14, NoLoneNext, Zenon
  <2>2. ValidOK(p)'
    <3>1. \A t \in Slots : t \in {LockOf'[p], Owner'[p], file'[p]} => valid'[t]
      BY <1>1, <1>2, <1>15, Zenon DEF ProcOK, ValidOK
    <3> QED
      BY <1>12, <3>1, Zenon DEF ValidOK
  <2>3. DirOK(p)'
    BY <1>1, <1>2, <1>12, <1>13, Zenon DEF ProcOK, DirOK
  <2>4. ArgOK(p)'
    BY <1>1, <1>2, <1>12, <1>13, Zenon DEF ProcOK, ArgOK
  <2> QED
    BY <2>1, <2>2, <2>3, <2>4, Zenon DEF ProcOK
<1>24. pc'[p] # "panic"
  BY <1>12
<1> QED
  BY <1>1, <1>9, <1>10, <1>16, <1>17, <1>18, <1>19, <1>20, <1>21, <1>22, <1>23, <1>24, TameStep, Zenon

-----------------------------------------------------------------------------
(* The machine starts, and comes back after a crash, with empty tables.    *)
Fresh ==
  /\ cur = dur /\ dur \in Disk /\ DurInv
  /\ inum = [s \in Slots |-> None] /\ ref = [s \in Slots |-> 0]
  /\ valid = [s \in Slots |-> FALSE] /\ mem = [s \in Slots |-> Empty]
  /\ lock = [s \in Slots |-> NoProc] /\ dlock = NoProc
  /\ file = [p \in Procs |-> None]
  /\ pc = [p \in Procs |-> "idle"] /\ ret = [p \in Procs |-> "end"]
  /\ arg = [p \in Procs |-> <<>>] /\ num = [p \in Procs |-> None]
  /\ ip = [p \in Procs |-> None] /\ put = [p \in Procs |-> None]
  /\ group = 0 /\ boot = 1

(* A consistent disk is all that the invariant needs then: initlog() and   *)
(* ireclaim() rely on nothing else.                                        *)
LEMMA FreshInv ==
  ASSUME Counting, Fresh
  PROVE  NInv
<1>1. Typed
  <2>1. Empty \in Dinode /\ None \in Nat
    BY DEF Empty, Dinode, None
  <2>2. boot \in 1 .. NInodes + 1 /\ group \in 0 .. MaxGroup
    BY InodeAssumption DEF InodeAssumption, Fresh
  <2>3. "idle" \in Labels /\ 0 \in Nat
    BY DEF Labels
  <2>4. /\ inum \in [Slots -> Inums \cup {None}] /\ ref \in [Slots -> Nat]
        /\ valid \in [Slots -> BOOLEAN] /\ mem \in [Slots -> Dinode]
        /\ lock \in [Slots -> Procs \cup {NoProc}] /\ dlock \in Procs \cup {NoProc}
    BY <2>1, <2>3, Zenon DEF Fresh
  <2>5. /\ file \in [Procs -> Slots \cup {None}] /\ ip \in [Procs -> Slots \cup {None}]
        /\ put \in [Procs -> Slots \cup {None}] /\ num \in [Procs -> Nat]
    BY <2>1, Zenon DEF Fresh
  <2>6. /\ ret \in [Procs -> {"end", "unlock_dir", "unlock_dir_bad"}] /\ DOMAIN arg = Procs
        /\ pc \in [Procs -> Labels]
    BY <2>3, Zenon DEF Fresh
  <2>7. Shape
    BY <2>2, <2>4, <2>5, <2>6, Zenon DEF Shape, Fresh
  <2> QED
    BY <2>7, ShapeTyped, Zenon
<1>2. ASSUME NEW p \in Procs
      PROVE  /\ pc[p] = "idle" /\ file[p] = None /\ Has(p, None, None, None, None)
             /\ Alone(p, None, None, None, None) /\ ~InDir(p) /\ ~Bad(p) /\ OwesTo[p] = None
  <2>1. pc[p] = "idle" /\ file[p] = None
    BY Zenon DEF Fresh
  <2>2. Rows(p)
    BY <1>1, RowsNow, Zenon
  <2>3. /\ pc[p] \in Plain \cup {"ialloc"} /\ pc[p] \notin DirLabels /\ pc[p] \notin Putting
        /\ pc[p] \notin NewLabels \cup LoneLabels \cup NumLabels \cup {"wrote"}
    BY <2>1 DEF Plain, Putting, PutLabels, NewLabels, LoneLabels, TruncLabels, NumLabels,
       DirLabels, UnlinkLabels
  <2>4. /\ Has(p, None, None, None, None) /\ Alone(p, None, None, None, None)
        /\ ~InDir(p) /\ ~Bad(p)
    BY <2>2, <2>3, Zenon DEF Rows, HasRow, AloneRow, DirRow
  <2> QED
    BY <2>1, <2>4, Zenon DEF Has, OwesTo
<1>3. ASSUME NEW s \in Slots
      PROVE  ref[s] = 0 /\ ~(ref[s] > 0) /\ lock[s] = NoProc
  <2>1. ref[s] = 0 /\ lock[s] = NoProc
    BY Zenon DEF Fresh
  <2> QED
    BY <2>1
<1>4. RefInv
  <2> SUFFICES ASSUME NEW s \in Slots
               PROVE  ref[s] = Count(file, s) + Count(IpRef, s) + Count(PutRef, s)
    BY Zenon DEF RefInv
  <2>1. s # None
    BY NoneIsNone, Zenon
  <2>2. /\ ~(\E p \in Procs : file[p] = s) /\ ~(\E p \in Procs : IpRef[p] = s)
        /\ ~(\E p \in Procs : PutRef[p] = s)
    <3>1. ASSUME NEW p \in Procs PROVE file[p] = None /\ IpRef[p] = None /\ PutRef[p] = None
      BY <1>2, Zenon DEF Has
    <3> QED
      BY <2>1, <3>1
  <2>3. Count(file, s) = 0 /\ Count(IpRef, s) = 0 /\ Count(PutRef, s) = 0
    BY <1>1, <2>2, Countable, Counted
  <2>4. ref[s] = 0
    BY <1>3, Zenon
  <2> QED
    BY ONLY <2>3, <2>4
<1>5. TableInv
  BY <1>3, Zenon DEF TableInv
<1>6. ASSUME NEW p \in Procs
      PROVE  ProcOK(p)
  <2>1. pc[p] # "unref" /\ pc[p] # "iput"
    BY <1>2
  <2>2. LoneOK(p) /\ PrivateOK(p)
    BY <1>2, <2>1, Zenon DEF Alone, LoneOK, PrivateOK
  <2>3. ValidOK(p)
    BY <1>2, <2>1, NoneIsNone, Zenon DEF ValidOK, Has
  <2>4. DirOK(p)
    <3>1. pc[p] \notin NewLabels \cup {"ialloc"} /\ pc[p] \notin UnlinkLabels
      BY <1>2 DEF NewLabels, UnlinkLabels
    <3>2. dlock # p
      BY InodeAssumption, Zenon DEF Fresh, InodeAssumption
    <3> QED
      BY <1>2, <2>1, <3>1, <3>2, Zenon DEF DirOK
  <2>5. ArgOK(p)
    <3>1. /\ pc[p] \notin IpLabels /\ pc[p] \notin PutLabels /\ pc[p] \notin WriteLabels \cup {"write"}
          /\ pc[p] \notin NumLabels /\ pc[p] \notin NameLabels /\ pc[p] \notin TwoLabels
      BY <1>2 DEF IpLabels, PutLabels, WriteLabels, NumLabels, NameLabels, TwoLabels,
                  NewLabels, UnlinkLabels
    <3> QED
      BY <1>2, <3>1, Zenon DEF ArgOK
  <2> QED
    BY <2>2, <2>3, <2>4, <2>5, Zenon DEF ProcOK
<1>7. LockInv
  <2>1. ASSUME NEW p \in Procs, NEW s \in Slots PROVE LockOf[p] # s /\ lock[s] # p
    BY <1>2, <1>3, NoneIsNone, InodeAssumption, Zenon DEF Has, InodeAssumption
  <2> QED
    BY <2>1, Zenon DEF LockInv
<1>8. LinkInv
  <2>1. ASSUME NEW i \in cur.type PROVE cur.ino[i].nlink = Count(cur.dir, i) + Count(OwesTo, i)
    <3>1. i \in Inums
      BY <1>1, Types, Zenon
    <3>2. ~(\E p \in Procs : OwesTo[p] = i)
      BY <1>2, <3>1, NoneIsNone, Zenon
    <3>3. Count(OwesTo, i) = 0 /\ Count(cur.dir, i) \in Nat
      BY <1>1, <3>2, Countable, Counted
    <3>4. cur.ino[i].nlink = Count(cur.dir, i)
      BY Zenon DEF Fresh, DurInv
    <3> QED
      BY ONLY <3>3, <3>4
  <2>2. \A n \in Names : cur.dir[n] \in cur.type \cup {None}
    BY Zenon DEF Fresh, DurInv
  <2> QED
    BY <2>1, <2>2, Zenon DEF LinkInv
<1>9. BlockInv
  <2>1. \A i : Live(i) <=> i \in cur.type
    BY <1>2, Zenon DEF Live, Alone
  <2>2. /\ \A p \in Procs : pc[p] # "wrote" /\ Adding[p] = None
    <3>1. ASSUME NEW p \in Procs PROVE pc[p] # "wrote"
      BY <1>2
    <3> QED
      BY <1>2, <3>1, Zenon DEF Alone
  <2>3. cur.type \subseteq Inums /\ cur = dur
    BY <1>1, Types, Zenon DEF Fresh
  <2>4. DurInv
    BY Zenon DEF Fresh
  <2> QED
    BY <2>1, <2>2, <2>3, <2>4, Zenon DEF BlockInv, DurInv
<1>10. OrphanInv
  <2>1. ASSUME NEW i \in Inums PROVE ~(i < boot)
    <3>1. boot = 1
      BY Zenon DEF Fresh
    <3> QED
      BY <3>1 DEF Inums
  <2> QED
    BY <2>1, Zenon DEF OrphanInv
<1>11. NoPanic
  <2>1. ASSUME NEW p \in Procs PROVE pc[p] # "panic"
    BY <1>2
  <2> QED
    BY <2>1, Zenon DEF NoPanic
<1>12. DurInv
  BY Zenon DEF Fresh
<1> QED
  BY <1>1, <1>4, <1>5, <1>6, <1>7, <1>8, <1>9, <1>10, <1>11, <1>12, Zenon
     DEF NInv, Typed, ArgInv, LoneInv, ValidInv, DirInv, ProcOK

(* An image without files is consistent.                                   *)
LEMMA InitInv ==
  ASSUME Counting, Init
  PROVE  NInv
<1>1. dur = NewImage /\ cur = NewImage
  BY Zenon DEF Init
<1>2. /\ dur.type = {} /\ dur.bitmap = {} /\ dur.dir = [n \in Names |-> None]
      /\ dur.ino = [i \in Inums |-> Empty]
  BY <1>1 DEF NewImage
<1>3. dur \in Disk
  <2>1. Empty \in Dinode
    BY DEF Empty, Dinode, None
  <2>2. [i \in Inums |-> Empty] \in [Inums -> Dinode]
    BY <2>1, Zenon
  <2>3. [n \in Names |-> None] \in [Names -> Inums \cup {None}]
    BY Zenon
  <2> QED
    BY <1>1, <2>2, <2>3 DEF NewImage, Disk
<1>4. DurInv
  BY <1>2, Zenon DEF DurInv
<1>5. Fresh
  BY <1>1, <1>3, <1>4, Zenon DEF Init, Fresh
<1> QED
  BY <1>5, FreshInv, Zenon

(* The same, as an implication.                                           *)
LEMMA FreshIsEnough == Counting /\ Fresh => NInv
  BY FreshInv, Zenon

(* The tables that a crash leaves, after it.                              *)
LEMMA FreshNext ==
  ASSUME Counting', Fresh'
  PROVE  NInv'
  BY FreshIsEnough, PTL

(* After a crash the machine has what the log has made durable.            *)
LEMMA CrashStep ==
  ASSUME Counting, NInv, Crash
  PROVE  NInv'
<1>1. dur \in Disk /\ DurInv
  BY Parts, Zenon DEF LocalOK
<1>2. dur' = dur /\ cur' = dur'
  BY Zenon DEF Crash
<1>3. DurInv'
  BY <1>1, <1>2, Zenon DEF DurInv
<1>4. Fresh'
  BY <1>1, <1>2, <1>3, Zenon DEF Crash, Fresh
<1>5. Counting'
  BY Zenon DEF Counting, AddFact, RemoveFact, SubsetFact, NumberFact, EmptyFact, LeastFact
<1> QED
  BY <1>4, <1>5, FreshNext, Zenon

(* Nothing changes when no process takes a step.                           *)
LEMMA StutterStep ==
  ASSUME NInv, UNCHANGED vars
  PROVE  NInv'
<1>1. /\ cur' = cur /\ dur' = dur /\ group' = group /\ boot' = boot /\ file' = file
      /\ dlock' = dlock /\ pc' = pc /\ ip' = ip
      /\ inum' = inum /\ ref' = ref /\ valid' = valid /\ mem' = mem /\ lock' = lock
      /\ ret' = ret /\ arg' = arg /\ put' = put /\ num' = num
  BY Zenon DEF vars, logged, table, local
<1>2. Typed'
  <2>1. Shape
    BY Parts, ShapeTyped, Zenon
  <2>2. Shape'
    BY <1>1, <2>1, Zenon DEF Shape
  <2> QED
    BY <2>2, ShapeNext, Zenon
<1>3. \A q : Bad(q)' = Bad(q) /\ Owes(q)' = Owes(q) /\ InDir(q)' = InDir(q)
  BY <1>1, Zenon DEF Bad, Owes, InDir
<1>4. /\ IpRef' = IpRef /\ PutRef' = PutRef /\ LockOf' = LockOf /\ Owner' = Owner /\ Lone' = Lone
      /\ Private' = Private /\ Emptied' = Emptied /\ Adding' = Adding
  BY <1>1, <1>3, Zenon DEF IpRef, PutRef, LockOf, Owner, Lone, Private, Emptied, Adding
<1>5. OwesTo' = OwesTo /\ \A i : Live(i)' = Live(i)
  BY <1>1, <1>4, Zenon DEF OwesTo, Live
<1>6. RefInv' /\ TableInv' /\ LockInv' /\ NoPanic' /\ DurInv'
  <2>1. RefInv' /\ LockInv'
    BY <1>1, <1>4, Parts, Zenon DEF RefInv, LockInv
  <2>2. TableInv' /\ NoPanic'
    BY <1>1, Parts, Zenon DEF TableInv, NoPanic
  <2>3. DurInv'
    BY <1>1, Parts, Zenon DEF DurInv
  <2> QED
    BY <2>1, <2>2, <2>3, Zenon
<1>7. LinkInv'
  BY <1>1, <1>5, Parts, Zenon DEF LinkInv
<1>8. BlockInv'
  BY <1>1, <1>4, <1>5, Parts, Zenon DEF BlockInv
<1>9. OrphanInv'
  <2>1. \A i : Orphan(i)' = Orphan(i)
    BY <1>1, Zenon DEF Orphan
  <2> QED
    BY <1>1, <1>4, <2>1, Parts, Zenon DEF OrphanInv
<1>10. LoneInv'
  BY <1>1, <1>4, Zenon DEF NInv, LoneInv, LoneOK, PrivateOK
<1>11. ValidInv' /\ DirInv'
  BY <1>1, <1>3, <1>4, Zenon DEF NInv, ValidInv, ValidOK, DirInv, DirOK
<1>12. ArgInv'
  BY <1>1, <1>3, Zenon DEF NInv, ArgInv, ArgOK
<1> QED
  BY <1>2, <1>6, <1>7, <1>8, <1>9, <1>10, <1>11, <1>12, Zenon DEF NInv, Typed

(* Every step, while itable has room.                                      *)
LEMMA NInvNext ==
  ASSUME Counting, NInv, Room, [Next]_vars
  PROVE  NInv'
<1>1. CASE Crash
  BY <1>1, CrashStep, Zenon
<1>2. ASSUME NEW p \in Procs, Start(p) \/ Close(p) \/ Reclaim(p)
      PROVE  NInv'
  BY <1>2, StartStep, CloseStep, ReclaimFinds, ReclaimPasses, Zenon
<1>3. ASSUME NEW p \in Procs,
             IlockSteps(p) \/ Iput(p) \/ Itrunc(p) \/ ItruncUpdate(p) \/ Unref(p) \/ Ifree(p)
             \/ EndOp(p)
      PROVE  NInv'
  BY <1>3, IlockAll, IputStep, ItruncStep, ItruncUpdateStep, UnrefStep, IfreeStep, EndStep, Zenon
<1>4. ASSUME NEW p \in Procs,
             Found(p) \/ NotFound(p) \/ OpenFile(p) \/ Ialloc(p) \/ IallocIget(p)
             \/ CreateLinks(p) \/ CreateFails(p) \/ UnlockDir(p)
      PROVE  NInv'
  BY <1>4, FoundStep, QuietSteps, IallocStep, IallocIgetStep, CreateLinksStep,
     CreateFailsStep, Zenon
<1>5. ASSUME NEW p \in Procs,
             LinkCounts(p) \/ LinkEnters(p) \/ LinkExists(p) \/ LinkUndoes(p)
             \/ UnlinkFinds(p) \/ UnlinkErases(p) \/ UnlinkCounts(p)
      PROVE  NInv'
  BY <1>5, LinkCountsStep, LinkEntersStep, LinkExistsStep, TakeLink, UnlinkFindsStep,
     UnlinkErasesStep, Zenon
<1>6. ASSUME NEW p \in Procs, Balloc(p) \/ Writei(p) \/ ReclaimPut(p)
      PROVE  NInv'
  BY <1>6, BallocStep, WriteiStep, QuietSteps, Zenon
<1>7. CASE UNCHANGED vars
  BY <1>7, StutterStep, Zenon
<1> QED
  BY <1>1, <1>2, <1>3, <1>4, <1>5, <1>6, <1>7, Zenon DEF Next, Step

-----------------------------------------------------------------------------
(* What the invariant says of the disk when no call is in progress: an     *)
(* inode without links is in a file that some process has open.            *)
LEMMA OrphansAreOpen ==
  ASSUME Counting, NInv, Quiet, NEW i \in Inums, Orphan(i)
  PROVE  \E p \in Procs : file[p] # None /\ inum[file[p]] = i
<1>1. Typed /\ RefInv /\ OrphanInv
  BY Parts, Zenon
<1>2. \A q \in Procs : Has(q, None, None, None, None) /\ Alone(q, None, None, None, None)
  BY IdleHas, Zenon DEF Quiet
<1>3. i < boot
  <2>1. boot \in Nat /\ i \in 1 .. NInodes /\ boot > NInodes
    <3>1. boot \in 1 .. NInodes + 1
      BY <1>1, Types, Zenon
    <3>2. boot > NInodes /\ i \in 1 .. NInodes
      BY Zenon DEF Quiet, Up, Inums
    <3> QED
      BY ONLY <3>1, <3>2
  <2> QED
    BY ONLY <2>1, InodeAssumption DEF InodeAssumption
<1>4. ~(\E p \in Procs : Private[p] = i)
  <2>1. \A p \in Procs : Private[p] = None
    BY <1>2, Zenon DEF Alone
  <2> QED
    BY <2>1, NoneIsNone, Zenon
<1>5. PICK s \in Slots : ref[s] > 0 /\ inum[s] = i
  BY <1>1, <1>3, <1>4, Zenon DEF OrphanInv
<1>6. PICK p \in Procs : Holds(p, s)
  BY <1>1, <1>5, RefIsHeld, Zenon
<1>7. s # None /\ IpRef[p] = None /\ PutRef[p] = None
  BY <1>2, NoneIsNone, Zenon DEF Has
<1>8. file[p] = s
  BY <1>6, <1>7, Zenon DEF Holds
<1> QED
  BY <1>5, <1>7, <1>8, Zenon

(* The inodes that have a block, and their blocks.                         *)
Used == {i \in dur.type : dur.ino[i].addr # None}
DurAddr == [i \in Used |-> dur.ino[i].addr]

(* Each block in the bitmap on disk belongs to one inode.                  *)
LEMMA BlocksOnDisk ==
  ASSUME NInv
  PROVE  /\ DurAddr \in [Used -> dur.bitmap] /\ Used \subseteq Inums
         /\ \A b \in dur.bitmap : \E i \in Used : DurAddr[i] = b
         /\ \A i, j \in Used : DurAddr[i] = DurAddr[j] => i = j
         /\ dur.bitmap = {dur.ino[i].addr : i \in Used}
<1>1. DurInv /\ dur.type \subseteq Inums /\ dur.bitmap \subseteq Blocks
  BY Parts, Zenon DEF TypeOK
<1>2. ASSUME NEW i \in Used
      PROVE  i \in dur.type /\ DurAddr[i] = dur.ino[i].addr /\ dur.ino[i].addr \in dur.bitmap
  BY <1>1, Zenon DEF Used, DurAddr, DurInv
<1>3. ASSUME NEW b \in dur.bitmap
      PROVE  \E i \in Used : dur.ino[i].addr = b
  <2>1. b # None
    BY <1>1, NoneIsNone, Zenon
  <2> QED
    BY <1>1, <2>1, Zenon DEF Used, DurInv
<1>4. DurAddr \in [Used -> dur.bitmap]
  BY <1>2, Zenon DEF DurAddr
<1>5. \A i, j \in Used : DurAddr[i] = DurAddr[j] => i = j
  <2>1. \A i \in Used : dur.ino[i].addr # None
    BY Zenon DEF Used
  <2> QED
    BY <1>1, <1>2, <2>1, Zenon DEF DurInv
<1>6. dur.bitmap = {dur.ino[i].addr : i \in Used}
  <2>1. \A b \in dur.bitmap : b \in {dur.ino[i].addr : i \in Used}
    BY <1>3, Zenon
  <2>2. \A i \in Used : dur.ino[i].addr \in dur.bitmap
    BY <1>2, Zenon
  <2> QED
    BY <2>1, <2>2, Zenon
<1> QED
  BY <1>1, <1>2, <1>3, <1>4, <1>5, <1>6, Zenon DEF Used

(* If iget() finds no entry, every entry has a different inode, and none   *)
(* has the one it looks for.                                               *)
LEMMA TableFull ==
  ASSUME Counting, NInv, NEW i \in Inums, SlotFor(i) = None
  PROVE  /\ inum \in [Slots -> Inums \ {i}]
         /\ \A s, t \in Slots : inum[s] = inum[t] => s = t
<1>1. Typed /\ TableInv
  BY Parts, Zenon
<1> DEFINE has == {s \in Slots : ref[s] > 0 /\ inum[s] = i}
           empty == {s \in Slots : ref[s] = 0}
<1>2. Slots \subseteq Nat
  BY DEF Slots
<1>3. ASSUME NEW S \in SUBSET Slots, S # {} PROVE Min(S) # None
  <2>1. S \in SUBSET Nat
    BY <1>2, Zenon
  <2>2. Min(S) \in S
    BY <1>3, <2>1, MinIn, Zenon
  <2> QED
    BY <2>2, NoneIsNone, Zenon
<1>4. has \in SUBSET Slots /\ empty \in SUBSET Slots
  BY Zenon
<1>5. SlotFor(i) = IF has # {} THEN Min(has) ELSE IF empty # {} THEN Min(empty) ELSE None
  BY Zenon DEF SlotFor
<1>6. has = {} /\ empty = {}
  <2> HIDE DEF has, empty
  <2> QED
    BY <1>3, <1>4, <1>5, Zenon
<1>7. ASSUME NEW s \in Slots PROVE ref[s] > 0 /\ inum[s] \in Inums \ {i}
  <2>1. ref[s] \in Nat /\ ref[s] # 0
    BY <1>1, <1>6, Types, Zenon
  <2>2. ref[s] > 0
    BY ONLY <2>1
  <2>3. inum[s] # i
    BY <1>6, <2>2, Zenon
  <2>4. inum[s] \in Inums
    BY <1>1, <2>2, Types, Zenon DEF TableInv
  <2> QED
    BY <2>2, <2>3, <2>4, Zenon
<1>8. inum \in [Slots -> Inums \ {i}]
  <2>1. inum = [s \in Slots |-> inum[s]]
    BY <1>1, Types, Zenon
  <2> QED
    BY <1>7, <2>1, Zenon
<1> QED
  BY <1>1, <1>7, <1>8, Zenon DEF TableInv

-----------------------------------------------------------------------------
(* The library's facts about finite sets and numbers.                      *)
FST == INSTANCE FiniteSetTheorems
WFI == INSTANCE WellFoundedInduction

(* Finite is the same thing here and in the library.                       *)
LEMMA LibraryFinite == \A S : IsFiniteSet(S) = FST!IsFiniteSet(S)
  BY DEF IsFiniteSet, FST!IsFiniteSet

(* Both count alike.                                                       *)
LEMMA LibraryCardinality == \A S : Cardinality(S) = FST!Cardinality(S)
  BY Zenon DEF Cardinality, FST!Cardinality

(* A nonempty set of numbers has a least element: iget(), ialloc() and     *)
(* balloc() take the first that is free.                                   *)
LEMMA LeastNumber ==
  ASSUME NEW S \in SUBSET Nat, S # {}
  PROVE  \E x \in S : \A y \in S : x <= y
<1> DEFINE less == {ss \in Nat \X Nat : ss[1] < ss[2]}
<1>1. WFI!IsWellFoundedOn(less, Nat)
  BY WFI!NatLessThanWellFounded DEF WFI!OpToRel
<1> HIDE DEF less
<1>2. PICK x \in S : \A y \in S : ~ (<<y, x>> \in less)
  BY <1>1, WFI!WFMin, Zenon
<1>3. ASSUME NEW y \in S PROVE x <= y
  <2>1. x \in Nat /\ y \in Nat /\ ~ (<<y, x>> \in less)
    BY <1>2
  <2>2. y < x => <<y, x>> \in less
    BY <2>1 DEF less
  <2> QED
    BY <2>1, <2>2
<1> QED
  BY <1>3

(* References and links can be counted.                                    *)
LEMMA CanCount == Counting
<1>1. AddFact
  BY FST!FS_AddElement, LibraryFinite, LibraryCardinality DEF AddFact
<1>2. RemoveFact
  BY FST!FS_RemoveElement, LibraryFinite, LibraryCardinality DEF RemoveFact
<1>3. SubsetFact
  BY FST!FS_Subset, LibraryFinite, LibraryCardinality DEF SubsetFact
<1>4. NumberFact /\ EmptyFact
  BY FST!FS_EmptySet, FST!FS_CardinalityType, LibraryFinite, LibraryCardinality
     DEF EmptyFact, NumberFact
<1>5. LeastFact
  BY LeastNumber, Zenon DEF LeastFact
<1> QED
  BY <1>1, <1>2, <1>3, <1>4, <1>5, Zenon DEF Counting

(* Inode numbers and entries of itable.                                    *)
LEMMA Sizes ==
  /\ IsFiniteSet(Inums) /\ Cardinality(Inums) = NInodes
  /\ IsFiniteSet(Slots) /\ Cardinality(Slots) = NINODE
<1>1. NInodes \in Nat /\ NINODE \in Nat
  BY InodeAssumption DEF InodeAssumption
<1>2. \A n \in Nat : FST!IsFiniteSet(1 .. n) /\ FST!Cardinality(1 .. n) = n
  BY FST!FS_Interval
<1>3. \A n \in Nat : IsFiniteSet(1 .. n) /\ Cardinality(1 .. n) = n
  BY <1>2, LibraryFinite, LibraryCardinality, Zenon
<1> QED
  BY <1>1, <1>3, Zenon DEF Inums, Slots

(* As many marked blocks as inodes that have one.                          *)
LEMMA AsManyBlocks ==
  ASSUME NInv
  PROVE  Cardinality(dur.bitmap) = Cardinality(Used)
<1>1. /\ DurAddr \in [Used -> dur.bitmap] /\ Used \subseteq Inums
      /\ \A b \in dur.bitmap : \E i \in Used : DurAddr[i] = b
      /\ \A i, j \in Used : DurAddr[i] = DurAddr[j] => i = j
  BY BlocksOnDisk, Zenon
<1>2. IsFiniteSet(Used)
  BY <1>1, Sizes, CanCount, Zenon DEF Counting, SubsetFact
<1>3. FST!IsFiniteSet(Used)
  BY <1>2, LibraryFinite, Zenon
<1>4. DurAddr \in FST!Surjection(Used, dur.bitmap)
  BY <1>1, Zenon DEF FST!Surjection
<1>5. DurAddr \in FST!Injection(Used, dur.bitmap)
  <2>1. DOMAIN DurAddr = Used
    BY <1>1, Zenon
  <2> QED
    BY <1>1, <2>1, Zenon DEF FST!Injection, FST!IsInjective
<1>6. FST!Cardinality(dur.bitmap) = FST!Cardinality(Used)
  BY <1>3, <1>4, <1>5, FST!FS_Surjection, Zenon
<1> QED
  BY <1>6, LibraryCardinality, Zenon

(* An itable with an entry for every inode is never full, since no inode   *)
(* is in two entries.                                                      *)
LEMMA Fits ==
  ASSUME NInv, NInodes <= NINODE
  PROVE  Room
<1> SUFFICES ASSUME NEW i \in Inums, SlotFor(i) = None PROVE FALSE
  BY Zenon DEF Room
<1>1. /\ inum \in [Slots -> Inums \ {i}]
      /\ \A s, t \in Slots : inum[s] = inum[t] => s = t
  BY CanCount, TableFull, Zenon
<1>2. IsFiniteSet(Inums \ {i}) /\ Cardinality(Inums \ {i}) = NInodes - 1
  BY Sizes, CanCount, Zenon DEF Counting, RemoveFact
<1>3. Cardinality(Inums \ {i}) < Cardinality(Slots)
  BY <1>2, Sizes, InodeAssumption DEF InodeAssumption
<1>4. inum \in FST!Injection(Slots, Inums \ {i})
  <2>1. DOMAIN inum = Slots
    BY <1>1, Zenon
  <2> QED
    BY <1>1, <2>1, Zenon DEF FST!Injection, FST!IsInjective
<1>5. FST!Cardinality(Slots) <= FST!Cardinality(Inums \ {i})
  <2>1. FST!IsFiniteSet(Inums \ {i})
    BY <1>2, LibraryFinite, Zenon
  <2> QED
    BY <1>4, <2>1, FST!FS_Injection, Zenon
<1>6. Cardinality(Slots) <= Cardinality(Inums \ {i})
  BY <1>5, LibraryCardinality, Zenon
<1> QED
  BY <1>2, <1>3, <1>6, Sizes, InodeAssumption DEF InodeAssumption

(* The invariant holds in every reachable state, for any number of         *)
(* processes, names, inodes and blocks, as long as iget() finds an entry.  *)
THEOREM Invariance == Spec /\ []Room => []NInv
<1>1. Init => NInv
  BY CanCount, InitInv, Zenon
<1>2. NInv /\ Room /\ [Next]_vars => NInv'
  BY CanCount, NInvNext, Zenon
<1> QED
  BY <1>1, <1>2, PTL DEF Spec

(* iget() always finds an entry if itable is not smaller than the number   *)
(* of inodes.                                                              *)
THEOREM TableHasRoom ==
  ASSUME NInodes <= NINODE
  PROVE  Spec => []Room
<1>1. Init => NInv
  BY CanCount, InitInv, Zenon
<1>2. NInv => Room
  BY Fits, Zenon
<1>3. NInv /\ Room /\ [Next]_vars => NInv'
  BY CanCount, NInvNext, Zenon
<1> QED
  BY <1>1, <1>2, <1>3, PTL DEF Spec

(* No inode is freed on disk under a holder of a reference or given to     *)
(* another call by ialloc(), and none of the panics of ilock(), iput(),    *)
(* bfree() and sys_unlink() is reached.                                    *)
THEOREM InodesStayAllocated == Spec /\ []Room => []ReferencedIsAllocated
<1>1. NInv => ReferencedIsAllocated
  BY Zenon DEF NInv, TableInv, ReferencedIsAllocated
<1> QED
  BY <1>1, Invariance, PTL

(* The copy of an inode in itable is the dinode on disk whenever nobody    *)
(* has it locked, and no inode has two copies in use.                      *)
THEOREM CopiesMatchDisk == Spec /\ []Room => []MemoryMatchesDisk
<1>1. NInv => MemoryMatchesDisk
  BY Zenon DEF NInv, TableInv, MemoryMatchesDisk
<1> QED
  BY <1>1, Invariance, PTL

(* A crash at any time leaves a file system whose link counts, directory   *)
(* and bitmap agree, and ireclaim() frees what nobody can reach.           *)
THEOREM DiskStaysConsistent == Spec /\ []Room => []DiskConsistent
<1>1. ASSUME NInv PROVE DiskConsistent
  <2>1. DurInv /\ dur.dir \in [Names -> Inums \cup {None}]
    BY <1>1, Parts, Zenon DEF TypeOK
  <2>2. \A i \in dur.type : dur.ino[i].nlink = Cardinality({n \in Names : dur.dir[n] = i})
    <3>1. DOMAIN dur.dir = Names
      BY <2>1, Zenon
    <3> QED
      BY <2>1, <3>1, Zenon DEF DurInv, Count
  <2>3. \A n \in Names : dur.dir[n] \in dur.type \cup {None}
    BY <2>1, Zenon DEF DurInv
  <2>4. dur.bitmap = {dur.ino[i].addr : i \in Used} /\ Cardinality(dur.bitmap) = Cardinality(Used)
    BY <1>1, BlocksOnDisk, AsManyBlocks, Zenon
  <2>5. Quiet => \A i \in Inums : Orphan(i) =>
                   \E p \in Procs : file[p] # None /\ inum[file[p]] = i
    BY <1>1, CanCount, OrphansAreOpen, Zenon
  <2> QED
    BY <2>2, <2>3, <2>4, <2>5, Zenon DEF DiskConsistent, Used
<1>2. NInv => DiskConsistent
  BY <1>1, Zenon
<1> QED
  BY <1>2, Invariance, PTL
=============================================================================
