----------------------------- MODULE InodeSteps -----------------------------
(***************************************************************************)
(* Proofs about Inode, first part: what the invariant says of references,  *)
(* locks and links, the start and the end of a call, the steps that change *)
(* a link count or the directory, and iput().  Facts about finite sets are *)
(* a hypothesis, Counting, which InodeProofs takes from the library.       *)
(***************************************************************************)
EXTENDS InodeInv, TLAPS

(* Facts about finite sets and numbers, from the library.                  *)
AddFact ==
  \A S, x : IsFiniteSet(S) /\ x \notin S =>
    IsFiniteSet(S \cup {x}) /\ Cardinality(S \cup {x}) = Cardinality(S) + 1
RemoveFact ==
  \A S, x : IsFiniteSet(S) /\ x \in S =>
    IsFiniteSet(S \ {x}) /\ Cardinality(S \ {x}) = Cardinality(S) - 1
SubsetFact ==
  \A S, T : IsFiniteSet(T) /\ S \subseteq T =>
    IsFiniteSet(S) /\ Cardinality(S) <= Cardinality(T)
NumberFact == \A S : IsFiniteSet(S) => Cardinality(S) \in Nat
EmptyFact == IsFiniteSet({}) /\ Cardinality({}) = 0
LeastFact == \A S \in SUBSET Nat : S # {} => \E x \in S : \A y \in S : x <= y

Counting == /\ AddFact /\ RemoveFact /\ SubsetFact /\ NumberFact /\ EmptyFact /\ LeastFact

One(x, v) == IF x = v THEN 1 ELSE 0

(* f and g are the same but at p.                                          *)
Differ(S, f, g, p) ==
  /\ IsFiniteSet(S) /\ DOMAIN f = S /\ DOMAIN g = S /\ p \in S
  /\ \A x \in S \ {p} : g[x] = f[x]

(* One process that drops or takes a reference changes the count of an     *)
(* entry by one: ip->ref-- and ip->ref++.                                  *)
LEMMA Recount ==
  ASSUME Counting, NEW S, NEW f, NEW g, NEW p, Differ(S, f, g, p), NEW v
  PROVE  /\ Count(f, v) \in Nat /\ Count(g, v) \in Nat
         /\ Count(g, v) + One(f[p], v) = Count(f, v) + One(g[p], v)
<1> DEFINE F == {x \in S : f[x] = v}
           G == {x \in S : g[x] = v}
<1>1. Count(f, v) = Cardinality(F) /\ Count(g, v) = Cardinality(G)
  BY Zenon DEF Count, Differ
<1>2. IsFiniteSet(F) /\ IsFiniteSet(G)
  BY Zenon DEF Counting, SubsetFact, Differ
<1>3. Cardinality(F) \in Nat /\ Cardinality(G) \in Nat
  BY <1>2, Zenon DEF Counting, NumberFact
<1>4. CASE (f[p] = v) = (g[p] = v)
  <2>1. F = G
    BY <1>4, Zenon DEF Differ
  <2> QED
    BY <1>1, <1>3, <1>4, <2>1, Zenon DEF One
<1>5. CASE f[p] = v /\ g[p] # v
  <2>1. G = F \ {p} /\ p \in F
    BY <1>5 DEF Differ
  <2>2. Cardinality(G) = Cardinality(F) - 1
    BY <1>2, <2>1, Zenon DEF Counting, RemoveFact
  <2>3. One(f[p], v) = 1 /\ One(g[p], v) = 0
    BY <1>5, Zenon DEF One
  <2> QED
    BY ONLY <1>1, <1>3, <2>2, <2>3
<1>6. CASE f[p] # v /\ g[p] = v
  <2>1. G = F \cup {p} /\ p \notin F
    BY <1>6, Zenon DEF Differ
  <2>2. Cardinality(G) = Cardinality(F) + 1
    BY <1>2, <2>1, Zenon DEF Counting, AddFact
  <2>3. One(f[p], v) = 0 /\ One(g[p], v) = 1
    BY <1>6, Zenon DEF One
  <2> QED
    BY ONLY <1>1, <1>3, <2>2, <2>3
<1> QED
  BY <1>4, <1>5, <1>6, Zenon

Finite(S, f) == IsFiniteSet(S) /\ DOMAIN f = S

(* A count is a number; it is zero when nobody has a reference, and not    *)
(* zero when somebody has one.                                             *)
LEMMA Counted ==
  ASSUME Counting, NEW S, NEW f, Finite(S, f), NEW v
  PROVE  /\ Count(f, v) \in Nat
         /\ (\E x \in S : f[x] = v) <=> Count(f, v) # 0
<1> DEFINE F == {x \in S : f[x] = v}
<1>1. Count(f, v) = Cardinality(F)
  BY Zenon DEF Count, Finite
<1>2. IsFiniteSet(F) /\ Cardinality(F) \in Nat
  BY Zenon DEF Counting, SubsetFact, NumberFact, Finite
<1>3. F = {} => Cardinality(F) = 0
  BY Zenon DEF Counting, EmptyFact
<1>4. ASSUME NEW x \in F PROVE Cardinality(F) # 0
  <2>1. IsFiniteSet(F \ {x}) /\ Cardinality(F \ {x}) = Cardinality(F) - 1
    BY <1>2, Zenon DEF Counting, RemoveFact
  <2>2. Cardinality(F \ {x}) \in Nat
    BY <2>1, Zenon DEF Counting, NumberFact
  <2> QED
    BY ONLY <1>2, <2>1, <2>2
<1> QED
  BY <1>1, <1>2, <1>3, <1>4, Zenon

(* The count of an entry that two processes use is more than one.          *)
LEMMA CountedTwice ==
  ASSUME Counting, NEW S, NEW f, Finite(S, f), NEW v,
         NEW p \in S, NEW q \in S, p # q, f[p] = v, f[q] = v
  PROVE  Count(f, v) \in Nat /\ Count(f, v) > 1
<1> DEFINE F == {x \in S : f[x] = v}
           G == F \ {p}
<1>1. Count(f, v) = Cardinality(F)
  BY Zenon DEF Count, Finite
<1>2. IsFiniteSet(F) /\ Cardinality(F) \in Nat
  BY Zenon DEF Counting, SubsetFact, NumberFact, Finite
<1>3. IsFiniteSet(G) /\ Cardinality(G) = Cardinality(F) - 1
  BY <1>2, Zenon DEF Counting, RemoveFact
<1>4. IsFiniteSet(G \ {q}) /\ Cardinality(G \ {q}) = Cardinality(G) - 1
  BY <1>3, Zenon DEF Counting, RemoveFact
<1>5. Cardinality(G \ {q}) \in Nat
  BY <1>4, Zenon DEF Counting, NumberFact
<1> QED
  BY ONLY <1>1, <1>2, <1>3, <1>4, <1>5

-----------------------------------------------------------------------------
(* Types                                                                   *)

Typed == TypeOK /\ LocalOK

(* The parts of the type invariant.                                        *)
LEMMA Types ==
  ASSUME Typed
  PROVE  /\ cur.type \subseteq Inums /\ cur.bitmap \subseteq Blocks
         /\ cur.ino \in [Inums -> Dinode] /\ cur.dir \in [Names -> Inums \cup {None}]
         /\ inum \in [Slots -> Inums \cup {None}] /\ ref \in [Slots -> Nat]
         /\ valid \in [Slots -> BOOLEAN] /\ mem \in [Slots -> Dinode]
         /\ lock \in [Slots -> Procs \cup {NoProc}] /\ dlock \in Procs \cup {NoProc}
         /\ pc \in [Procs -> Labels] /\ boot \in 1 .. NInodes + 1
         /\ group \in 0 .. MaxGroup
  BY Zenon DEF Typed, TypeOK, Dinode

(* What each process has is an entry or None; a number is not an entry by  *)
(* accident, since None is none of them.                                   *)
LEMMA PartTypes ==
  ASSUME Typed
  PROVE  /\ IpRef \in [Procs -> Slots \cup {None}] /\ PutRef \in [Procs -> Slots \cup {None}]
         /\ LockOf \in [Procs -> Slots \cup {None}] /\ Owner \in [Procs -> Slots \cup {None}]
         /\ Lone \in [Procs -> Slots \cup {None}] /\ Emptied \in [Procs -> Slots \cup {None}]
         /\ Private \in [Procs -> Nat] /\ Adding \in [Procs -> Nat]
<1>1. /\ ip \in [Procs -> Slots \cup {None}] /\ put \in [Procs -> Slots \cup {None}]
      /\ num \in [Procs -> Nat]
  BY Zenon DEF Typed, LocalOK
<1>2. None \in Nat
  BY DEF None
<1> QED
  BY <1>1, <1>2, Zenon DEF IpRef, PutRef, LockOf, Owner, Lone, Emptied, Private, Adding

(* None is not an entry, an inode or a block.                              *)
LEMMA NoneIsNone == None \notin Slots /\ None \notin Inums /\ None \notin Blocks
  BY InodeAssumption DEF InodeAssumption, None, Slots, Inums

-----------------------------------------------------------------------------
(* References                                                              *)

Holds(p, s) == s \in {file[p], IpRef[p], PutRef[p]}

(* Domains, for counting.                                                  *)
LEMMA Countable ==
  ASSUME Typed
  PROVE  /\ Finite(Procs, file) /\ Finite(Procs, IpRef) /\ Finite(Procs, PutRef)
         /\ Finite(Procs, OwesTo) /\ Finite(Names, cur.dir)
<1>1. IsFiniteSet(Procs) /\ IsFiniteSet(Names)
  BY InodeAssumption, Zenon DEF InodeAssumption
<1>2. DOMAIN file = Procs /\ DOMAIN cur.dir = Names
  BY Types, Zenon DEF Typed, LocalOK
<1>3. DOMAIN IpRef = Procs /\ DOMAIN PutRef = Procs /\ DOMAIN OwesTo = Procs
  BY Zenon DEF IpRef, PutRef, OwesTo
<1> QED
  BY <1>1, <1>2, <1>3, Zenon DEF Finite

(* An entry that somebody holds has a reference.                           *)
LEMMA HeldHasRef ==
  ASSUME Counting, Typed, RefInv, NEW p \in Procs, NEW s \in Slots, Holds(p, s)
  PROVE  ref[s] \in Nat /\ ref[s] > 0
<1> DEFINE a == Count(file, s)
           b == Count(IpRef, s)
           c == Count(PutRef, s)
<1>1. a \in Nat /\ b \in Nat /\ c \in Nat
  BY Countable, Counted
<1>2. a # 0 \/ b # 0 \/ c # 0
  BY Countable, Counted DEF Holds
<1>3. ref[s] = a + b + c
  BY Zenon DEF RefInv
<1> QED
  BY ONLY <1>1, <1>2, <1>3

(* An entry with a reference is held by somebody.                          *)
LEMMA RefIsHeld ==
  ASSUME Counting, Typed, RefInv, NEW s \in Slots, ref[s] > 0
  PROVE  \E p \in Procs : Holds(p, s)
<1> DEFINE a == Count(file, s)
           b == Count(IpRef, s)
           c == Count(PutRef, s)
<1>1. a \in Nat /\ b \in Nat /\ c \in Nat
  BY Countable, Counted
<1>2. ref[s] = a + b + c
  BY Zenon DEF RefInv
<1>3. a # 0 \/ b # 0 \/ c # 0
  BY ONLY <1>1, <1>2, ref[s] > 0
<1> QED
  BY <1>3, Countable, Counted DEF Holds

(* The last reference is held once.                                        *)
LEMMA HeldOnce ==
  ASSUME Counting, Typed, RefInv, NEW p \in Procs, NEW s \in Slots, ref[s] = 1, Holds(p, s)
  PROVE  /\ \A q \in Procs : Holds(q, s) => q = p
         /\ IpRef[p] = s => file[p] # s /\ PutRef[p] # s
         /\ PutRef[p] = s => file[p] # s
<1> DEFINE a == Count(file, s)
           b == Count(IpRef, s)
           c == Count(PutRef, s)
<1>1. a \in Nat /\ b \in Nat /\ c \in Nat
  BY Countable, Counted
<1>2. ref[s] = a + b + c
  BY Zenon DEF RefInv
<1>3. /\ ~(a # 0 /\ b # 0) /\ ~(a # 0 /\ c # 0) /\ ~(b # 0 /\ c # 0)
      /\ ~(a > 1) /\ ~(b > 1) /\ ~(c > 1)
  BY ONLY <1>1, <1>2, ref[s] = 1
<1>4. \A q \in Procs : /\ file[q] = s => a # 0
                       /\ IpRef[q] = s => b # 0
                       /\ PutRef[q] = s => c # 0
  <2>1. \A q \in Procs : file[q] = s => a # 0
    BY Countable, Counted
  <2>2. \A q \in Procs : IpRef[q] = s => b # 0
    BY Countable, Counted
  <2>3. \A q \in Procs : PutRef[q] = s => c # 0
    BY Countable, Counted
  <2> QED
    BY <2>1, <2>2, <2>3, Zenon
<1>5. ASSUME NEW q \in Procs, q # p
      PROVE  /\ ~(file[q] = s /\ file[p] = s) /\ ~(IpRef[q] = s /\ IpRef[p] = s)
             /\ ~(PutRef[q] = s /\ PutRef[p] = s)
  BY <1>3, <1>5, Countable, CountedTwice, Zenon
<1> QED
  BY <1>3, <1>4, <1>5, Zenon DEF Holds

(* Who has the lock of an entry, or a link to make up for, or is the only  *)
(* one to use it, has a reference to it.                                   *)
LEMMA PartsHeld ==
  ASSUME Typed, ArgInv, NEW p \in Procs, NEW s \in Slots,
         s \in {LockOf[p], Owner[p], Lone[p], Emptied[p]}
  PROVE  Holds(p, s)
<1>1. s # None /\ ArgOK(p)
  BY NoneIsNone, Zenon DEF ArgInv
<1>2. IpRef[p] = (IF pc[p] \in IpLabels \/ Bad(p) THEN ip[p] ELSE None)
  BY Zenon DEF IpRef
<1>3. PutRef[p] = (IF pc[p] \in PutLabels THEN put[p] ELSE None)
  BY Zenon DEF PutRef
<1>4. CASE s = LockOf[p]
  <2>1. s = (IF pc[p] \in LockLabels THEN ip[p]
             ELSE IF pc[p] \in TruncLabels THEN put[p] ELSE None)
    BY <1>4, Zenon DEF LockOf
  <2> QED
    BY <1>1, <1>2, <1>3, <2>1
       DEF Holds, LockLabels, TruncLabels, WriteLabels, IpLabels, PutLabels, ArgOK
<1>5. CASE s = Owner[p]
  <2>1. s = (IF Owes(p) THEN ip[p] ELSE None)
    BY <1>5, Zenon DEF Owner
  <2> QED
    BY <1>1, <1>2, <2>1 DEF Holds, Owes, IpLabels
<1>6. CASE s = Lone[p]
  <2>1. s = (IF pc[p] \in NewLabels THEN ip[p]
             ELSE IF pc[p] \in LoneLabels THEN put[p] ELSE None)
    BY <1>6, Zenon DEF Lone
  <2> QED
    BY <1>1, <1>2, <1>3, <2>1
       DEF Holds, NewLabels, LoneLabels, TruncLabels, IpLabels, PutLabels
<1>7. CASE s = Emptied[p]
  <2>1. s = (IF pc[p] = "iupdate" THEN put[p] ELSE None)
    BY <1>7, Zenon DEF Emptied
  <2> QED
    BY <1>1, <1>3, <2>1 DEF Holds, PutLabels
<1> QED
  BY <1>4, <1>5, <1>6, <1>7, Zenon

-----------------------------------------------------------------------------
(* A step of one process                                                   *)

(* The other processes stay where they are.                                *)
Others(p) ==
  \A q \in Procs \ {p} :
    /\ pc'[q] = pc[q] /\ ret'[q] = ret[q] /\ arg'[q] = arg[q] /\ ip'[q] = ip[q]
    /\ put'[q] = put[q] /\ num'[q] = num[q] /\ file'[q] = file[q]

SameParts(q) ==
  /\ file'[q] = file[q] /\ IpRef'[q] = IpRef[q] /\ PutRef'[q] = PutRef[q]
  /\ LockOf'[q] = LockOf[q] /\ Owner'[q] = Owner[q] /\ Lone'[q] = Lone[q]
  /\ Emptied'[q] = Emptied[q] /\ Private'[q] = Private[q] /\ Adding'[q] = Adding[q]

(* ... and keep what they have.                                            *)
LEMMA Frame ==
  ASSUME NEW p \in Procs, Others(p)
  PROVE  \A q \in Procs \ {p} : SameParts(q) /\ Bad(q)' = Bad(q) /\ InDir(q)' = InDir(q)
<1> SUFFICES ASSUME NEW q \in Procs \ {p}
             PROVE  SameParts(q) /\ Bad(q)' = Bad(q) /\ InDir(q)' = InDir(q)
  BY Zenon
<1>1. /\ pc'[q] = pc[q] /\ ret'[q] = ret[q] /\ ip'[q] = ip[q]
      /\ put'[q] = put[q] /\ num'[q] = num[q] /\ file'[q] = file[q]
  BY Zenon DEF Others
<1>2. Bad(q)' = Bad(q) /\ InDir(q)' = InDir(q)
  BY <1>1, Zenon DEF Bad, InDir
<1>3. Owes(q)' = Owes(q)
  BY <1>1, <1>2, Zenon DEF Owes
<1>4. IpRef'[q] = IpRef[q]
  BY <1>1, <1>2, Zenon DEF IpRef
<1>5. PutRef'[q] = PutRef[q] /\ LockOf'[q] = LockOf[q]
  BY <1>1, Zenon DEF PutRef, LockOf
<1>6. Owner'[q] = Owner[q]
  BY <1>1, <1>3, Zenon DEF Owner
<1>7. Lone'[q] = Lone[q] /\ Emptied'[q] = Emptied[q]
  BY <1>1, Zenon DEF Lone, Emptied
<1>8. Private'[q] = Private[q] /\ Adding'[q] = Adding[q]
  BY <1>1, Zenon DEF Private, Adding
<1> QED
  BY <1>1, <1>2, <1>4, <1>5, <1>6, <1>7, <1>8, Zenon DEF SameParts

(* The references that p takes and drops are those that ref counts.        *)
Balanced(p) ==
  \A s \in Slots :
    ref'[s] + One(file[p], s) + One(IpRef[p], s) + One(PutRef[p], s)
      = ref[s] + One(file'[p], s) + One(IpRef'[p], s) + One(PutRef'[p], s)

(* ip->ref stays the number of references.                                 *)
LEMMA RefStep ==
  ASSUME Counting, Typed, Typed', RefInv, NEW p \in Procs, Others(p), Balanced(p)
  PROVE  RefInv'
<1> SUFFICES ASSUME NEW s \in Slots
             PROVE  ref'[s] = Count(file', s) + Count(IpRef', s) + Count(PutRef', s)
  BY Zenon DEF RefInv
<1>1. \A q \in Procs \ {p} : SameParts(q)
  BY Frame, Zenon
<1>2. /\ Finite(Procs, file) /\ Finite(Procs, IpRef) /\ Finite(Procs, PutRef)
      /\ Finite(Procs, file') /\ Finite(Procs, IpRef') /\ Finite(Procs, PutRef')
  <2>1. Finite(Procs, file)' /\ Finite(Procs, IpRef)' /\ Finite(Procs, PutRef)'
    BY Countable, PTL
  <2> QED
    BY Countable, <2>1, Zenon
<1>3. /\ Differ(Procs, file, file', p) /\ Differ(Procs, IpRef, IpRef', p)
      /\ Differ(Procs, PutRef, PutRef', p)
  BY <1>1, <1>2, Zenon DEF Differ, Finite, SameParts
<1>4. /\ Count(file, s) \in Nat /\ Count(file', s) \in Nat
      /\ Count(file', s) + One(file[p], s) = Count(file, s) + One(file'[p], s)
  BY <1>3, Recount
<1>5. /\ Count(IpRef, s) \in Nat /\ Count(IpRef', s) \in Nat
      /\ Count(IpRef', s) + One(IpRef[p], s) = Count(IpRef, s) + One(IpRef'[p], s)
  BY <1>3, Recount
<1>6. /\ Count(PutRef, s) \in Nat /\ Count(PutRef', s) \in Nat
      /\ Count(PutRef', s) + One(PutRef[p], s) = Count(PutRef, s) + One(PutRef'[p], s)
  BY <1>3, Recount
<1>7. ref[s] = Count(file, s) + Count(IpRef, s) + Count(PutRef, s)
  BY Zenon DEF RefInv
<1>8. ref'[s] + One(file[p], s) + One(IpRef[p], s) + One(PutRef[p], s)
        = ref[s] + One(file'[p], s) + One(IpRef'[p], s) + One(PutRef'[p], s)
  BY Zenon DEF Balanced
<1>9. ref'[s] \in Nat
  <2>1. ref' \in [Slots -> Nat]
    BY Zenon DEF Typed, TypeOK
  <2> QED
    BY <2>1, Zenon
<1>10. \A x, v : One(x, v) \in {0, 1}
  BY DEF One
<1> QED
  BY ONLY <1>4, <1>5, <1>6, <1>7, <1>8, <1>9, <1>10

(* What the others depend on: the inode in an entry with references, that  *)
(* an inode they have read stays valid, the inodes only they use, and the  *)
(* directory while they have its lock.                                     *)
KeepInum == \A s \in Slots : ref[s] > 0 => inum'[s] = inum[s]

DirSafe(p) ==
  \/ dlock' = dlock /\ cur'.dir = cur.dir
  \/ dlock \in {p, NoProc} /\ dlock' \in {p, NoProc}

Tame(p) ==
  /\ KeepInum /\ DirSafe(p)
  /\ \A q \in Procs \ {p} :
       /\ \A s \in Slots : valid[s] /\ Holds(q, s) /\ Lone[q] # s => valid'[s]
       /\ Lone[q] # None =>
            /\ ref'[Lone[q]] = ref[Lone[q]] /\ valid'[Lone[q]] = valid[Lone[q]]
            /\ cur'.ino[inum[Lone[q]]] = cur.ino[inum[Lone[q]]]
       /\ Private[q] # None =>
            /\ Private[q] \in cur'.type /\ cur'.ino[Private[q]] = cur.ino[Private[q]]
            /\ \A s \in Slots : ref'[s] > 0 => inum'[s] # Private[q]
            /\ Private'[p] # Private[q]

ProcOK(p) == ArgOK(p) /\ LoneOK(p) /\ PrivateOK(p) /\ ValidOK(p) /\ DirOK(p)

(* The parts of the invariant.                                             *)
LEMMA Parts ==
  ASSUME NInv
  PROVE  /\ Typed /\ TypeOK /\ LocalOK /\ RefInv /\ ArgInv /\ TableInv /\ LockInv /\ LinkInv
         /\ BlockInv /\ OrphanInv /\ DurInv /\ NoPanic
         /\ \A p \in Procs : ProcOK(p)
  BY Zenon DEF NInv, Typed, ArgInv, LoneInv, ValidInv, DirInv, ProcOK

(* What a process has in put, and in ip.                                   *)
LEMMA InPut ==
  ASSUME NEW p \in Procs, ArgOK(p), pc[p] \in PutLabels
  PROVE  put[p] \in Slots /\ PutRef[p] = put[p] /\ Holds(p, put[p])
  BY Zenon DEF ArgOK, PutRef, Holds
LEMMA InIp ==
  ASSUME NEW p \in Procs, ArgOK(p), pc[p] \in IpLabels \/ Bad(p)
  PROVE  ip[p] \in Slots /\ IpRef[p] = ip[p] /\ Holds(p, ip[p])
  BY Zenon DEF ArgOK, IpRef, Holds

(* A step that is tame for the others keeps their part of the invariant.   *)
LEMMA OthersOK ==
  ASSUME Counting, NInv, NEW p \in Procs, Others(p), Tame(p)
  PROVE  \A q \in Procs \ {p} : ProcOK(q)'
<1> SUFFICES ASSUME NEW q \in Procs \ {p}
             PROVE  ProcOK(q)'
  BY Zenon
<1>1. /\ pc'[q] = pc[q] /\ ret'[q] = ret[q] /\ ip'[q] = ip[q] /\ arg'[q] = arg[q]
      /\ put'[q] = put[q] /\ num'[q] = num[q] /\ file'[q] = file[q]
  BY Zenon DEF Others
<1>2. SameParts(q) /\ Bad(q)' = Bad(q) /\ InDir(q)' = InDir(q)
  BY Frame, Zenon
<1>3. ProcOK(q) /\ q \in Procs
  BY Parts, Zenon
<1>4. ASSUME NEW s \in Slots, Holds(q, s)
      PROVE  inum'[s] = inum[s]
  BY <1>4, HeldHasRef, Parts, Zenon DEF Tame, KeepInum
<1>5. ArgOK(q)'
  BY <1>1, <1>2, <1>3, Zenon DEF ProcOK, ArgOK
<1>6. Lone[q] # None => Lone[q] \in Slots /\ Holds(q, Lone[q])
  <2>1. Lone[q] \in Slots \cup {None}
    BY PartTypes, Parts, Zenon
  <2> QED
    BY <2>1, PartsHeld, Parts, Zenon
<1>7. Lone'[q] # None => ref'[Lone'[q]] = 1 /\ cur'.ino[inum'[Lone'[q]]].nlink = 0
  <2> SUFFICES ASSUME Lone[q] # None
               PROVE  ref'[Lone[q]] = 1 /\ cur'.ino[inum'[Lone[q]]].nlink = 0
    BY <1>2, Zenon DEF SameParts
  <2>1. inum'[Lone[q]] = inum[Lone[q]]
    BY <1>4, <1>6, Zenon
  <2>2. ref'[Lone[q]] = ref[Lone[q]] /\ cur'.ino[inum[Lone[q]]] = cur.ino[inum[Lone[q]]]
    BY Zenon DEF Tame
  <2>3. ref[Lone[q]] = 1 /\ cur.ino[inum[Lone[q]]].nlink = 0
    BY <1>3, Zenon DEF ProcOK, LoneOK
  <2> QED
    BY <2>1, <2>2, <2>3, Zenon
<1>8. pc'[q] = "unref" => cur'.ino[inum'[put'[q]]].addr = None
  <2> SUFFICES ASSUME pc[q] = "unref"
               PROVE  cur'.ino[inum'[put[q]]].addr = None
    BY <1>1, Zenon
  <2>1. pc[q] \in PutLabels /\ pc[q] \notin NewLabels /\ pc[q] \in LoneLabels
    BY DEF PutLabels, NewLabels, LoneLabels
  <2>2. put[q] \in Slots /\ Holds(q, put[q])
    BY <1>3, <2>1, InPut, Zenon DEF ProcOK
  <2>3. Lone[q] = put[q] /\ put[q] # None
    BY <2>1, <2>2, NoneIsNone, Zenon DEF Lone
  <2>4. cur'.ino[inum[put[q]]] = cur.ino[inum[put[q]]]
    BY <2>3, Zenon DEF Tame
  <2> QED
    BY <1>3, <1>4, <2>2, <2>4, Zenon DEF ProcOK, LoneOK
<1>9. PrivateOK(q)'
  <2> SUFFICES ASSUME Private[q] # None
               PROVE  /\ Private[q] \in cur'.type /\ cur'.ino[Private[q]] = Empty
                      /\ \A s \in Slots : ref'[s] > 0 => inum'[s] # Private[q]
                      /\ \A r \in Procs \ {q} : Private'[r] # Private[q]
    BY <1>2, Zenon DEF PrivateOK, SameParts
  <2>1. \A r \in Procs \ {q} : Private'[r] # Private[q]
    <3> SUFFICES ASSUME NEW r \in Procs \ {q}
                 PROVE  Private'[r] # Private[q]
      BY Zenon
    <3>1. CASE r = p
      BY <3>1, Zenon DEF Tame
    <3>2. CASE r # p
      BY <1>3, <3>2, Frame, Zenon DEF SameParts, ProcOK, PrivateOK
    <3> QED
      BY <3>1, <3>2, Zenon
  <2> QED
    BY <1>3, <2>1, Zenon DEF ProcOK, PrivateOK, Tame
<1>10. ASSUME NEW s \in Slots, s \in {LockOf[q], Owner[q], file[q]}
       PROVE  valid'[s]
  <2>1. Holds(q, s) /\ valid[s]
    BY <1>3, <1>10, PartsHeld, Parts, Zenon DEF ProcOK, ValidOK, Holds
  <2>2. Lone[q] = s => Lone[q] # None
    BY NoneIsNone, Zenon
  <2>3. /\ valid[s] /\ Holds(q, s) /\ Lone[q] # s => valid'[s]
        /\ Lone[q] # None => valid'[Lone[q]] = valid[Lone[q]]
    BY Zenon DEF Tame
  <2> QED
    BY <2>1, <2>2, <2>3, Zenon
<1>11. pc'[q] = "iput" => valid'[put'[q]] \/ Bad(q)'
  <2> SUFFICES ASSUME pc[q] = "iput", ~ Bad(q)
               PROVE  valid'[put[q]]
    BY <1>1, <1>2, Zenon
  <2>1. pc[q] \in PutLabels
    BY DEF PutLabels
  <2>2. put[q] \in Slots /\ Holds(q, put[q]) /\ valid[put[q]]
    BY <1>3, <2>1, InPut, Zenon DEF ProcOK, ValidOK
  <2>3. Lone[q] = put[q] => Lone[q] # None
    BY <2>2, NoneIsNone, Zenon
  <2> QED
    BY <2>2, <2>3, Zenon DEF Tame
<1>12. DirOK(q)'
  <2>1. q # NoProc
    BY InodeAssumption DEF InodeAssumption
  <2>2. dlock' = q <=> dlock = q
    BY <2>1, Zenon DEF Tame, DirSafe
  <2>3. dlock = q => cur'.dir = cur.dir
    BY <2>1, Zenon DEF Tame, DirSafe
  <2>4. pc[q] \in NewLabels \cup UnlinkLabels \cup {"ialloc"} \/ (pc[q] = "iput" /\ Bad(q)) => InDir(q)
    BY DEF InDir, Bad
  <2>5. pc[q] \in UnlinkLabels => inum'[ip[q]] = inum[ip[q]]
    <3>1. pc[q] \in UnlinkLabels => pc[q] \in IpLabels
      BY DEF UnlinkLabels, IpLabels
    <3> QED
      BY <1>3, <1>4, <3>1, InIp, Zenon DEF ProcOK
  <2>6. pc[q] = "iput" => inum'[put[q]] = inum[put[q]]
    <3>1. pc[q] = "iput" => pc[q] \in PutLabels
      BY DEF PutLabels
    <3> QED
      BY <1>3, <1>4, <3>1, InPut, Zenon DEF ProcOK
  <2> QED
    BY <1>1, <1>2, <1>3, <2>2, <2>3, <2>4, <2>5, <2>6, Zenon DEF ProcOK, DirOK
<1> QED
  BY <1>2, <1>5, <1>7, <1>8, <1>9, <1>10, <1>11, <1>12, Zenon
     DEF ProcOK, LoneOK, ValidOK, SameParts

-----------------------------------------------------------------------------
(* A step of p that changes only entries p has references to               *)

Touch(p, T) ==
  /\ T \subseteq Slots /\ (\A s \in T : Holds(p, s)) /\ inum' = inum
  /\ \A t \in Slots \ T : ref'[t] = ref[t] /\ valid'[t] = valid[t] /\ mem'[t] = mem[t]
  /\ \A s \in T : (valid[s] => valid'[s]) \/ ref[s] = 1
  /\ cur'.type = cur.type
  /\ \A j \in Inums : (\A s \in T : inum[s] # j) => cur'.ino[j] = cur.ino[j]
  /\ Private'[p] \in {None, Private[p]} \cup {inum[s] : s \in T}
  /\ DirSafe(p)

(* The entries of the others with the only reference are none of these.    *)
LEMMA TouchTame ==
  ASSUME Counting, NInv, NEW p \in Procs, NEW T, Touch(p, T)
  PROVE  Tame(p)
<1>1. ASSUME NEW s \in T
      PROVE  s \in Slots /\ Holds(p, s) /\ ref[s] > 0 /\ inum[s] \in cur.type
  <2>1. s \in Slots /\ Holds(p, s)
    BY Zenon DEF Touch
  <2>2. ref[s] > 0
    BY <2>1, HeldHasRef, Parts, Zenon
  <2> QED
    BY <2>1, <2>2, Parts, Zenon DEF TableInv
<1>2. KeepInum /\ DirSafe(p)
  BY Zenon DEF Touch, KeepInum
<1> SUFFICES ASSUME NEW q \in Procs \ {p}
             PROVE  /\ \A s \in Slots : valid[s] /\ Holds(q, s) /\ Lone[q] # s => valid'[s]
                    /\ Lone[q] # None =>
                         /\ ref'[Lone[q]] = ref[Lone[q]] /\ valid'[Lone[q]] = valid[Lone[q]]
                         /\ cur'.ino[inum[Lone[q]]] = cur.ino[inum[Lone[q]]]
                    /\ Private[q] # None =>
                         /\ Private[q] \in cur'.type /\ cur'.ino[Private[q]] = cur.ino[Private[q]]
                         /\ \A s \in Slots : ref'[s] > 0 => inum'[s] # Private[q]
                         /\ Private'[p] # Private[q]
  BY <1>2, Zenon DEF Tame
<1>3. ProcOK(q) /\ q \in Procs
  BY Parts, Zenon
<1>4. ASSUME NEW s \in Slots, valid[s], Holds(q, s)
      PROVE  valid'[s]
  <2>1. CASE s \in T
    <3>1. ref[s] # 1
      BY <1>1, <1>4, <2>1, HeldOnce, Parts, Zenon
    <3> QED
      BY <1>4, <2>1, <3>1, Zenon DEF Touch
  <2>2. CASE s \notin T
    BY <1>4, <2>2, Zenon DEF Touch
  <2> QED
    BY <2>1, <2>2, Zenon
<1>5. ASSUME NEW t \in Slots, Lone[q] = t
      PROVE  /\ ref'[t] = ref[t] /\ valid'[t] = valid[t]
             /\ cur'.ino[inum[t]] = cur.ino[inum[t]]
  <2>1. t # None /\ ref[t] = 1 /\ Holds(q, t)
    BY <1>3, <1>5, NoneIsNone, PartsHeld, Parts, Zenon DEF ProcOK, LoneOK
  <2>2. t \notin T
    BY <1>1, <2>1, HeldOnce, Parts, Zenon
  <2>3. ref[t] > 0
    BY <2>1
  <2>4. inum[t] \in cur.type /\ cur.type \subseteq Inums
    BY <2>3, Parts, Types, Zenon DEF TableInv
  <2>5. \A s \in T : inum[s] # inum[t]
    BY <1>1, <2>2, <2>3, Parts, Zenon DEF TableInv
  <2> QED
    BY <2>2, <2>4, <2>5, Zenon DEF Touch
<1>6. Lone[q] # None => Lone[q] \in Slots
  <2>1. Lone[q] \in Slots \cup {None}
    BY PartTypes, Parts, Zenon
  <2> QED
    BY <2>1, Zenon
<1>7. ASSUME Private[q] # None
      PROVE  /\ Private[q] \in cur'.type /\ cur'.ino[Private[q]] = cur.ino[Private[q]]
             /\ \A s \in Slots : ref'[s] > 0 => inum'[s] # Private[q]
             /\ Private'[p] # Private[q]
  <2>1. /\ Private[q] \in cur.type
        /\ \A s \in Slots : ref[s] > 0 => inum[s] # Private[q]
        /\ Private[p] # Private[q]
    BY <1>3, <1>7, Zenon DEF ProcOK, PrivateOK
  <2>2. Private[q] \in Inums
    BY <2>1, Types, Parts, Zenon
  <2>3. \A s \in T : inum[s] # Private[q]
    BY <1>1, <2>1, Zenon
  <2>4. Private'[p] # Private[q]
    BY <1>7, <2>1, <2>3, Zenon DEF Touch
  <2>5. \A s \in Slots : ref'[s] > 0 => inum'[s] # Private[q]
    BY <2>1, <2>3, Zenon DEF Touch
  <2> QED
    BY <2>1, <2>2, <2>3, <2>4, <2>5, Zenon DEF Touch
<1> QED
  BY <1>4, <1>5, <1>6, <1>7, Zenon

(* The table stays as it should be, if what p has changed is.              *)
LEMMA TouchTable ==
  ASSUME Counting, NInv, NEW p \in Procs, NEW T, Touch(p, T),
         \A s \in T : ref'[s] > 0 /\ valid'[s] => mem'[s] = cur'.ino[inum[s]]
  PROVE  TableInv'
<1>1. ASSUME NEW s \in T
      PROVE  s \in Slots /\ ref[s] > 0 /\ inum[s] \in cur.type
  <2>1. s \in Slots /\ Holds(p, s)
    BY Zenon DEF Touch
  <2>2. ref[s] > 0
    BY <2>1, HeldHasRef, Parts, Zenon
  <2> QED
    BY <2>1, <2>2, Parts, Zenon DEF TableInv
<1>2. ASSUME NEW t \in Slots, ref'[t] > 0
      PROVE  ref[t] > 0
  BY <1>1, <1>2, Zenon DEF Touch
<1>3. inum' = inum /\ cur'.type = cur.type
  BY Zenon DEF Touch
<1>4. /\ \A s \in Slots : ref'[s] > 0 => inum[s] \in cur.type
      /\ \A s, t \in Slots : (ref'[s] > 0 /\ ref'[t] > 0 /\ inum[s] = inum[t]) => s = t
  BY <1>2, Parts, Zenon DEF TableInv
<1>5. ASSUME NEW t \in Slots, ref'[t] > 0, valid'[t], t \notin T
      PROVE  mem'[t] = cur'.ino[inum[t]]
  <2>1. ref[t] > 0 /\ valid[t] /\ mem'[t] = mem[t]
    BY <1>2, <1>5, Zenon DEF Touch
  <2>2. \A s \in T : inum[s] # inum[t]
    BY <1>1, <1>5, <2>1, Parts, Zenon DEF TableInv
  <2>3. inum[t] \in cur.type /\ cur.type \subseteq Inums
    BY <2>1, Parts, Types, Zenon DEF TableInv
  <2>4. cur'.ino[inum[t]] = cur.ino[inum[t]]
    BY <2>2, <2>3, Zenon DEF Touch
  <2> QED
    BY <2>1, <2>4, Parts, Zenon DEF TableInv
<1> QED
  BY <1>3, <1>4, <1>5, Zenon DEF TableInv

(* No inode is left without links and without users, if none of those that *)
(* p has changed is.                                                       *)
LEMMA TouchOrphan ==
  ASSUME Counting, NInv, NEW p \in Procs, NEW T, Touch(p, T), Others(p), boot' = boot,
         Private[p] \in {None, Private'[p]},
         \A s \in T : ref'[s] > 0 \/ ~Orphan(inum[s])' \/ Private'[p] = inum[s]
  PROVE  OrphanInv'
<1> SUFFICES ASSUME NEW i \in Inums, Orphan(i)', i < boot'
             PROVE  \/ \E s \in Slots : ref'[s] > 0 /\ inum'[s] = i
                    \/ \E q \in Procs : Private'[q] = i
  BY Zenon DEF OrphanInv
<1>1. CASE \E s \in T : inum[s] = i
  <2>1. PICK s \in T : inum[s] = i
    BY <1>1, Zenon
  <2>2. s \in Slots /\ inum'[s] = i
    BY <2>1, Zenon DEF Touch
  <2> QED
    BY <2>1, <2>2, Zenon
<1>2. CASE \A s \in T : inum[s] # i
  <2>1. cur'.ino[i] = cur.ino[i] /\ cur'.type = cur.type /\ inum' = inum
    BY <1>2, Zenon DEF Touch
  <2>2. Orphan(i) /\ i < boot
    BY <2>1, Zenon DEF Orphan
  <2>3. CASE \E s \in Slots : ref[s] > 0 /\ inum[s] = i
    <3>1. PICK s \in Slots : ref[s] > 0 /\ inum[s] = i
      BY <2>3, Zenon
    <3>2. s \notin T
      BY <1>2, <3>1, Zenon
    <3>3. ref'[s] > 0 /\ inum'[s] = i
      BY <2>1, <3>1, <3>2, Zenon DEF Touch
    <3> QED
      BY <3>3, Zenon
  <2>4. CASE \E q \in Procs : Private[q] = i
    <3>1. PICK q \in Procs : Private[q] = i
      BY <2>4, Zenon
    <3>2. i # None
      BY NoneIsNone, Zenon
    <3>3. Private'[q] = i
      BY <3>1, <3>2, Frame, Zenon DEF SameParts
    <3> QED
      BY <3>3, Zenon
  <2> QED
    BY <2>2, <2>3, <2>4, Parts, Zenon DEF OrphanInv
<1> QED
  BY <1>1, <1>2, Zenon

-----------------------------------------------------------------------------
(* Locks                                                                   *)

(* The step takes no lock and releases none.                               *)
LEMMA LockKept ==
  ASSUME NInv, NEW p \in Procs, Others(p), lock' = lock, LockOf'[p] = LockOf[p]
  PROVE  LockInv'
<1>1. \A q \in Procs : LockOf'[q] = LockOf[q]
  BY Frame, Zenon DEF SameParts
<1> QED
  BY <1>1, Parts, Zenon DEF LockInv

(* acquiresleep(): the lock was free, and p had none.                      *)
LEMMA LockTaken ==
  ASSUME NInv, NEW p \in Procs, Others(p), NEW s \in Slots, lock[s] = NoProc,
         lock' = [lock EXCEPT ![s] = p], LockOf[p] = None, LockOf'[p] = s
  PROVE  LockInv'
<1>1. \A q \in Procs \ {p} : LockOf'[q] = LockOf[q]
  BY Frame, Zenon DEF SameParts
<1>2. lock'[s] = p /\ \A t \in Slots \ {s} : lock'[t] = lock[t]
  BY Types, Parts, Zenon
<1>3. \A q \in Procs : q # NoProc
  BY InodeAssumption DEF InodeAssumption
<1>4. \A q \in Procs, t \in Slots : LockOf[q] = t <=> lock[t] = q
  BY Parts, Zenon DEF LockInv
<1>5. ASSUME NEW q \in Procs, NEW t \in Slots
      PROVE  LockOf'[q] = t <=> lock'[t] = q
  <2>1. CASE t = s
    BY ONLY <1>1, <1>2, <1>3, <1>4, <2>1, LockOf'[p] = s, lock[s] = NoProc
  <2>2. CASE t # s
    BY ONLY <1>1, <1>2, <1>4, <2>2, NoneIsNone, LockOf'[p] = s, LockOf[p] = None
  <2> QED
    BY <2>1, <2>2, Zenon
<1> QED
  BY <1>5, Zenon DEF LockInv

(* releasesleep() of the lock that p had.                                  *)
LEMMA LockDropped ==
  ASSUME NInv, NEW p \in Procs, Others(p), NEW s \in Slots, LockOf[p] = s,
         lock' = [lock EXCEPT ![s] = NoProc], LockOf'[p] = None
  PROVE  LockInv'
<1>1. \A q \in Procs \ {p} : LockOf'[q] = LockOf[q]
  BY Frame, Zenon DEF SameParts
<1>2. lock'[s] = NoProc /\ \A t \in Slots \ {s} : lock'[t] = lock[t]
  BY Types, Parts, Zenon
<1>3. \A q \in Procs : q # NoProc
  BY InodeAssumption DEF InodeAssumption
<1>4. \A q \in Procs, t \in Slots : LockOf[q] = t <=> lock[t] = q
  BY Parts, Zenon DEF LockInv
<1>5. ASSUME NEW q \in Procs, NEW t \in Slots
      PROVE  LockOf'[q] = t <=> lock'[t] = q
  <2>1. CASE t = s
    BY ONLY <1>1, <1>2, <1>3, <1>4, <2>1, NoneIsNone, LockOf'[p] = None, LockOf[p] = s
  <2>2. CASE t # s
    BY ONLY <1>1, <1>2, <1>4, <2>2, NoneIsNone, LockOf'[p] = None, LockOf[p] = s
  <2> QED
    BY <2>1, <2>2, Zenon
<1> QED
  BY <1>5, Zenon DEF LockInv

-----------------------------------------------------------------------------
(* Links                                                                   *)

(* The inodes that the others owe a link for stay the same.                *)
LEMMA OwesFrame ==
  ASSUME Counting, NInv, NEW p \in Procs, Others(p), KeepInum
  PROVE  \A q \in Procs \ {p} : OwesTo'[q] = OwesTo[q]
<1> SUFFICES ASSUME NEW q \in Procs \ {p}
             PROVE  OwesTo'[q] = OwesTo[q]
  BY Zenon
<1>1. Owner'[q] = Owner[q] /\ q \in Procs
  BY Frame, Zenon DEF SameParts
<1>2. Owner[q] \in Slots \cup {None}
  BY PartTypes, Parts, Zenon
<1>3. ASSUME Owner[q] # None PROVE inum'[Owner[q]] = inum[Owner[q]]
  <2>1. Owner[q] \in Slots
    BY <1>2, <1>3, Zenon
  <2>2. Holds(q, Owner[q])
    BY <2>1, PartsHeld, Parts, Zenon
  <2> QED
    BY <2>1, <2>2, HeldHasRef, Parts, Zenon DEF KeepInum
<1> QED
  BY <1>1, <1>3, Zenon DEF OwesTo

(* The calls that owe a link are counted before and after the step.        *)
LEMMA OwesCount ==
  ASSUME Counting, NInv, NEW p \in Procs, Others(p), KeepInum, NEW i
  PROVE  /\ Count(OwesTo, i) \in Nat /\ Count(OwesTo', i) \in Nat
         /\ Count(OwesTo', i) + One(OwesTo[p], i) = Count(OwesTo, i) + One(OwesTo'[p], i)
<1>1. \A q \in Procs \ {p} : OwesTo'[q] = OwesTo[q]
  BY OwesFrame, Zenon
<1>2. IsFiniteSet(Procs) /\ DOMAIN OwesTo = Procs /\ DOMAIN OwesTo' = Procs
  BY InodeAssumption, Zenon DEF OwesTo, InodeAssumption
<1>3. Differ(Procs, OwesTo, OwesTo', p)
  BY <1>1, <1>2, Zenon DEF Differ
<1> QED
  BY <1>3, Recount

(* The count changes with what the call owes, and the directory does not.  *)
Even(p) ==
  \A i \in cur.type :
    cur'.ino[i].nlink + One(OwesTo[p], i) = cur.ino[i].nlink + One(OwesTo'[p], i)

LEMMA LinkSame ==
  ASSUME Counting, NInv, Typed', NEW p \in Procs, Others(p), KeepInum,
         cur'.type = cur.type, cur'.dir = cur.dir, Even(p)
  PROVE  LinkInv'
<1>1. \A n \in Names : cur'.dir[n] \in cur'.type \cup {None}
  BY Parts, Zenon DEF LinkInv
<1>2. ASSUME NEW i \in cur.type
      PROVE  cur'.ino[i].nlink = Count(cur'.dir, i) + Count(OwesTo', i)
  <2>1. cur.ino[i].nlink = Count(cur.dir, i) + Count(OwesTo, i)
    BY Parts, Zenon DEF LinkInv
  <2>2. Count(cur.dir, i) \in Nat
    BY Countable, Counted, Parts
  <2>3. /\ Count(OwesTo, i) \in Nat /\ Count(OwesTo', i) \in Nat
        /\ Count(OwesTo', i) + One(OwesTo[p], i) = Count(OwesTo, i) + One(OwesTo'[p], i)
    BY OwesCount, Zenon
  <2>4. cur'.ino[i].nlink \in Nat
    <3>1. cur' \in Disk /\ i \in Inums
      BY Types, Parts, Zenon DEF Typed, LocalOK
    <3> QED
      BY <3>1 DEF Disk, Dinode
  <2>5. \A x, v : One(x, v) \in {0, 1}
    BY DEF One
  <2>6. cur'.ino[i].nlink + One(OwesTo[p], i) = cur.ino[i].nlink + One(OwesTo'[p], i)
    BY Zenon DEF Even
  <2>7. cur'.ino[i].nlink = Count(cur.dir, i) + Count(OwesTo', i)
    BY ONLY <2>1, <2>2, <2>3, <2>4, <2>5, <2>6
  <2> QED
    BY <2>7, Zenon
<1> QED
  BY <1>1, <1>2, Zenon DEF LinkInv

(* One entry of the directory changes too.                                 *)
EvenAt(p, n) ==
  /\ Differ(Names, cur.dir, cur'.dir, n) /\ cur'.dir[n] \in cur.type \cup {None}
  /\ \A i \in cur.type :
       cur'.ino[i].nlink + One(OwesTo[p], i) + One(cur.dir[n], i)
         = cur.ino[i].nlink + One(OwesTo'[p], i) + One(cur'.dir[n], i)

LEMMA LinkChanged ==
  ASSUME Counting, NInv, Typed', NEW p \in Procs, Others(p), KeepInum,
         cur'.type = cur.type, NEW n \in Names, EvenAt(p, n)
  PROVE  LinkInv'
<1>1. \A m \in Names : cur'.dir[m] \in cur'.type \cup {None}
  <2>1. \A m \in Names \ {n} : cur'.dir[m] = cur.dir[m]
    BY Zenon DEF EvenAt, Differ
  <2> QED
    BY <2>1, Parts, Zenon DEF LinkInv, EvenAt
<1>2. ASSUME NEW i \in cur.type
      PROVE  cur'.ino[i].nlink = Count(cur'.dir, i) + Count(OwesTo', i)
  <2>1. cur.ino[i].nlink = Count(cur.dir, i) + Count(OwesTo, i)
    BY Parts, Zenon DEF LinkInv
  <2>2. /\ Count(cur.dir, i) \in Nat /\ Count(cur'.dir, i) \in Nat
        /\ Count(cur'.dir, i) + One(cur.dir[n], i) = Count(cur.dir, i) + One(cur'.dir[n], i)
    <3>1. Differ(Names, cur.dir, cur'.dir, n)
      BY Zenon DEF EvenAt
    <3> QED
      BY <3>1, Recount
  <2>3. /\ Count(OwesTo, i) \in Nat /\ Count(OwesTo', i) \in Nat
        /\ Count(OwesTo', i) + One(OwesTo[p], i) = Count(OwesTo, i) + One(OwesTo'[p], i)
    BY OwesCount, Zenon
  <2>4. cur'.ino[i].nlink \in Nat
    <3>1. cur' \in Disk /\ i \in Inums
      BY Types, Parts, Zenon DEF Typed, LocalOK
    <3> QED
      BY <3>1 DEF Disk, Dinode
  <2>5. \A x, v : One(x, v) \in {0, 1}
    BY DEF One
  <2>6. cur'.ino[i].nlink + One(OwesTo[p], i) + One(cur.dir[n], i)
          = cur.ino[i].nlink + One(OwesTo'[p], i) + One(cur'.dir[n], i)
    BY Zenon DEF EvenAt
  <2> QED
    BY ONLY <2>1, <2>2, <2>3, <2>4, <2>5, <2>6
<1> QED
  BY <1>1, <1>2, Zenon DEF LinkInv

(* An inode that the directory names, or that a call owes a link for, has  *)
(* a link.                                                                 *)
LEMMA HasLink ==
  ASSUME Counting, NInv, NEW i \in cur.type,
         \/ \E n \in Names : cur.dir[n] = i
         \/ \E p \in Procs : OwesTo[p] = i
  PROVE  cur.ino[i].nlink \in Nat /\ cur.ino[i].nlink > 0
<1>1. cur.ino[i].nlink = Count(cur.dir, i) + Count(OwesTo, i)
  BY Parts, Zenon DEF LinkInv
<1>2. Count(cur.dir, i) \in Nat /\ Count(OwesTo, i) \in Nat
  BY Countable, Counted, Parts
<1>3. Count(cur.dir, i) # 0 \/ Count(OwesTo, i) # 0
  BY Countable, Counted, Parts
<1> QED
  BY ONLY <1>1, <1>2, <1>3

-----------------------------------------------------------------------------
(* Blocks                                                                  *)

(* An inode is live as long as nobody is about to write its empty dinode.  *)
LEMMA LiveFrame ==
  ASSUME Counting, NInv, NEW p \in Procs, Others(p), KeepInum, NEW q \in Procs \ {p}
  PROVE  /\ Emptied'[q] = Emptied[q] /\ Adding'[q] = Adding[q]
         /\ Emptied[q] # None => inum'[Emptied[q]] = inum[Emptied[q]]
         /\ pc'[q] = "wrote" <=> pc[q] = "wrote"
         /\ pc[q] = "wrote" => num'[q] = num[q] /\ ip'[q] = ip[q] /\ inum'[ip[q]] = inum[ip[q]]
<1>1. q \in Procs /\ SameParts(q) /\ pc'[q] = pc[q] /\ num'[q] = num[q] /\ ip'[q] = ip[q]
  BY Frame, Zenon DEF Others
<1>2. ASSUME Emptied[q] # None PROVE inum'[Emptied[q]] = inum[Emptied[q]]
  <2>1. Emptied[q] \in Slots
    BY <1>1, <1>2, PartTypes, Parts, Zenon
  <2>2. Holds(q, Emptied[q])
    BY <1>1, <2>1, PartsHeld, Parts, Zenon
  <2> QED
    BY <1>1, <2>1, <2>2, HeldHasRef, Parts, Zenon DEF KeepInum
<1>3. ASSUME pc[q] = "wrote" PROVE inum'[ip[q]] = inum[ip[q]]
  <2>1. ip[q] \in Slots /\ ip[q] = file[q]
    BY <1>1, <1>3, Parts DEF ProcOK, ArgOK, WriteLabels
  <2>2. Holds(q, ip[q])
    BY <2>1, Zenon DEF Holds
  <2> QED
    BY <1>1, <2>1, <2>2, HeldHasRef, Parts, Zenon DEF KeepInum
<1> QED
  BY <1>1, <1>2, <1>3, Zenon DEF SameParts

(* A step that changes no block address and no bit of the bitmap.          *)
SameBlocks(p) ==
  /\ cur'.type = cur.type /\ cur'.bitmap = cur.bitmap
  /\ \A i \in Inums : cur'.ino[i].addr = cur.ino[i].addr
  /\ {pc[p], pc'[p]} \cap {"iupdate", "wrote"} = {}

LEMMA BlockSame ==
  ASSUME Counting, NInv, NEW p \in Procs, Others(p), KeepInum, SameBlocks(p)
  PROVE  BlockInv'
<1>1. /\ Emptied[p] = None /\ Emptied'[p] = None /\ Adding[p] = None /\ Adding'[p] = None
      /\ pc[p] # "wrote" /\ pc'[p] # "wrote"
  BY Zenon DEF SameBlocks, Emptied, Adding
<1>2. \A q \in Procs : Adding'[q] = Adding[q] /\ (pc'[q] = "wrote" <=> pc[q] = "wrote")
  BY <1>1, LiveFrame, Zenon
<1>3. ASSUME NEW q \in Procs, pc[q] = "wrote"
      PROVE  num'[q] = num[q] /\ ip'[q] = ip[q] /\ inum'[ip[q]] = inum[ip[q]]
  BY <1>1, <1>3, LiveFrame, Zenon
<1>4. ASSUME NEW i PROVE Live(i)' <=> Live(i)
  <2>1. \A q \in Procs : (Emptied'[q] # None => inum'[Emptied'[q]] # i)
                           <=> (Emptied[q] # None => inum[Emptied[q]] # i)
    <3> SUFFICES ASSUME NEW q \in Procs
                 PROVE  (Emptied'[q] # None => inum'[Emptied'[q]] # i)
                          <=> (Emptied[q] # None => inum[Emptied[q]] # i)
      BY Zenon
    <3>1. CASE q = p
      BY <1>1, <3>1, Zenon
    <3>2. CASE q # p
      BY <3>2, LiveFrame, Zenon
    <3> QED
      BY <3>1, <3>2, Zenon
  <2>2. cur'.type = cur.type
    BY Zenon DEF SameBlocks
  <2> QED
    BY <2>1, <2>2, Zenon DEF Live
<1>5. /\ cur'.bitmap = cur.bitmap
      /\ \A i \in Inums : cur'.ino[i].addr = cur.ino[i].addr
  BY Zenon DEF SameBlocks
<1>6. BlockInv
  BY Parts, Zenon
<1>7. \A i, j \in Inums :
        (Live(i)' /\ Live(j)' /\ cur'.ino[i].addr = cur'.ino[j].addr /\ cur'.ino[i].addr # None) => i = j
  BY <1>4, <1>5, <1>6, Zenon DEF BlockInv
<1>8. \A i \in Inums : Live(i)' => cur'.ino[i].addr \in cur'.bitmap \cup {None}
  BY <1>4, <1>5, <1>6, Zenon DEF BlockInv
<1>9. ASSUME NEW q \in Procs, pc'[q] = "wrote"
      PROVE  \/ cur'.ino[inum'[ip'[q]]].addr = num'[q]
             \/ /\ cur'.ino[inum'[ip'[q]]].addr = None /\ num'[q] \in cur'.bitmap
                /\ \A i \in Inums : Live(i)' => cur'.ino[i].addr # num'[q]
  <2>1. pc[q] = "wrote" /\ num'[q] = num[q] /\ ip'[q] = ip[q] /\ inum'[ip[q]] = inum[ip[q]]
    BY <1>2, <1>3, <1>9, Zenon
  <2>2. inum[ip[q]] \in Inums
    <3>1. ip[q] \in Slots /\ ip[q] = file[q]
      BY <2>1, Parts DEF ProcOK, ArgOK, WriteLabels
    <3>2. ref[ip[q]] > 0
      BY <3>1, HeldHasRef, Parts, Zenon DEF Holds
    <3> QED
      BY <3>1, <3>2, Parts, Types, Zenon DEF TableInv
  <2>3. cur'.ino[inum'[ip'[q]]].addr = cur.ino[inum[ip[q]]].addr
    BY <1>5, <2>1, <2>2, Zenon
  <2>4. \/ cur.ino[inum[ip[q]]].addr = num[q]
        \/ /\ cur.ino[inum[ip[q]]].addr = None /\ num[q] \in cur.bitmap
           /\ \A i \in Inums : Live(i) => cur.ino[i].addr # num[q]
    BY <1>6, <2>1, Zenon DEF BlockInv
  <2> QED
    BY ONLY <1>4, <1>5, <2>1, <2>3, <2>4, Zenon
<1>10. \A q, r \in Procs : (Adding'[q] # None /\ Adding'[q] = Adding'[r]) => q = r
  <2>1. \A q, r \in Procs : (Adding[q] # None /\ Adding[q] = Adding[r]) => q = r
    BY <1>6, Zenon DEF BlockInv
  <2> QED
    BY ONLY <1>2, <2>1, Zenon
<1>11. \A b \in cur'.bitmap :
         \/ \E i \in Inums : Live(i)' /\ cur'.ino[i].addr = b
         \/ \E q \in Procs : Adding'[q] = b
  BY <1>2, <1>4, <1>5, <1>6, Zenon DEF BlockInv
<1> QED
  BY <1>7, <1>8, <1>9, <1>10, <1>11, Zenon DEF BlockInv

-----------------------------------------------------------------------------
(* What a process has at each label                                        *)

Has(p, i, u, l, o) ==
  IpRef[p] = i /\ PutRef[p] = u /\ LockOf[p] = l /\ Owner[p] = o
Alone(p, n, e, v, a) ==
  Lone[p] = n /\ Emptied[p] = e /\ Private[p] = v /\ Adding[p] = a

Plain == {"idle", "end", "open", "create", "link", "unlink", "write", "unlock_dir"}

BadIp(p) == IF Bad(p) THEN ip[p] ELSE None

HasRow(p) ==
  /\ pc[p] \in Plain \cup {"ialloc"} => Has(p, None, None, None, None)
  /\ pc[p] \in {"lock_open", "lock_link", "lock_unlink", "lock_orphan", "lock_new"}
       => Has(p, ip[p], None, None, None)
  /\ pc[p] \in {"opened", "linking", "unlinking", "orphan", "new"}
       => Has(p, ip[p], None, ip[p], None)
  /\ pc[p] \in {"link_dir", "lock_bad", "unlock_dir_bad"} => Has(p, ip[p], None, None, ip[p])
  /\ pc[p] \in {"undo", "erased"} => Has(p, ip[p], None, ip[p], ip[p])
  /\ pc[p] \in WriteLabels => Has(p, None, None, ip[p], None)
  /\ pc[p] \in {"iput", "unref"} => Has(p, BadIp(p), put[p], None, BadIp(p))
  /\ pc[p] \in TruncLabels => Has(p, BadIp(p), put[p], put[p], BadIp(p))
  /\ pc[p] = "ifree" => Has(p, BadIp(p), None, None, BadIp(p))

AloneRow(p) ==
  /\ pc[p] \notin NewLabels \cup LoneLabels \cup NumLabels \cup {"wrote"}
       => Alone(p, None, None, None, None)
  /\ pc[p] \in NewLabels => Alone(p, ip[p], None, None, None)
  /\ pc[p] \in {"itrunc", "unref"} => Alone(p, put[p], None, None, None)
  /\ pc[p] = "iupdate" => Alone(p, put[p], put[p], None, None)
  /\ pc[p] \in NumLabels => Alone(p, None, None, num[p], None)
  /\ pc[p] = "wrote" => Alone(p, None, None, None, num[p])

(* The lock of the directory.                                              *)
DirLabels == {"ialloc", "unlock_dir", "unlock_dir_bad"} \cup NewLabels \cup UnlinkLabels
DirRow(p) ==
  /\ pc[p] \in Putting => (InDir(p) <=> ret[p] # "end")
  /\ pc[p] \notin Putting => (InDir(p) <=> pc[p] \in DirLabels) /\ ~Bad(p)
  /\ pc[p] \in Putting => (Bad(p) <=> ret[p] = "unlock_dir_bad")

Rows(p) == HasRow(p) /\ AloneRow(p) /\ DirRow(p)

(* The references and the locks, label by label.                           *)
LEMMA HasAt == \A p \in Procs : HasRow(p)
<1> SUFFICES ASSUME NEW p \in Procs
             PROVE  HasRow(p)
  BY Zenon
<1> DEFINE i == pc[p] \in IpLabels
           u == pc[p] \in PutLabels
           l == pc[p] \in LockLabels
           t == pc[p] \in TruncLabels
           o == pc[p] \in {"link_dir", "unlock_dir_bad", "lock_bad", "undo", "erased"}
<1>1. IpRef[p] = IF i \/ Bad(p) THEN ip[p] ELSE None
  BY Zenon DEF IpRef
<1>2. PutRef[p] = IF u THEN put[p] ELSE None
  BY Zenon DEF PutRef
<1>3. LockOf[p] = IF l THEN ip[p] ELSE IF t THEN put[p] ELSE None
  BY Zenon DEF LockOf
<1>4. Owner[p] = IF o \/ Bad(p) THEN ip[p] ELSE None
  BY Zenon DEF Owner, Owes
<1>5. BadIp(p) = IF Bad(p) THEN ip[p] ELSE None
  BY Zenon DEF BadIp
<1>6. Bad(p) => pc[p] \in Putting
  BY Zenon DEF Bad
<1>7. ASSUME pc[p] \in Plain \cup {"ialloc"}
      PROVE  Has(p, None, None, None, None)
  <2>1. ~i /\ ~u /\ ~l /\ ~t /\ ~o /\ ~Bad(p)
    BY <1>6, <1>7 DEF Plain, IpLabels, PutLabels, LockLabels, WriteLabels, TruncLabels, Putting
  <2> HIDE DEF i, u, l, t, o
  <2> QED
    BY <1>1, <1>2, <1>3, <1>4, <1>5, <2>1, Zenon DEF Has
<1>8. ASSUME pc[p] \in {"lock_open", "lock_link", "lock_unlink", "lock_orphan", "lock_new"}
      PROVE  Has(p, ip[p], None, None, None)
  <2>1. i /\ ~u /\ ~l /\ ~t /\ ~o /\ ~Bad(p)
    BY <1>6, <1>8 DEF IpLabels, PutLabels, LockLabels, WriteLabels, TruncLabels, Putting
  <2> HIDE DEF i, u, l, t, o
  <2> QED
    BY <1>1, <1>2, <1>3, <1>4, <1>5, <2>1, Zenon DEF Has
<1>9. ASSUME pc[p] \in {"opened", "linking", "unlinking", "orphan", "new"}
      PROVE  Has(p, ip[p], None, ip[p], None)
  <2>1. i /\ ~u /\ l /\ ~o /\ ~Bad(p)
    BY <1>6, <1>9 DEF IpLabels, PutLabels, LockLabels, WriteLabels, TruncLabels, Putting
  <2> HIDE DEF i, u, l, t, o
  <2> QED
    BY <1>1, <1>2, <1>3, <1>4, <1>5, <2>1, Zenon DEF Has
<1>10. ASSUME pc[p] \in {"link_dir", "lock_bad", "unlock_dir_bad"}
      PROVE  Has(p, ip[p], None, None, ip[p])
  <2>1. i /\ ~u /\ ~l /\ ~t /\ o /\ ~Bad(p)
    BY <1>6, <1>10 DEF IpLabels, PutLabels, LockLabels, WriteLabels, TruncLabels, Putting
  <2> HIDE DEF i, u, l, t, o
  <2> QED
    BY <1>1, <1>2, <1>3, <1>4, <1>5, <2>1, Zenon DEF Has
<1>11. ASSUME pc[p] \in {"undo", "erased"}
      PROVE  Has(p, ip[p], None, ip[p], ip[p])
  <2>1. i /\ ~u /\ l /\ o /\ ~Bad(p)
    BY <1>6, <1>11 DEF IpLabels, PutLabels, LockLabels, WriteLabels, TruncLabels, Putting
  <2> HIDE DEF i, u, l, t, o
  <2> QED
    BY <1>1, <1>2, <1>3, <1>4, <1>5, <2>1, Zenon DEF Has
<1>12. ASSUME pc[p] \in WriteLabels
      PROVE  Has(p, None, None, ip[p], None)
  <2>1. ~i /\ ~u /\ l /\ ~o /\ ~Bad(p)
    BY <1>6, <1>12 DEF IpLabels, PutLabels, LockLabels, WriteLabels, TruncLabels, Putting
  <2> HIDE DEF i, u, l, t, o
  <2> QED
    BY <1>1, <1>2, <1>3, <1>4, <1>5, <2>1, Zenon DEF Has
<1>13. ASSUME pc[p] \in {"iput", "unref"}
      PROVE  Has(p, BadIp(p), put[p], None, BadIp(p))
  <2>1. ~i /\ u /\ ~l /\ ~t /\ ~o
    BY <1>6, <1>13 DEF IpLabels, PutLabels, LockLabels, WriteLabels, TruncLabels, Putting
  <2> HIDE DEF i, u, l, t, o
  <2> QED
    BY <1>1, <1>2, <1>3, <1>4, <1>5, <2>1 DEF Has
<1>14. ASSUME pc[p] \in TruncLabels
      PROVE  Has(p, BadIp(p), put[p], put[p], BadIp(p))
  <2>1. ~i /\ u /\ ~l /\ t /\ ~o
    BY <1>6, <1>14 DEF IpLabels, PutLabels, LockLabels, WriteLabels, TruncLabels, Putting
  <2> HIDE DEF i, u, l, t, o
  <2> QED
    BY <1>1, <1>2, <1>3, <1>4, <1>5, <2>1 DEF Has
<1>15. ASSUME pc[p] = "ifree"
      PROVE  Has(p, BadIp(p), None, None, BadIp(p))
  <2>1. ~i /\ ~u /\ ~l /\ ~t /\ ~o
    BY <1>6, <1>15 DEF IpLabels, PutLabels, LockLabels, WriteLabels, TruncLabels, Putting
  <2> HIDE DEF i, u, l, t, o
  <2> QED
    BY <1>1, <1>2, <1>3, <1>4, <1>5, <2>1 DEF Has
<1> QED
  BY <1>7, <1>8, <1>9, <1>10, <1>11, <1>12, <1>13, <1>14, <1>15, Zenon DEF HasRow

(* The inodes and blocks that only one process uses, label by label.       *)
LEMMA AloneAt == \A p \in Procs : AloneRow(p)
<1> SUFFICES ASSUME NEW p \in Procs
             PROVE  AloneRow(p)
  BY Zenon
<1>1. Lone[p] = IF pc[p] \in NewLabels THEN ip[p]
                ELSE IF pc[p] \in LoneLabels THEN put[p] ELSE None
  BY Zenon DEF Lone
<1>2. Emptied[p] = IF pc[p] = "iupdate" THEN put[p] ELSE None
  BY Zenon DEF Emptied
<1>3. Private[p] = IF pc[p] \in NumLabels THEN num[p] ELSE None
  BY Zenon DEF Private
<1>4. Adding[p] = IF pc[p] = "wrote" THEN num[p] ELSE None
  BY Zenon DEF Adding
<1> QED
  BY ONLY <1>1, <1>2, <1>3, <1>4
     DEF AloneRow, Alone, NewLabels, LoneLabels, TruncLabels, NumLabels

(* Who has the directory locked.                                           *)
LEMMA DirAt ==
  ASSUME Typed
  PROVE  \A p \in Procs : DirRow(p)
<1> SUFFICES ASSUME NEW p \in Procs
             PROVE  DirRow(p)
  BY Zenon
<1>1. ret[p] \in {"end", "unlock_dir", "unlock_dir_bad"}
  BY Zenon DEF Typed, LocalOK
<1> QED
  BY <1>1 DEF DirRow, InDir, Bad, DirLabels, NewLabels, UnlinkLabels, Putting, PutLabels

(* All of it, before and after a step.                                     *)
LEMMA RowsNow ==
  ASSUME Typed
  PROVE  \A p \in Procs : Rows(p)
  BY HasAt, AloneAt, DirAt, Zenon DEF Rows
LEMMA RowsNext ==
  ASSUME Typed'
  PROVE  \A p \in Procs : Rows(p)'
<1>1. (\A p \in Procs : Rows(p))'
  BY RowsNow, PTL
<1> QED
  BY <1>1, Zenon

-----------------------------------------------------------------------------
(* The invariant after a step, from its parts                              *)

(* The type of each variable.                                              *)
Shape ==
  /\ cur \in Disk /\ dur \in Disk
  /\ inum \in [Slots -> Inums \cup {None}] /\ ref \in [Slots -> Nat]
  /\ valid \in [Slots -> BOOLEAN] /\ mem \in [Slots -> Dinode]
  /\ lock \in [Slots -> Procs \cup {NoProc}] /\ dlock \in Procs \cup {NoProc}
  /\ file \in [Procs -> Slots \cup {None}] /\ ip \in [Procs -> Slots \cup {None}]
  /\ put \in [Procs -> Slots \cup {None}] /\ num \in [Procs -> Nat]
  /\ ret \in [Procs -> {"end", "unlock_dir", "unlock_dir_bad"}] /\ DOMAIN arg = Procs
  /\ pc \in [Procs -> Labels] /\ boot \in 1 .. NInodes + 1 /\ group \in 0 .. MaxGroup

(* It is what the type invariant says.                                     *)
LEMMA ShapeTyped == Shape <=> Typed
<1>1. ASSUME NEW d \in Disk
      PROVE  /\ d.type \subseteq Inums /\ d.bitmap \subseteq Blocks
             /\ d.ino \in [Inums -> Dinode] /\ d.dir \in [Names -> Inums \cup {None}]
  BY <1>1 DEF Disk
<1>2. Shape => Typed
  BY <1>1, Zenon DEF Shape, Typed, TypeOK, LocalOK, Dinode
<1>3. Typed => Shape
  BY Zenon DEF Shape, Typed, TypeOK, LocalOK, Dinode
<1> QED
  BY <1>2, <1>3, Zenon
LEMMA ShapeNext ==
  ASSUME Shape'
  PROVE  Typed'
  BY ShapeTyped, PTL

(* A step of p alone that changes entries p has references to.             *)
LEMMA TouchStep ==
  ASSUME Counting, NInv, Typed', NEW p \in Procs, Others(p), NEW T, Touch(p, T),
         Balanced(p), ProcOK(p)', LockInv', LinkInv', BlockInv',
         pc'[p] # "panic", boot' = boot, dur' = dur \/ DurInv', Private[p] \in {None, Private'[p]},
         \A s \in T : ref'[s] > 0 /\ valid'[s] => mem'[s] = cur'.ino[inum[s]],
         \A s \in T : ref'[s] > 0 \/ ~Orphan(inum[s])' \/ Private'[p] = inum[s]
  PROVE  NInv'
<1>1. Typed /\ RefInv /\ DurInv /\ NoPanic
  BY Parts, Zenon
<1>2. Tame(p)
  BY TouchTame, Zenon
<1>3. \A q \in Procs : ProcOK(q)'
  BY <1>2, OthersOK, Zenon
<1>4. ArgInv' /\ LoneInv' /\ ValidInv' /\ DirInv'
  BY <1>3, Zenon DEF ProcOK, ArgInv, LoneInv, ValidInv, DirInv
<1>5. RefInv'
  BY <1>1, RefStep, Zenon
<1>6. TableInv'
  BY TouchTable, Zenon
<1>7. OrphanInv'
  BY TouchOrphan, Zenon
<1>8. DurInv'
  BY <1>1, Zenon DEF DurInv
<1>9. NoPanic'
  BY <1>1, Zenon DEF NoPanic, Others
<1> QED
  BY <1>4, <1>5, <1>6, <1>7, <1>8, <1>9, Zenon DEF NInv, Typed

(* A step of p alone that leaves the disk and the entries alone, but for   *)
(* the locks.                                                              *)
Quietly(p) ==
  /\ UNCHANGED <<cur, inum, ref, valid, mem, boot>> /\ (dur' = dur \/ DurInv')
  /\ Owner'[p] = Owner[p] /\ Private'[p] = Private[p]
  /\ {pc[p], pc'[p]} \cap {"iupdate", "wrote"} = {} /\ pc'[p] # "panic"
  /\ DirSafe(p)

LEMMA QuietStep ==
  ASSUME Counting, NInv, Typed', NEW p \in Procs, Others(p), Quietly(p),
         Balanced(p), ProcOK(p)', LockInv'
  PROVE  NInv'
<1>1. /\ cur' = cur /\ (dur' = dur \/ DurInv') /\ inum' = inum /\ ref' = ref /\ valid' = valid /\ mem' = mem
      /\ boot' = boot /\ Owner'[p] = Owner[p] /\ Private'[p] = Private[p]
      /\ pc'[p] # "panic"
  BY Zenon DEF Quietly
<1>2. PICK T : T = {}
  BY Zenon
<1>3. Touch(p, T)
  BY <1>1, <1>2, Zenon DEF Touch, Quietly
<1>4. KeepInum
  BY <1>1, Zenon DEF KeepInum
<1>5. OwesTo'[p] = OwesTo[p]
  BY <1>1, Zenon DEF OwesTo
<1>6. LinkInv'
  <2>1. Even(p)
    BY <1>1, <1>5, Zenon DEF Even
  <2> QED
    BY <1>1, <1>4, <2>1, LinkSame, Zenon
<1>7. BlockInv'
  <2>1. SameBlocks(p)
    BY <1>1, Zenon DEF SameBlocks, Quietly
  <2> QED
    BY <1>4, <2>1, BlockSame, Zenon
<1>8. /\ \A s \in T : ref'[s] > 0 /\ valid'[s] => mem'[s] = cur'.ino[inum[s]]
      /\ \A s \in T : ref'[s] > 0 \/ ~Orphan(inum[s])' \/ Private'[p] = inum[s]
      /\ Private[p] \in {None, Private'[p]}
  BY <1>1, <1>2, Zenon
<1> QED
  BY <1>1, <1>3, <1>6, <1>7, <1>8, TouchStep, Zenon

(* The references of p do not change, and neither does ref.                *)
LEMMA SameBalance ==
  ASSUME NEW p \in Procs, ref' = ref, file'[p] = file[p], IpRef'[p] = IpRef[p],
         PutRef'[p] = PutRef[p]
  PROVE  Balanced(p)
  BY Zenon DEF Balanced

-----------------------------------------------------------------------------
(* Steps that go on with iput()                                            *)

(* The local variables of a process that goes on with iput(s).             *)
LEMMA PutLocals ==
  ASSUME Typed, NEW p \in Procs, NEW s \in Slots, NEW r \in {"end", "unlock_dir"},
         ThenPut(p, s, r), \A q \in Procs \ {p} : file'[q] = file[q]
  PROVE  /\ Others(p) /\ pc'[p] = "iput" /\ put'[p] = s /\ ret'[p] = r
         /\ pc' \in [Procs -> Labels] /\ ip' \in [Procs -> Slots \cup {None}]
         /\ put' \in [Procs -> Slots \cup {None}] /\ num' \in [Procs -> Nat]
         /\ ret' \in [Procs -> {"end", "unlock_dir", "unlock_dir_bad"}] /\ DOMAIN arg' = Procs
<1>1. /\ pc \in [Procs -> Labels] /\ ip \in [Procs -> Slots \cup {None}]
      /\ put \in [Procs -> Slots \cup {None}] /\ num \in [Procs -> Nat]
      /\ ret \in [Procs -> {"end", "unlock_dir", "unlock_dir_bad"}] /\ DOMAIN arg = Procs
  BY Zenon DEF Typed, TypeOK, LocalOK
<1>2. /\ pc' = [pc EXCEPT ![p] = "iput"] /\ ret' = [ret EXCEPT ![p] = r]
      /\ put' = [put EXCEPT ![p] = s]
  BY Zenon DEF ThenPut, Go
<1>3. /\ arg' = [arg EXCEPT ![p] = <<>>] \/ arg' = arg
      /\ ip' = [ip EXCEPT ![p] = None] \/ ip' = ip
      /\ num' = [num EXCEPT ![p] = None] \/ num' = num
  BY Zenon DEF ThenPut
<1>4. "iput" \in Labels /\ None \in Nat
  BY DEF Labels, None
<1>5. DOMAIN arg' = Procs /\ \A q \in Procs \ {p} : arg'[q] = arg[q]
  BY <1>1, <1>3
<1>6. \A q \in Procs \ {p} : /\ pc'[q] = pc[q] /\ ret'[q] = ret[q] /\ put'[q] = put[q]
                             /\ ip'[q] = ip[q] /\ num'[q] = num[q]
  BY <1>1, <1>2, <1>3, Zenon
<1>7. Others(p)
  BY <1>5, <1>6, Zenon DEF Others
<1>8. pc'[p] = "iput" /\ put'[p] = s /\ ret'[p] = r
  BY <1>1, <1>2, Zenon
<1>9. /\ pc' \in [Procs -> Labels] /\ put' \in [Procs -> Slots \cup {None}]
      /\ ret' \in [Procs -> {"end", "unlock_dir", "unlock_dir_bad"}]
  BY <1>1, <1>2, <1>4, Zenon
<1>10. ip' \in [Procs -> Slots \cup {None}] /\ num' \in [Procs -> Nat]
  BY <1>1, <1>3, <1>4, Zenon
<1> QED
  BY <1>5, <1>7, <1>8, <1>9, <1>10, Zenon

(* What it has then: the reference to drop, and the directory if the       *)
(* call goes on with it.                                                   *)
LEMMA PutNext ==
  ASSUME Typed', NEW p \in Procs, NEW s \in Slots, NEW r \in {"end", "unlock_dir"},
         pc'[p] = "iput", put'[p] = s, ret'[p] = r
  PROVE  /\ Has(p, None, s, None, None)' /\ Alone(p, None, None, None, None)'
         /\ (InDir(p)' <=> r = "unlock_dir") /\ ~Bad(p)' /\ ArgOK(p)'
<1>1. HasRow(p)' /\ AloneRow(p)' /\ DirRow(p)'
  BY RowsNext, Zenon DEF Rows
<1>2. /\ pc'[p] \in {"iput", "unref"} /\ pc'[p] \in Putting /\ pc'[p] \in PutLabels
      /\ pc'[p] \notin NewLabels \cup LoneLabels \cup NumLabels \cup {"wrote"}
      /\ pc'[p] \notin IpLabels /\ pc'[p] \notin WriteLabels \cup {"write"}
      /\ pc'[p] \notin NumLabels /\ pc'[p] \notin NameLabels /\ pc'[p] \notin TwoLabels
  BY DEF Putting, PutLabels, NewLabels, LoneLabels, NumLabels, TruncLabels, IpLabels,
         WriteLabels, NameLabels, TwoLabels, UnlinkLabels
<1>3. ~Bad(p)' /\ (InDir(p)' <=> r = "unlock_dir")
  <2>1. r # "unlock_dir_bad" /\ (r # "end" <=> r = "unlock_dir")
    OBVIOUS
  <2> QED
    BY <1>1, <1>2, <2>1, Zenon DEF DirRow
<1>4. BadIp(p)' = None
  BY <1>3, Zenon DEF BadIp
<1>5. Has(p, None, s, None, None)'
  BY <1>1, <1>2, <1>4, Zenon DEF HasRow, Has
<1>6. Alone(p, None, None, None, None)'
  BY <1>1, <1>2, Zenon DEF AloneRow
<1>7. ArgOK(p)'
  BY <1>2, <1>3, Zenon DEF ArgOK
<1> QED
  BY <1>3, <1>5, <1>6, <1>7, Zenon

(* A reference moves from ip or from file to put.                          *)
LEMMA MoveBalance ==
  ASSUME Typed, NEW p \in Procs, ref' = ref, NEW s,
         \/ file'[p] = file[p] /\ IpRef[p] = s /\ IpRef'[p] = None
         \/ file[p] = s /\ file'[p] = None /\ IpRef'[p] = IpRef[p],
         PutRef[p] = None, PutRef'[p] = s
  PROVE  Balanced(p)
<1> SUFFICES ASSUME NEW t \in Slots
             PROVE  ref'[t] + One(file[p], t) + One(IpRef[p], t) + One(PutRef[p], t)
                      = ref[t] + One(file'[p], t) + One(IpRef'[p], t) + One(PutRef'[p], t)
  BY Zenon DEF Balanced
<1>1. \A x, v : One(x, v) \in {0, 1}
  BY DEF One
<1>2. One(None, t) = 0
  BY NoneIsNone, Zenon DEF One
<1>3. /\ One(PutRef[p], t) = 0 /\ One(PutRef'[p], t) = One(s, t)
      /\ One(file[p], t) + One(IpRef[p], t) = One(s, t) + One(file'[p], t) + One(IpRef'[p], t)
  <2>1. CASE file'[p] = file[p] /\ IpRef[p] = s /\ IpRef'[p] = None
    BY <1>1, <1>2, <2>1
  <2>2. CASE file[p] = s /\ file'[p] = None /\ IpRef'[p] = IpRef[p]
    BY <1>1, <1>2, <2>2
  <2> QED
    BY <1>2, <2>1, <2>2, Zenon
<1>4. ref'[t] = ref[t] /\ ref[t] \in Nat
  BY Types, Zenon
<1> QED
  BY ONLY <1>1, <1>3, <1>4

(* A process that only goes on elsewhere.                                  *)
LEMMA GoLocals ==
  ASSUME Typed, NEW p \in Procs, NEW l \in Labels, Go(p, l), ret' = ret, arg' = arg,
         ip' = ip, put' = put, num' = num, \A q \in Procs \ {p} : file'[q] = file[q]
  PROVE  Others(p) /\ pc'[p] = l /\ pc' \in [Procs -> Labels]
<1>1. pc \in [Procs -> Labels] /\ pc' = [pc EXCEPT ![p] = l]
  BY Types, Zenon DEF Go
<1>2. pc'[p] = l /\ pc' \in [Procs -> Labels] /\ \A q \in Procs \ {p} : pc'[q] = pc[q]
  BY <1>1, Zenon
<1> QED
  BY <1>2, Zenon DEF Others

(* The entry that a process has locked is valid, and what is in memory is  *)
(* what is on disk.                                                        *)
LEMMA Locked ==
  ASSUME Counting, NInv, NEW p \in Procs, NEW s \in Slots, LockOf[p] = s
  PROVE  /\ valid[s] /\ ref[s] > 0 /\ inum[s] \in cur.type /\ inum[s] \in Inums
         /\ mem[s] = cur.ino[inum[s]] /\ Holds(p, s)
<1>1. ProcOK(p)
  BY Parts, Zenon
<1>2. valid[s]
  BY <1>1, Zenon DEF ProcOK, ValidOK
<1>3. Holds(p, s)
  BY PartsHeld, Parts, Zenon
<1>4. ref[s] > 0
  BY <1>3, HeldHasRef, Parts, Zenon
<1>5. inum[s] \in cur.type /\ mem[s] = cur.ino[inum[s]]
  BY <1>2, <1>4, Parts, Zenon DEF TableInv
<1>6. inum[s] \in Inums
  BY <1>5, Types, Parts, Zenon
<1> QED
  BY <1>2, <1>3, <1>4, <1>5, <1>6, Zenon

(* iunlockput(ip) at the end of a call, or before that of the directory.   *)
LEMMA UnlockPut ==
  ASSUME Counting, NInv, NEW p \in Procs, NEW r \in {"end", "unlock_dir"},
         \/ pc[p] \in {"opened", "linking", "orphan"} /\ r = "end"
         \/ pc[p] = "new" /\ r = "unlock_dir",
         UNCHANGED <<cur, dur, inum, ref, valid, mem, boot, dlock, file, group>>,
         Iunlock(p), ThenPut(p, ip[p], r)
  PROVE  NInv'
<1>0. PICK s : s = ip[p]
  BY Zenon
<1>1. /\ cur' = cur /\ dur' = dur /\ inum' = inum /\ ref' = ref /\ valid' = valid /\ mem' = mem
      /\ boot' = boot /\ dlock' = dlock /\ file' = file /\ group' = group
      /\ lock' = [lock EXCEPT ![s] = NoProc]
  BY <1>0, Zenon DEF Iunlock
<1>2. Typed /\ ProcOK(p) /\ Rows(p)
  BY Parts, RowsNow, Zenon
<1>3. /\ pc[p] \in {"opened", "linking", "unlinking", "orphan", "new"} /\ pc[p] \in IpLabels
      /\ pc[p] \notin Putting /\ pc[p] \notin LoneLabels \cup NumLabels \cup {"wrote"}
      /\ pc[p] \notin {"iupdate", "wrote"}
      /\ (pc[p] \in DirLabels <=> r = "unlock_dir")
  BY DEF IpLabels, Putting, PutLabels, LoneLabels, TruncLabels, NumLabels, DirLabels,
         NewLabels, UnlinkLabels
<1>4. s \in Slots
  BY <1>0, <1>2, <1>3, InIp, Zenon DEF ProcOK
<1>5. /\ Others(p) /\ pc'[p] = "iput" /\ put'[p] = s /\ ret'[p] = r
      /\ pc' \in [Procs -> Labels] /\ ip' \in [Procs -> Slots \cup {None}]
      /\ put' \in [Procs -> Slots \cup {None}] /\ num' \in [Procs -> Nat]
      /\ ret' \in [Procs -> {"end", "unlock_dir", "unlock_dir_bad"}] /\ DOMAIN arg' = Procs
  BY <1>0, <1>1, <1>2, <1>4, PutLocals, Zenon
<1>6. Typed'
  <2>1. Shape
    BY <1>2, ShapeTyped, Zenon
  <2>2. lock' \in [Slots -> Procs \cup {NoProc}]
    BY <1>1, <2>1, Zenon DEF Shape
  <2>3. Shape'
    BY <1>1, <1>5, <2>1, <2>2, Zenon DEF Shape
  <2> QED
    BY <2>3, ShapeNext, Zenon
<1>7. /\ Has(p, None, s, None, None)' /\ Alone(p, None, None, None, None)'
      /\ (InDir(p)' <=> r = "unlock_dir") /\ ~Bad(p)' /\ ArgOK(p)'
  BY <1>4, <1>5, <1>6, PutNext, Zenon
<1>8. Has(p, s, None, s, None) /\ (InDir(p) <=> r = "unlock_dir")
  BY <1>0, <1>2, <1>3, Zenon DEF Rows, HasRow, DirRow
<1>9. Private[p] = None
  BY <1>2, <1>3, Zenon DEF Rows, AloneRow, Alone
<1>10. valid[s] /\ s # None
  BY <1>4, <1>8, Locked, NoneIsNone, Zenon DEF Has
<1>11. Balanced(p)
  BY <1>1, <1>2, <1>7, <1>8, MoveBalance, Zenon DEF Has
<1>12. Quietly(p)
  <2>1. pc'[p] \notin {"iupdate", "wrote"} /\ pc'[p] # "panic"
    BY <1>5
  <2> QED
    BY <1>1, <1>3, <1>7, <1>8, <1>9, <2>1, Zenon DEF Quietly, Has, Alone, DirSafe
<1>13. LockInv'
  BY <1>1, <1>4, <1>5, <1>7, <1>8, LockDropped, Zenon DEF Has
<1>14. ProcOK(p)'
  <2>1. LoneOK(p)' /\ PrivateOK(p)'
    <3>1. pc'[p] # "unref"
      BY <1>5
    <3> QED
      BY <1>7, <3>1, Zenon DEF Alone, LoneOK, PrivateOK
  <2>2. ValidOK(p)'
    <3>1. \A t \in Slots : t = file[p] => valid[t]
      BY <1>2, Zenon DEF ProcOK, ValidOK
    <3> QED
      BY <1>1, <1>5, <1>7, <1>10, <3>1, NoneIsNone, Zenon DEF Has, ValidOK
  <2>3. DirOK(p)'
    <3>1. dlock = p <=> r = "unlock_dir"
      BY <1>2, <1>8, Zenon DEF ProcOK, DirOK
    <3>2. pc'[p] \notin NewLabels \cup {"ialloc"} /\ pc'[p] \notin UnlinkLabels
      BY <1>5 DEF NewLabels, UnlinkLabels
    <3> QED
      BY <1>1, <1>7, <3>1, <3>2, Zenon DEF DirOK
  <2> QED
    BY <1>7, <2>1, <2>2, <2>3, Zenon DEF ProcOK
<1> QED
  BY <1>5, <1>6, <1>11, <1>12, <1>13, <1>14, QuietStep, Zenon

(* Nothing that only p uses.                                               *)
LEMMA NoLone ==
  ASSUME NEW p \in Procs, Alone(p, None, None, None, None), pc[p] # "unref"
  PROVE  LoneOK(p) /\ PrivateOK(p)
  BY Zenon DEF Alone, LoneOK, PrivateOK
LEMMA NoLoneNext ==
  ASSUME NEW p \in Procs, Alone(p, None, None, None, None)', pc'[p] # "unref"
  PROVE  LoneOK(p)' /\ PrivateOK(p)'
  BY Zenon DEF Alone, LoneOK, PrivateOK

(* A call finds no entry; or releases the directory after a failure.       *)
Leaves(p, l) ==
  \/ pc[p] \in {"open", "create", "link", "unlink"} /\ l = "end" /\ dlock' = dlock
  \/ pc[p] = "unlock_dir" /\ l = "end" /\ dlock' = NoProc
  \/ pc[p] = "unlock_dir_bad" /\ l = "lock_bad" /\ dlock' = NoProc
  \/ pc[p] = "link_dir" /\ l = "lock_bad" /\ dlock' = dlock

LEMMA MoveOn ==
  ASSUME Counting, NInv, NEW p \in Procs, NEW l, Leaves(p, l), Go(p, l),
         UNCHANGED <<cur, logged, table, file, ret, local, boot>>
  PROVE  NInv'
<1>1. /\ cur' = cur /\ dur' = dur /\ inum' = inum /\ ref' = ref /\ valid' = valid /\ mem' = mem
      /\ boot' = boot /\ file' = file /\ group' = group /\ lock' = lock
      /\ ret' = ret /\ arg' = arg /\ ip' = ip /\ put' = put /\ num' = num
  BY Zenon DEF logged, table, local
<1>2. Typed /\ ProcOK(p) /\ Rows(p)
  BY Parts, RowsNow, Zenon
<1>3. l \in {"end", "lock_bad"} /\ l \in Labels
  BY DEF Leaves, Labels
<1>4. Others(p) /\ pc'[p] = l /\ pc' \in [Procs -> Labels]
  BY <1>1, <1>2, <1>3, GoLocals, Zenon
<1>5. Typed'
  <2>1. dlock' \in Procs \cup {NoProc}
    BY <1>2, Types, Zenon DEF Leaves
  <2>2. Shape'
    BY <1>1, <1>2, <1>4, <2>1, ShapeTyped, Zenon DEF Shape
  <2> QED
    BY <2>2, ShapeNext, Zenon
<1>6. Rows(p)'
  BY <1>5, RowsNext, Zenon
<1>7. /\ pc[p] \notin Putting /\ pc'[p] \notin Putting
      /\ pc[p] \notin NewLabels \cup LoneLabels \cup NumLabels \cup {"wrote"}
      /\ pc'[p] \notin NewLabels \cup LoneLabels \cup NumLabels \cup {"wrote"}
      /\ {pc[p], pc'[p]} \cap {"iupdate", "wrote"} = {} /\ pc'[p] \notin {"panic", "iput", "unref"}
  BY <1>4 DEF Leaves, Putting, PutLabels, NewLabels, LoneLabels, TruncLabels, NumLabels
<1>8. Alone(p, None, None, None, None) /\ Alone(p, None, None, None, None)'
  BY <1>2, <1>6, <1>7, Zenon DEF Rows, AloneRow
<1>9. \/ pc[p] \in Plain /\ pc'[p] \in Plain
      \/ pc[p] \in {"link_dir", "lock_bad", "unlock_dir_bad"} /\ pc'[p] \in {"link_dir", "lock_bad", "unlock_dir_bad"}
  BY <1>4 DEF Leaves, Plain
<1>10. /\ IpRef'[p] = IpRef[p] /\ PutRef'[p] = PutRef[p] /\ LockOf'[p] = LockOf[p]
       /\ Owner'[p] = Owner[p]
  BY <1>1, <1>2, <1>6, <1>9, Zenon DEF Rows, HasRow, Has
<1>11. InDir(p) <=> dlock = p
  BY <1>2, Zenon DEF ProcOK, DirOK
<1>12. (InDir(p) <=> pc[p] \in DirLabels) /\ ~Bad(p) /\ (InDir(p)' <=> pc'[p] \in DirLabels) /\ ~Bad(p)'
  BY <1>2, <1>6, <1>7, Zenon DEF Rows, DirRow
<1>13. DirSafe(p) /\ (InDir(p)' <=> dlock' = p)
  <2>1. p # NoProc
    BY InodeAssumption DEF InodeAssumption
  <2>2. pc'[p] \notin DirLabels
    BY <1>3, <1>4 DEF DirLabels, NewLabels, UnlinkLabels
  <2>3. pc[p] \in DirLabels <=> pc[p] \in {"unlock_dir", "unlock_dir_bad"}
    BY DEF Leaves, DirLabels, NewLabels, UnlinkLabels
  <2>4. \/ dlock' = dlock /\ ~InDir(p)
        \/ dlock' = NoProc /\ InDir(p)
    BY <1>12, <2>3 DEF Leaves
  <2> QED
    BY <1>1, <1>11, <1>12, <2>1, <2>2, <2>4 DEF DirSafe
<1>14. Balanced(p)
  BY <1>1, <1>10, SameBalance, Zenon
<1>15. Quietly(p)
  BY <1>1, <1>7, <1>8, <1>10, <1>13, Zenon DEF Quietly, Alone
<1>16. LockInv'
  BY <1>1, <1>4, <1>10, LockKept, Zenon
<1>17. ProcOK(p)'
  <2>1. LoneOK(p)' /\ PrivateOK(p)'
    BY <1>7, <1>8, NoLoneNext, Zenon
  <2>2. ValidOK(p)'
    BY <1>1, <1>2, <1>7, <1>10, Zenon DEF ProcOK, ValidOK
  <2>3. DirOK(p)'
    <3>1. pc'[p] \notin NewLabels \cup {"ialloc"} /\ pc'[p] \notin UnlinkLabels
      BY <1>3, <1>4 DEF NewLabels, UnlinkLabels
    <3> QED
      BY <1>7, <1>13, <3>1, Zenon DEF DirOK
  <2>4. ArgOK(p)'
    <3>1. /\ pc'[p] \in IpLabels => pc[p] \in IpLabels
          /\ pc'[p] \notin PutLabels /\ pc'[p] \notin WriteLabels \cup {"write"}
          /\ pc'[p] \notin NumLabels /\ pc'[p] \notin NameLabels /\ pc'[p] \notin TwoLabels
      BY <1>4 DEF Leaves, IpLabels, PutLabels, WriteLabels, NumLabels, NameLabels, TwoLabels,
                  NewLabels, UnlinkLabels
    <3> QED
      BY <1>1, <1>2, <1>12, <3>1, Zenon DEF ProcOK, ArgOK
  <2> QED
    BY <2>1, <2>2, <2>3, <2>4, Zenon DEF ProcOK
<1> QED
  BY <1>4, <1>5, <1>14, <1>15, <1>16, <1>17, QuietStep, Zenon

-----------------------------------------------------------------------------
(* The start of a call                                                     *)

(* The arguments of a call: a name, two names, or an open file.            *)
Args(p, l, a, s) ==
  \/ l \in {"open", "create", "unlink"} /\ s = None /\ a[1] \in Names
  \/ l = "link" /\ s = None /\ a[1] \in Names /\ a[2] \in Names
  \/ l = "write" /\ s = file[p] /\ s # None

LEMMA CallStep ==
  ASSUME Counting, NInv, NEW p \in Procs, NEW l, NEW a, NEW s, Args(p, l, a, s),
         Call(p, l, a, s), file' = file, ret' = ret
  PROVE  NInv'
<1>1. /\ cur' = cur /\ dur' = dur /\ inum' = inum /\ ref' = ref /\ valid' = valid /\ mem' = mem
      /\ boot' = boot /\ lock' = lock /\ dlock' = dlock
      /\ put' = put /\ num' = num /\ pc[p] = "idle" /\ group < MaxGroup /\ group' = group + 1
      /\ pc' = [pc EXCEPT ![p] = l] /\ arg' = [arg EXCEPT ![p] = a] /\ ip' = [ip EXCEPT ![p] = s]
  BY Zenon DEF Call, BeginOp, Go, table
<1>2. Typed /\ ProcOK(p) /\ Rows(p) /\ Shape
  BY Parts, RowsNow, ShapeTyped, Zenon
<1>3. /\ l \in {"open", "create", "unlink", "link", "write"} /\ l \in Labels /\ l \in Plain
      /\ s \in Slots \cup {None}
  <2>1. file[p] \in Slots \cup {None}
    BY <1>2, Zenon DEF Shape
  <2> QED
    BY <2>1 DEF Args, Labels, Plain
<1>4. Others(p) /\ pc'[p] = l /\ arg'[p] = a /\ ip'[p] = s
  <2>1. \A q \in Procs \ {p} : pc'[q] = pc[q] /\ ip'[q] = ip[q]
    BY <1>1, <1>2, Zenon DEF Shape
  <2>2. arg'[p] = a /\ \A q \in Procs \ {p} : arg'[q] = arg[q]
    BY <1>1, <1>2 DEF Shape
  <2>3. pc'[p] = l /\ ip'[p] = s
    BY <1>1, <1>2, Zenon DEF Shape
  <2> QED
    BY <1>1, <2>1, <2>2, <2>3, Zenon DEF Others
<1>5. Typed'
  <2>1. pc' \in [Procs -> Labels] /\ ip' \in [Procs -> Slots \cup {None}]
    BY <1>1, <1>2, <1>3, Zenon DEF Shape
  <2>2. DOMAIN arg' = Procs
    BY <1>1, <1>2 DEF Shape
  <2>3. group' \in 0 .. MaxGroup
    BY <1>1, <1>2, InodeAssumption DEF Shape, InodeAssumption
  <2>4. Shape'
    BY <1>1, <1>2, <2>1, <2>2, <2>3, Zenon DEF Shape
  <2> QED
    BY <2>4, ShapeNext, Zenon
<1>6. Rows(p)'
  BY <1>5, RowsNext, Zenon
<1>7. /\ pc[p] \in Plain /\ pc'[p] \in Plain /\ pc[p] \notin Putting /\ pc'[p] \notin Putting
      /\ pc[p] \notin NewLabels \cup LoneLabels \cup NumLabels \cup {"wrote"}
      /\ pc'[p] \notin NewLabels \cup LoneLabels \cup NumLabels \cup {"wrote"}
      /\ {pc[p], pc'[p]} \cap {"iupdate", "wrote"} = {} /\ pc'[p] \notin {"panic", "iput", "unref"}
      /\ pc[p] \notin DirLabels /\ pc'[p] \notin DirLabels
      /\ pc'[p] \notin NewLabels \cup {"ialloc"} /\ pc'[p] \notin UnlinkLabels
  BY <1>1, <1>3, <1>4 DEF Plain, Putting, PutLabels, NewLabels, LoneLabels, TruncLabels, NumLabels,
     DirLabels, UnlinkLabels
<1>8. Alone(p, None, None, None, None) /\ Alone(p, None, None, None, None)'
  BY <1>2, <1>6, <1>7, Zenon DEF Rows, AloneRow
<1>9. Has(p, None, None, None, None) /\ Has(p, None, None, None, None)'
  BY <1>2, <1>6, <1>7, Zenon DEF Rows, HasRow
<1>10. ~InDir(p) /\ ~InDir(p)' /\ ~Bad(p)'
  BY <1>2, <1>6, <1>7, Zenon DEF Rows, DirRow
<1>11. Balanced(p)
  BY <1>1, <1>9, SameBalance, Zenon DEF Has
<1>12. Quietly(p)
  BY <1>1, <1>7, <1>8, <1>9, Zenon DEF Quietly, Alone, Has, DirSafe
<1>13. LockInv'
  BY <1>1, <1>4, <1>9, LockKept, Zenon DEF Has
<1>14. ProcOK(p)'
  <2>1. LoneOK(p)' /\ PrivateOK(p)'
    BY <1>7, <1>8, NoLoneNext, Zenon
  <2>2. ValidOK(p)'
    BY <1>1, <1>2, <1>7, <1>9, Zenon DEF ProcOK, ValidOK, Has
  <2>3. DirOK(p)'
    BY <1>1, <1>2, <1>7, <1>10, Zenon DEF ProcOK, DirOK
  <2>4. ArgOK(p)'
    <3>1. pc'[p] \notin IpLabels /\ pc'[p] \notin PutLabels /\ pc'[p] \notin NumLabels
      BY <1>3, <1>4 DEF IpLabels, PutLabels, NumLabels
    <3>2. pc'[p] \in WriteLabels \cup {"write"} => l = "write"
      BY <1>3, <1>4 DEF WriteLabels
    <3>3. pc'[p] \in NameLabels => l # "write"
      BY <1>3, <1>4 DEF NameLabels, NewLabels, UnlinkLabels
    <3>4. pc'[p] \in TwoLabels => l = "link"
      BY <1>3, <1>4 DEF TwoLabels
    <3>5. /\ l = "write" => s \in Slots /\ s = file[p]
          /\ l # "write" => a[1] \in Names
          /\ l = "link" => a[2] \in Names
      BY <1>3 DEF Args
    <3> QED
      BY <1>4, <1>10, <3>1, <3>2, <3>3, <3>4, <3>5, Zenon DEF ArgOK
  <2> QED
    BY <2>1, <2>2, <2>3, <2>4, Zenon DEF ProcOK
<1> QED
  BY <1>4, <1>5, <1>11, <1>12, <1>13, <1>14, QuietStep, Zenon

(* sys_open(), sys_link(), sys_unlink() and filewrite() begin.             *)
LEMMA StartStep ==
  ASSUME Counting, NInv, NEW p \in Procs, Start(p)
  PROVE  NInv'
<1>0. file' = file /\ ret' = ret
  BY Zenon DEF Start
<1>1. CASE \E n \in Names, l \in {"open", "create", "unlink"} : Call(p, l, <<n>>, None)
  <2>1. PICK n \in Names, l \in {"open", "create", "unlink"} : Call(p, l, <<n>>, None)
    BY <1>1, Zenon
  <2>2. Args(p, l, <<n>>, None)
    BY DEF Args
  <2> QED
    BY <1>0, <2>1, <2>2, CallStep, Zenon
<1>2. CASE \E n, m \in Names : Call(p, "link", <<n, m>>, None)
  <2>1. PICK n \in Names, m \in Names : Call(p, "link", <<n, m>>, None)
    BY <1>2, Zenon
  <2>2. Args(p, "link", <<n, m>>, None)
    BY DEF Args
  <2> QED
    BY <1>0, <2>1, <2>2, CallStep, Zenon
<1>3. CASE file[p] # None /\ Call(p, "write", <<>>, file[p])
  <2>1. PICK s : s = file[p]
    BY Zenon
  <2>2. Args(p, "write", <<>>, s) /\ Call(p, "write", <<>>, s)
    BY <1>3, <2>1, Zenon DEF Args
  <2> QED
    BY <1>0, <2>2, CallStep, Zenon
<1> QED
  BY <1>1, <1>2, <1>3, Zenon DEF Start

(* fileclose(): the reference of the file is the one that iput() drops.    *)
LEMMA CloseStep ==
  ASSUME Counting, NInv, NEW p \in Procs, Close(p)
  PROVE  NInv'
<1>0. PICK s : s = file[p]
  BY Zenon
<1>1. /\ cur' = cur /\ dur' = dur /\ inum' = inum /\ ref' = ref /\ valid' = valid /\ mem' = mem
      /\ boot' = boot /\ lock' = lock /\ dlock' = dlock /\ s # None
      /\ pc[p] = "idle" /\ group < MaxGroup /\ group' = group + 1
      /\ file' = [file EXCEPT ![p] = None] /\ ThenPut(p, s, "end")
  BY <1>0, Zenon DEF Close, BeginOp, table
<1>2. Typed /\ ProcOK(p) /\ Rows(p) /\ Shape
  BY Parts, RowsNow, ShapeTyped, Zenon
<1>3. s \in Slots
  BY <1>0, <1>1, <1>2, Zenon DEF Shape
<1>4. /\ file'[p] = None /\ file' \in [Procs -> Slots \cup {None}]
      /\ \A q \in Procs \ {p} : file'[q] = file[q]
  BY <1>1, <1>2, Zenon DEF Shape
<1>5. /\ Others(p) /\ pc'[p] = "iput" /\ put'[p] = s /\ ret'[p] = "end"
      /\ pc' \in [Procs -> Labels] /\ ip' \in [Procs -> Slots \cup {None}]
      /\ put' \in [Procs -> Slots \cup {None}] /\ num' \in [Procs -> Nat]
      /\ ret' \in [Procs -> {"end", "unlock_dir", "unlock_dir_bad"}] /\ DOMAIN arg' = Procs
  <2>1. "end" \in {"end", "unlock_dir"}
    BY Zenon
  <2> QED
    BY <1>1, <1>2, <1>3, <1>4, <2>1, PutLocals, Zenon
<1>6. Typed'
  <2>1. group' \in 0 .. MaxGroup
    BY <1>1, <1>2, InodeAssumption DEF Shape, InodeAssumption
  <2>2. Shape'
    BY <1>1, <1>2, <1>4, <1>5, <2>1, Zenon DEF Shape
  <2> QED
    BY <2>2, ShapeNext, Zenon
<1>7. /\ Has(p, None, s, None, None)' /\ Alone(p, None, None, None, None)'
      /\ ~InDir(p)' /\ ~Bad(p)' /\ ArgOK(p)'
  <2>1. "end" \in {"end", "unlock_dir"} /\ "end" # "unlock_dir"
    OBVIOUS
  <2> QED
    BY <1>3, <1>5, <1>6, <2>1, PutNext, Zenon
<1>8. /\ pc[p] \in Plain /\ pc[p] \notin NewLabels \cup LoneLabels \cup NumLabels \cup {"wrote"}
      /\ pc[p] \notin Putting /\ pc[p] \notin DirLabels
      /\ {pc[p], pc'[p]} \cap {"iupdate", "wrote"} = {} /\ pc'[p] \notin {"panic", "unref"}
      /\ pc'[p] \notin NewLabels \cup {"ialloc"} /\ pc'[p] \notin UnlinkLabels
  BY <1>1, <1>5 DEF Plain, Putting, PutLabels, NewLabels, LoneLabels, TruncLabels, NumLabels,
     DirLabels, UnlinkLabels
<1>9. Has(p, None, None, None, None) /\ Alone(p, None, None, None, None) /\ ~InDir(p)
  BY <1>2, <1>8, Zenon DEF Rows, HasRow, AloneRow, DirRow
<1>10. Balanced(p)
  BY <1>0, <1>1, <1>2, <1>4, <1>7, <1>9, MoveBalance, Zenon DEF Has
<1>11. Quietly(p)
  BY <1>1, <1>7, <1>8, <1>9, Zenon DEF Quietly, Has, Alone, DirSafe
<1>12. LockInv'
  BY <1>1, <1>5, <1>7, <1>9, LockKept, Zenon DEF Has
<1>13. ProcOK(p)'
  <2>1. LoneOK(p)' /\ PrivateOK(p)'
    BY <1>7, <1>8, NoLoneNext, Zenon
  <2>2. ValidOK(p)'
    <3>1. valid[s]
      BY <1>0, <1>2, <1>3, Zenon DEF ProcOK, ValidOK
    <3> QED
      <4>1. LockOf'[p] = None /\ Owner'[p] = None /\ file'[p] = None
        BY <1>4, <1>7, Zenon DEF Has
      <4>2. valid'[put'[p]]
        BY <1>1, <1>5, <3>1, Zenon
      <4> QED
        BY <4>1, <4>2, NoneIsNone, Zenon DEF ValidOK
  <2>3. DirOK(p)'
    BY <1>1, <1>2, <1>7, <1>8, <1>9, Zenon DEF ProcOK, DirOK
  <2> QED
    BY <1>7, <2>1, <2>2, <2>3, Zenon DEF ProcOK
<1> QED
  BY <1>5, <1>6, <1>10, <1>11, <1>12, <1>13, QuietStep, Zenon

(* sys_open(): the file takes over the reference.                          *)
LEMMA OpenedStep ==
  ASSUME Counting, NInv, NEW p \in Procs, pc[p] = "opened", Iunlock(p), file[p] = None,
         file' = [file EXCEPT ![p] = ip[p]], Go(p, "end"),
         UNCHANGED <<ret, local, cur, logged, inum, ref, valid, mem, dlock, boot>>
  PROVE  NInv'
<1>0. PICK s : s = ip[p]
  BY Zenon
<1>1. /\ cur' = cur /\ dur' = dur /\ inum' = inum /\ ref' = ref /\ valid' = valid /\ mem' = mem
      /\ boot' = boot /\ group' = group /\ dlock' = dlock
      /\ ret' = ret /\ arg' = arg /\ ip' = ip /\ put' = put /\ num' = num
      /\ lock' = [lock EXCEPT ![s] = NoProc] /\ file' = [file EXCEPT ![p] = s]
  BY <1>0, Zenon DEF logged, local, Iunlock
<1>2. Typed /\ ProcOK(p) /\ Rows(p) /\ Shape
  BY Parts, RowsNow, ShapeTyped, Zenon
<1>3. s \in Slots
  <2>1. pc[p] \in IpLabels
    BY DEF IpLabels
  <2> QED
    BY <1>0, <1>2, <2>1, InIp, Zenon DEF ProcOK
<1>4. /\ file'[p] = s /\ file' \in [Procs -> Slots \cup {None}]
      /\ \A q \in Procs \ {p} : file'[q] = file[q]
  BY <1>1, <1>2, <1>3, Zenon DEF Shape
<1>5. Others(p) /\ pc'[p] = "end" /\ pc' \in [Procs -> Labels]
  <2>1. "end" \in Labels
    BY DEF Labels
  <2> QED
    BY <1>1, <1>2, <1>4, <2>1, GoLocals, Zenon
<1>6. Typed'
  <2>1. lock' \in [Slots -> Procs \cup {NoProc}]
    BY <1>1, <1>2, Zenon DEF Shape
  <2>2. Shape'
    BY <1>1, <1>2, <1>4, <1>5, <2>1, Zenon DEF Shape
  <2> QED
    BY <2>2, ShapeNext, Zenon
<1>7. Rows(p)'
  BY <1>6, RowsNext, Zenon
<1>8. /\ pc[p] \in {"opened", "linking", "unlinking", "orphan", "new"} /\ pc'[p] \in Plain
      /\ pc[p] \notin Putting /\ pc'[p] \notin Putting
      /\ pc[p] \notin NewLabels \cup LoneLabels \cup NumLabels \cup {"wrote"}
      /\ pc'[p] \notin NewLabels \cup LoneLabels \cup NumLabels \cup {"wrote"}
      /\ {pc[p], pc'[p]} \cap {"iupdate", "wrote"} = {} /\ pc'[p] \notin {"panic", "iput", "unref"}
      /\ pc[p] \notin DirLabels /\ pc'[p] \notin DirLabels
      /\ pc'[p] \notin NewLabels \cup {"ialloc"} /\ pc'[p] \notin UnlinkLabels
  BY <1>5 DEF Plain, Putting, PutLabels, NewLabels, LoneLabels, TruncLabels, NumLabels,
     DirLabels, UnlinkLabels
<1>9. Has(p, s, None, s, None) /\ Alone(p, None, None, None, None) /\ ~InDir(p)
  BY <1>0, <1>2, <1>8, Zenon DEF Rows, HasRow, AloneRow, DirRow
<1>10. Has(p, None, None, None, None)' /\ Alone(p, None, None, None, None)' /\ ~InDir(p)' /\ ~Bad(p)'
  BY <1>7, <1>8, Zenon DEF Rows, HasRow, AloneRow, DirRow
<1>11. Balanced(p)
  <2>1. \A t \in Slots : One(file'[p], t) = One(IpRef[p], t) /\ One(IpRef'[p], t) = One(file[p], t)
    BY <1>4, <1>9, <1>10, Zenon DEF Has
  <2>2. /\ \A t \in Slots : ref'[t] = ref[t] /\ ref[t] \in Nat
        /\ \A x, v : One(x, v) \in {0, 1}
        /\ \A t \in Slots : One(PutRef'[p], t) = One(PutRef[p], t)
    <3>1. \A x, v : One(x, v) \in {0, 1}
      BY DEF One
    <3> QED
      BY <1>1, <1>2, <1>9, <1>10, <3>1, Zenon DEF Shape, Has
  <2> QED
    BY ONLY <2>1, <2>2 DEF Balanced
<1>12. Quietly(p)
  BY <1>1, <1>8, <1>9, <1>10, Zenon DEF Quietly, Has, Alone, DirSafe
<1>13. LockInv'
  BY <1>1, <1>3, <1>5, <1>9, <1>10, LockDropped, Zenon DEF Has
<1>14. ProcOK(p)'
  <2>1. LoneOK(p)' /\ PrivateOK(p)'
    BY <1>8, <1>10, NoLoneNext, Zenon
  <2>2. ValidOK(p)'
    <3>1. valid[s]
      BY <1>3, <1>9, Locked, Zenon DEF Has
    <3>2. pc'[p] # "iput"
      BY <1>5
    <3>3. LockOf'[p] = None /\ Owner'[p] = None
      BY <1>10, Zenon DEF Has
    <3> QED
      BY <1>1, <1>4, <3>1, <3>2, <3>3, NoneIsNone, Zenon DEF ValidOK
  <2>3. DirOK(p)'
    BY <1>1, <1>2, <1>8, <1>9, <1>10, Zenon DEF ProcOK, DirOK
  <2>4. ArgOK(p)'
    <3>1. /\ pc'[p] \notin IpLabels /\ pc'[p] \notin PutLabels /\ pc'[p] \notin WriteLabels \cup {"write"}
          /\ pc'[p] \notin NumLabels /\ pc'[p] \notin NameLabels /\ pc'[p] \notin TwoLabels
      BY <1>5 DEF IpLabels, PutLabels, WriteLabels, NumLabels, NameLabels, TwoLabels,
                  NewLabels, UnlinkLabels
    <3> QED
      BY <1>10, <3>1, Zenon DEF ArgOK
  <2> QED
    BY <2>1, <2>2, <2>3, <2>4, Zenon DEF ProcOK
<1> QED
  BY <1>5, <1>6, <1>11, <1>12, <1>13, <1>14, QuietStep, Zenon

(* What a commit writes: no other call is in progress, so that no link is  *)
(* owed, no block is being added and none is freed.                        *)
LEMMA Committed ==
  ASSUME Counting, NInv, NEW p \in Procs, pc[p] = "end", Commits(p), dur' = cur
  PROVE  DurInv'
<1>1. ASSUME NEW q \in Procs
      PROVE  Owner[q] = None /\ Emptied[q] = None /\ Adding[q] = None
  <2>1. pc[q] \in {"idle", "end"}
    <3>1. q # p => pc[q] \in {"idle", "panic"}
      BY Zenon DEF Commits
    <3>2. pc[q] # "panic"
      BY Parts, Zenon DEF NoPanic
    <3> QED
      BY <3>1, <3>2
  <2>2. pc[q] \in Plain /\ pc[q] \notin NewLabels \cup LoneLabels \cup NumLabels \cup {"wrote"}
    BY <2>1 DEF Plain, NewLabels, LoneLabels, TruncLabels, NumLabels
  <2> QED
    BY <2>2, Parts, RowsNow, Zenon DEF Rows, HasRow, AloneRow, Has, Alone
<1>2. \A i : Live(i) <=> i \in cur.type
  BY <1>1, Zenon DEF Live
<1>3. \A i \in cur.type : cur.ino[i].nlink = Count(cur.dir, i)
  <2> SUFFICES ASSUME NEW i \in cur.type
               PROVE  cur.ino[i].nlink = Count(cur.dir, i)
    BY Zenon
  <2>1. cur.ino[i].nlink = Count(cur.dir, i) + Count(OwesTo, i)
    BY Parts, Zenon DEF LinkInv
  <2>2. \A q \in Procs : OwesTo[q] = None
    BY <1>1, Zenon DEF OwesTo
  <2>3. i # None
    BY NoneIsNone, Types, Parts, Zenon
  <2>4. ~ \E q \in Procs : OwesTo[q] = i
    BY <2>2, <2>3, Zenon
  <2>5. Count(OwesTo, i) = 0
    BY <2>4, Counted, Countable, Parts
  <2>6. Count(cur.dir, i) \in Nat
    BY Counted, Countable, Parts
  <2> QED
    BY ONLY <2>1, <2>5, <2>6
<1>4. cur.type \subseteq Inums /\ cur.bitmap \subseteq Blocks
  BY Parts, Types, Zenon
<1>5. BlockInv /\ LinkInv
  BY Parts, Zenon
<1>6. \A i \in cur.type : cur.ino[i].addr \in cur.bitmap \cup {None}
  BY <1>2, <1>4, <1>5, Zenon DEF BlockInv
<1>7. \A b \in cur.bitmap : \E i \in cur.type : cur.ino[i].addr = b
  <2> SUFFICES ASSUME NEW b \in cur.bitmap
               PROVE  \E i \in cur.type : cur.ino[i].addr = b
    BY Zenon
  <2>1. b # None
    BY <1>4, NoneIsNone, Zenon
  <2> QED
    BY <1>1, <1>2, <1>5, <2>1, Zenon DEF BlockInv
<1>8. \A i, j \in cur.type :
        (cur.ino[i].addr = cur.ino[j].addr /\ cur.ino[i].addr # None) => i = j
  BY <1>2, <1>4, <1>5, Zenon DEF BlockInv
<1>9. \A n \in Names : cur.dir[n] \in cur.type \cup {None}
  BY <1>5, Zenon DEF LinkInv
<1> QED
  BY <1>3, <1>6, <1>7, <1>8, <1>9, Zenon DEF DurInv

(* end_op(), which commits when no other call is in progress.              *)
LEMMA EndStep ==
  ASSUME Counting, NInv, NEW p \in Procs, EndOp(p)
  PROVE  NInv'
<1>1. /\ cur' = cur /\ inum' = inum /\ ref' = ref /\ valid' = valid /\ mem' = mem
      /\ boot' = boot /\ lock' = lock /\ dlock' = dlock /\ file' = file /\ pc[p] = "end"
      /\ pc' = [pc EXCEPT ![p] = "idle"] /\ ret' = [ret EXCEPT ![p] = "end"]
      /\ arg' = [arg EXCEPT ![p] = <<>>] /\ ip' = [ip EXCEPT ![p] = None]
      /\ put' = [put EXCEPT ![p] = None] /\ num' = [num EXCEPT ![p] = None]
  BY Zenon DEF EndOp, Forget, Go, table
<1>2. \/ dur' = dur /\ group' = group
      \/ Commits(p) /\ dur' = cur /\ group' = 0
  BY Zenon DEF EndOp, logged
<1>3. Typed /\ ProcOK(p) /\ Rows(p) /\ Shape
  BY Parts, RowsNow, ShapeTyped, Zenon
<1>4. /\ pc' \in [Procs -> Labels] /\ ret' \in [Procs -> {"end", "unlock_dir", "unlock_dir_bad"}]
      /\ ip' \in [Procs -> Slots \cup {None}] /\ put' \in [Procs -> Slots \cup {None}]
      /\ num' \in [Procs -> Nat] /\ pc'[p] = "idle"
  <2>1. "idle" \in Labels /\ None \in Nat
    BY DEF Labels, None
  <2> QED
    BY <1>1, <1>3, <2>1, Zenon DEF Shape
<1>5. DOMAIN arg' = Procs /\ \A q \in Procs \ {p} : arg'[q] = arg[q]
  BY <1>1, <1>3 DEF Shape
<1>6. Others(p)
  <2>1. \A q \in Procs \ {p} : pc'[q] = pc[q] /\ ret'[q] = ret[q]
    BY <1>1, <1>3, Zenon DEF Shape
  <2>2. \A q \in Procs \ {p} : ip'[q] = ip[q] /\ put'[q] = put[q] /\ num'[q] = num[q]
    BY <1>1, <1>3, Zenon DEF Shape
  <2> QED
    BY <1>1, <1>5, <2>1, <2>2, Zenon DEF Others
<1>7. Typed'
  <2>1. group' \in 0 .. MaxGroup
    BY <1>2, <1>3, InodeAssumption DEF Shape, InodeAssumption
  <2>2. dur' \in Disk
    BY <1>2, <1>3, Zenon DEF Shape
  <2>3. Shape'
    BY <1>1, <1>3, <1>4, <1>5, <2>1, <2>2, Zenon DEF Shape
  <2> QED
    BY <2>3, ShapeNext, Zenon
<1>8. Rows(p)'
  BY <1>7, RowsNext, Zenon
<1>9. /\ pc[p] \in Plain /\ pc'[p] \in Plain /\ pc[p] \notin Putting /\ pc'[p] \notin Putting
      /\ pc[p] \notin NewLabels \cup LoneLabels \cup NumLabels \cup {"wrote"}
      /\ pc'[p] \notin NewLabels \cup LoneLabels \cup NumLabels \cup {"wrote"}
      /\ {pc[p], pc'[p]} \cap {"iupdate", "wrote"} = {} /\ pc'[p] \notin {"panic", "iput", "unref"}
      /\ pc[p] \notin DirLabels /\ pc'[p] \notin DirLabels
      /\ pc'[p] \notin NewLabels \cup {"ialloc"} /\ pc'[p] \notin UnlinkLabels
  BY <1>1, <1>4 DEF Plain, Putting, PutLabels, NewLabels, LoneLabels, TruncLabels, NumLabels,
     DirLabels, UnlinkLabels
<1>10. Has(p, None, None, None, None) /\ Alone(p, None, None, None, None) /\ ~InDir(p)
  BY <1>3, <1>9, Zenon DEF Rows, HasRow, AloneRow, DirRow
<1>11. Has(p, None, None, None, None)' /\ Alone(p, None, None, None, None)' /\ ~InDir(p)' /\ ~Bad(p)'
  BY <1>8, <1>9, Zenon DEF Rows, HasRow, AloneRow, DirRow
<1>12. dur' = dur \/ DurInv'
  BY <1>1, <1>2, Committed, Zenon
<1>13. Balanced(p)
  BY <1>1, <1>10, <1>11, SameBalance, Zenon DEF Has
<1>14. Quietly(p)
  BY <1>1, <1>9, <1>10, <1>11, <1>12, Zenon DEF Quietly, Alone, Has, DirSafe
<1>15. LockInv'
  BY <1>1, <1>6, <1>10, <1>11, LockKept, Zenon DEF Has
<1>16. ProcOK(p)'
  <2>1. LoneOK(p)' /\ PrivateOK(p)'
    BY <1>9, <1>11, NoLoneNext, Zenon
  <2>2. ValidOK(p)'
    <3>1. pc'[p] # "iput" /\ LockOf'[p] = None /\ Owner'[p] = None
      BY <1>9, <1>11, Zenon DEF Has
    <3> QED
      BY <1>1, <1>3, <3>1, NoneIsNone, Zenon DEF ProcOK, ValidOK
  <2>3. DirOK(p)'
    BY <1>1, <1>3, <1>9, <1>10, <1>11, Zenon DEF ProcOK, DirOK
  <2>4. ArgOK(p)'
    <3>1. /\ pc'[p] \notin IpLabels /\ pc'[p] \notin PutLabels /\ pc'[p] \notin WriteLabels \cup {"write"}
          /\ pc'[p] \notin NumLabels /\ pc'[p] \notin NameLabels /\ pc'[p] \notin TwoLabels
      BY <1>4 DEF IpLabels, PutLabels, WriteLabels, NumLabels, NameLabels, TwoLabels,
                  NewLabels, UnlinkLabels
    <3> QED
      BY <1>11, <3>1, Zenon DEF ArgOK
  <2> QED
    BY <2>1, <2>2, <2>3, <2>4, Zenon DEF ProcOK
<1> QED
  BY <1>6, <1>7, <1>13, <1>14, <1>15, <1>16, QuietStep, Zenon

(* An image is what its four parts are.                                    *)
LEMMA ImageEqual ==
  ASSUME NEW D \in Disk, NEW E \in Disk, D.type = E.type, D.ino = E.ino,
         D.bitmap = E.bitmap, D.dir = E.dir
  PROVE  D = E
  BY DEF Disk

(* What iupdate() writes.                                                  *)
LEMMA Updated ==
  ASSUME cur \in Disk, NEW i \in Inums, NEW d \in Dinode
  PROVE  /\ Iupdate(i, d) \in Disk /\ Iupdate(i, d).type = cur.type \cup {i}
         /\ Iupdate(i, d).bitmap = cur.bitmap /\ Iupdate(i, d).dir = cur.dir
         /\ Iupdate(i, d).ino = [cur.ino EXCEPT ![i] = d]
<1>1. cur.ino \in [Inums -> Dinode]
  BY DEF Disk
<1>2. [cur.ino EXCEPT ![i] = d] \in [Inums -> Dinode]
  BY <1>1, Zenon
<1>3. Iupdate(i, d) \in Disk
  <2>1. cur.type \cup {i} \in SUBSET Inums
    BY DEF Disk
  <2> QED
    BY <1>2, <2>1, Zenon DEF Iupdate, Disk
<1>4. Iupdate(i, d).type = cur.type \cup {i} /\ Iupdate(i, d).bitmap = cur.bitmap
  BY DEF Iupdate, Disk
<1>5. Iupdate(i, d).dir = cur.dir /\ Iupdate(i, d).ino = [cur.ino EXCEPT ![i] = d]
  BY DEF Iupdate, Disk
<1> QED
  BY <1>3, <1>4, <1>5, Zenon

(* iupdate() of what is already on disk changes nothing.                   *)
LEMMA UpdatedSame ==
  ASSUME cur \in Disk, NEW i \in cur.type
  PROVE  Iupdate(i, cur.ino[i]) = cur
<1> DEFINE u == Iupdate(i, cur.ino[i])
<1>1. cur.type \in SUBSET Inums /\ cur.ino \in [Inums -> Dinode]
  BY DEF Disk
<1>2. i \in Inums /\ cur.ino[i] \in Dinode
  BY <1>1, Zenon
<1>3. [cur.ino EXCEPT ![i] = cur.ino[i]] = cur.ino /\ cur.type \cup {i} = cur.type
  BY <1>1, Zenon
<1>4. /\ u \in Disk /\ u.type = cur.type /\ u.bitmap = cur.bitmap /\ u.dir = cur.dir
      /\ u.ino = cur.ino
  BY <1>2, <1>3, Updated, Zenon
<1> QED
  BY <1>4, ImageEqual, Zenon

(* create() fails after ialloc(): the new inode has no links yet.          *)
LEMMA CreateFailsStep ==
  ASSUME Counting, NInv, NEW p \in Procs, CreateFails(p)
  PROVE  NInv'
<1>0. PICK s : s = ip[p]
  BY Zenon
<1>1. Typed /\ ProcOK(p) /\ Rows(p) /\ Shape /\ pc[p] = "new"
  BY Parts, RowsNow, ShapeTyped, Zenon DEF CreateFails
<1>2. pc[p] \in {"opened", "linking", "unlinking", "orphan", "new"} /\ pc[p] \in NewLabels /\ pc[p] \in IpLabels
  BY <1>1 DEF NewLabels, IpLabels
<1>3. s \in Slots /\ LockOf[p] = s /\ Lone[p] = s
  BY <1>0, <1>1, <1>2, InIp, Zenon DEF ProcOK, Rows, HasRow, AloneRow, Has, Alone
<1>4. inum[s] \in cur.type /\ mem[s] = cur.ino[inum[s]]
  BY <1>3, Locked, Zenon
<1>5. mem[s].nlink = 0
  BY <1>1, <1>3, <1>4, NoneIsNone, Zenon DEF ProcOK, LoneOK
<1>6. mem[s] \in Dinode /\ mem \in [Slots -> Dinode]
  BY <1>1, <1>3, Zenon DEF Shape
<1>7. [mem[s] EXCEPT !.nlink = 0] = mem[s]
  BY ONLY <1>5, <1>6 DEF Dinode
<1>8. mem' = mem
  BY <1>0, <1>3, <1>6, <1>7, Zenon DEF CreateFails
<1>9. cur' = cur
  <2>1. cur' = Iupdate(inum[s], mem[s])
    BY <1>0, <1>7, Zenon DEF CreateFails
  <2> QED
    BY <1>1, <1>4, <2>1, UpdatedSame, Zenon DEF Shape
<1>10. /\ Iunlock(p) /\ ThenPut(p, ip[p], "unlock_dir") /\ dur' = dur /\ group' = group /\ inum' = inum
       /\ ref' = ref /\ valid' = valid /\ dlock' = dlock /\ file' = file /\ boot' = boot
  BY Zenon DEF CreateFails, logged
<1>11. "unlock_dir" \in {"end", "unlock_dir"}
  BY Zenon
<1> QED
  BY <1>1, <1>8, <1>9, <1>10, <1>11, UnlockPut, Zenon

(* The other steps that leave the disk and the table as they are.          *)
LEMMA QuietSteps ==
  ASSUME Counting, NInv, NEW p \in Procs,
         NotFound(p) \/ OpenFile(p) \/ UnlockDir(p) \/ ReclaimPut(p)
  PROVE  NInv'
<1>1. CASE NotFound(p)
  <2>1. /\ pc[p] \in {"open", "create", "link", "unlink"} /\ dlock' = dlock /\ Go(p, "end")
        /\ UNCHANGED <<cur, logged, table, file, ret, local, boot>>
    BY <1>1, Zenon DEF NotFound
  <2>2. Leaves(p, "end")
    BY <2>1, Zenon DEF Leaves
  <2> QED
    BY <2>1, <2>2, MoveOn, Zenon
<1>2. CASE UnlockDir(p)
  <2>1. PICK l : l = IF pc[p] = "unlock_dir" THEN "end" ELSE "lock_bad"
    BY Zenon
  <2>2. /\ pc[p] \in {"unlock_dir", "unlock_dir_bad"} /\ dlock' = NoProc /\ Go(p, l)
        /\ UNCHANGED <<cur, logged, table, file, ret, local, boot>>
    BY <1>2, <2>1, Zenon DEF UnlockDir
  <2>3. Leaves(p, l)
    BY <2>1, <2>2, Zenon DEF Leaves
  <2> QED
    BY <2>2, <2>3, MoveOn, Zenon
<1>3. CASE OpenFile(p)
  <2>1. /\ pc[p] = "opened" /\ Iunlock(p)
        /\ UNCHANGED <<cur, logged, inum, ref, valid, mem, dlock, boot>>
    BY <1>3, Zenon DEF OpenFile
  <2>2. CASE /\ file[p] = None /\ file' = [file EXCEPT ![p] = ip[p]]
             /\ Go(p, "end") /\ UNCHANGED <<ret, local>>
    BY <2>1, <2>2, OpenedStep, Zenon
  <2>3. CASE ThenPut(p, ip[p], "end") /\ UNCHANGED file
    <3>1. /\ UNCHANGED <<cur, dur, inum, ref, valid, mem, boot, dlock, file, group>>
          /\ pc[p] \in {"opened", "linking", "orphan"} /\ "end" \in {"end", "unlock_dir"}
      BY <2>1, <2>3, Zenon DEF logged
    <3> QED
      BY <2>1, <2>3, <3>1, UnlockPut, Zenon
  <2> QED
    BY <1>3, <2>2, <2>3, Zenon DEF OpenFile
<1>4. CASE ReclaimPut(p)
  <2>1. /\ UNCHANGED <<cur, dur, inum, ref, valid, mem, boot, dlock, file, group>>
        /\ pc[p] \in {"opened", "linking", "orphan"} /\ "end" \in {"end", "unlock_dir"}
        /\ Iunlock(p) /\ ThenPut(p, ip[p], "end")
    BY <1>4, Zenon DEF ReclaimPut, logged
  <2> QED
    BY <2>1, UnlockPut, Zenon
<1> QED
  BY <1>1, <1>2, <1>3, <1>4, Zenon

-----------------------------------------------------------------------------
(* Steps that change the entry of an inode                                 *)

(* A step that keeps the disk keeps links and blocks.                      *)
LEMMA SameDisk ==
  ASSUME Counting, NInv, Typed', NEW p \in Procs, Others(p), KeepInum, cur' = cur,
         OwesTo'[p] = OwesTo[p], {pc[p], pc'[p]} \cap {"iupdate", "wrote"} = {}
  PROVE  LinkInv' /\ BlockInv'
<1>1. Even(p)
  BY Zenon DEF Even
<1>2. SameBlocks(p)
  BY Zenon DEF SameBlocks
<1> QED
  BY <1>1, <1>2, LinkSame, BlockSame, Zenon

(* The labels before and after ilock().                                    *)
Locks(l, to) ==
  \/ l = "lock_open" /\ to = "opened"
  \/ l = "lock_new" /\ to = "new"
  \/ l = "lock_link" /\ to = "linking"
  \/ l = "lock_bad" /\ to = "undo"
  \/ l = "lock_unlink" /\ to = "unlinking"
  \/ l = "write" /\ to = "writing"
  \/ l = "lock_orphan" /\ to = "orphan"

(* ilock() finds the inode in use, and reads it if need be.                *)
LEMMA IlockStep ==
  ASSUME Counting, NInv, NEW p \in Procs, NEW l, NEW to, Locks(l, to), Ilock(p, l, to)
  PROVE  NInv'
<1>0. PICK s : s = ip[p]
  BY Zenon
<1>1. /\ cur' = cur /\ dur' = dur /\ inum' = inum /\ ref' = ref /\ boot' = boot /\ dlock' = dlock
      /\ file' = file /\ group' = group /\ pc[p] = l /\ lock[s] = NoProc
      /\ ret' = ret /\ arg' = arg /\ ip' = ip /\ put' = put /\ num' = num
      /\ lock' = [lock EXCEPT ![s] = p] /\ valid' = [valid EXCEPT ![s] = TRUE]
      /\ mem' = [mem EXCEPT ![s] = IF valid[s] THEN @ ELSE cur.ino[inum[s]]]
      /\ Go(p, IF ~valid[s] /\ inum[s] \notin cur.type THEN "panic" ELSE to)
  BY <1>0, Zenon DEF Ilock, logged, local
<1>2. Typed /\ ProcOK(p) /\ Rows(p) /\ Shape
  BY Parts, RowsNow, ShapeTyped, Zenon
<1>3. /\ l \in {"lock_open", "lock_link", "lock_unlink", "lock_orphan", "lock_new", "lock_bad", "write"}
      /\ to \in {"opened", "linking", "unlinking", "orphan", "new", "undo", "writing"}
      /\ to \in Labels
  BY DEF Locks, Labels
<1>4. s \in Slots /\ Holds(p, s)
  <2>1. l \in IpLabels \/ l = "write"
    BY <1>3 DEF IpLabels
  <2>2. CASE l \in IpLabels
    BY <1>0, <1>1, <1>2, <2>2, InIp, Zenon DEF ProcOK
  <2>3. CASE l = "write"
    <3>1. pc[p] \in WriteLabels \cup {"write"}
      BY <1>1, <2>3
    <3> QED
      BY <1>0, <1>2, <3>1, Zenon DEF ProcOK, ArgOK, Holds
  <2> QED
    BY <2>1, <2>2, <2>3, Zenon
<1>5. ref[s] > 0 /\ inum[s] \in cur.type /\ inum[s] \in Inums
  <2>1. ref[s] > 0
    BY <1>2, <1>4, HeldHasRef, Parts, Zenon
  <2> QED
    BY <1>2, <1>4, <2>1, Parts, Types, Zenon DEF TableInv
<1>6. Others(p) /\ pc'[p] = to /\ pc' \in [Procs -> Labels]
  <2>1. Go(p, to)
    BY <1>1, <1>5, Zenon
  <2> QED
    BY <1>1, <1>2, <1>3, <2>1, GoLocals, Zenon
<1>7. /\ valid'[s] = TRUE /\ mem'[s] = cur.ino[inum[s]]
      /\ \A t \in Slots \ {s} : valid'[t] = valid[t] /\ mem'[t] = mem[t]
  <2>1. valid[s] => mem[s] = cur.ino[inum[s]]
    BY <1>4, <1>5, Parts, Zenon DEF TableInv
  <2>2. mem'[s] = IF valid[s] THEN mem[s] ELSE cur.ino[inum[s]]
    BY <1>1, <1>2, <1>4, Zenon DEF Shape
  <2>3. mem'[s] = cur.ino[inum[s]]
    BY <2>1, <2>2, Zenon
  <2>4. valid'[s] = TRUE /\ \A t \in Slots \ {s} : valid'[t] = valid[t]
    BY <1>1, <1>2, <1>4, Zenon DEF Shape
  <2>5. \A t \in Slots \ {s} : mem'[t] = mem[t]
    BY <1>1, <1>2, <1>4, Zenon DEF Shape
  <2> QED
    BY <2>3, <2>4, <2>5, Zenon
<1>8. Typed'
  <2>1. lock' \in [Slots -> Procs \cup {NoProc}] /\ valid' \in [Slots -> BOOLEAN]
    BY <1>1, <1>2, Zenon DEF Shape
  <2>2. cur.ino[inum[s]] \in Dinode
    BY <1>2, <1>5, Types, Zenon
  <2>3. (IF valid[s] THEN mem[s] ELSE cur.ino[inum[s]]) \in Dinode
    BY <1>2, <1>4, <2>2, Zenon DEF Shape
  <2>4. mem' = [mem EXCEPT ![s] = IF valid[s] THEN mem[s] ELSE cur.ino[inum[s]]]
    BY <1>1, Zenon
  <2>5. mem' \in [Slots -> Dinode]
    BY <1>2, <2>3, <2>4, Zenon DEF Shape
  <2>6. Shape'
    BY <1>1, <1>2, <1>6, <2>1, <2>5, Zenon DEF Shape
  <2> QED
    BY <2>6, ShapeNext, Zenon
<1>9. Rows(p)'
  BY <1>8, RowsNext, Zenon
<1>10. /\ pc[p] \notin Putting /\ pc'[p] \notin Putting
       /\ pc[p] \notin LoneLabels \cup NumLabels \cup {"wrote"}
       /\ pc'[p] \notin LoneLabels \cup NumLabels \cup {"wrote"}
       /\ {pc[p], pc'[p]} \cap {"iupdate", "wrote"} = {} /\ pc'[p] \notin {"panic", "iput", "unref", "ialloc"}
       /\ (pc'[p] \in DirLabels <=> pc[p] \in DirLabels)
       /\ (pc'[p] \in NewLabels <=> pc[p] \in NewLabels)
       /\ (pc'[p] \in UnlinkLabels <=> pc[p] \in UnlinkLabels)
  BY <1>1, <1>6 DEF Locks, Putting, PutLabels, NewLabels, LoneLabels, TruncLabels, NumLabels,
     DirLabels, UnlinkLabels
<1>11. Private[p] = None /\ Private'[p] = None /\ Lone'[p] = Lone[p]
  BY <1>1, <1>2, <1>9, <1>10, Zenon DEF Rows, AloneRow, Alone
<1>12. /\ IpRef'[p] = IpRef[p] /\ PutRef'[p] = PutRef[p] /\ Owner'[p] = Owner[p]
       /\ LockOf[p] = None /\ LockOf'[p] = s /\ Owner[p] \in {s, None}
  <2>1. CASE l \in {"lock_open", "lock_link", "lock_unlink", "lock_orphan", "lock_new"}
    <3>1. pc'[p] \in {"opened", "linking", "unlinking", "orphan", "new"}
      BY <1>6, <2>1 DEF Locks
    <3> QED
      BY <1>0, <1>1, <1>2, <1>9, <2>1, <3>1, Zenon DEF Rows, HasRow, Has
  <2>2. CASE l = "lock_bad"
    <3>1. pc'[p] \in {"undo", "erased"} /\ pc[p] \in {"link_dir", "lock_bad", "unlock_dir_bad"}
      BY <1>1, <1>6, <2>2 DEF Locks
    <3> QED
      BY <1>0, <1>1, <1>2, <1>9, <3>1, Zenon DEF Rows, HasRow, Has
  <2>3. CASE l = "write"
    <3>1. pc'[p] \in WriteLabels /\ pc[p] \in Plain \cup {"ialloc"}
      BY <1>1, <1>6, <2>3 DEF Locks, WriteLabels, Plain
    <3> QED
      BY <1>0, <1>1, <1>2, <1>9, <3>1, Zenon DEF Rows, HasRow, Has
  <2> QED
    BY <1>3, <2>1, <2>2, <2>3
<1>13. (InDir(p)' <=> InDir(p)) /\ ~Bad(p) /\ ~Bad(p)'
  BY <1>2, <1>9, <1>10, Zenon DEF Rows, DirRow
<1>14. Balanced(p)
  BY <1>1, <1>12, SameBalance, Zenon
<1>15. PICK T : T = {s}
  BY Zenon
<1>16. Touch(p, T)
  <2>1. \A t \in Slots \ T : ref'[t] = ref[t] /\ valid'[t] = valid[t] /\ mem'[t] = mem[t]
    BY <1>1, <1>7, <1>15, Zenon
  <2> QED
    BY <1>1, <1>4, <1>7, <1>11, <1>15, <2>1, Zenon DEF Touch, DirSafe
<1>17. LockInv'
  BY <1>1, <1>4, <1>6, <1>12, LockTaken, Zenon
<1>18. LinkInv' /\ BlockInv'
  <2>1. KeepInum
    BY <1>1, Zenon DEF KeepInum
  <2>2. OwesTo'[p] = OwesTo[p]
    BY <1>1, <1>12, Zenon DEF OwesTo
  <2> QED
    BY <1>1, <1>6, <1>8, <1>10, <2>1, <2>2, SameDisk, Zenon
<1>19. ProcOK(p)'
  <2>1. LoneOK(p)' /\ PrivateOK(p)'
    BY <1>1, <1>2, <1>10, <1>11, Zenon DEF ProcOK, LoneOK, PrivateOK
  <2>2. ValidOK(p)'
    <3>1. \A t \in Slots : t = file[p] => valid'[t]
      BY <1>2, <1>7, Zenon DEF ProcOK, ValidOK
    <3>2. pc'[p] # "iput" /\ file'[p] = file[p]
      BY <1>1, <1>10, Zenon
    <3>3. \A t \in Slots : t \in {LockOf'[p], Owner'[p], file'[p]} => t = s \/ t = file[p]
      BY <1>12, <3>2, NoneIsNone, Zenon
    <3> QED
      BY <1>7, <3>1, <3>2, <3>3, Zenon DEF ValidOK
  <2>3. DirOK(p)'
    <3>1. pc[p] \notin {"iput", "ialloc"}
      BY <1>1, <1>3
    <3> QED
      BY <1>1, <1>2, <1>10, <1>13, <3>1, Zenon DEF ProcOK, DirOK
  <2>4. ArgOK(p)'
    <3>1. /\ pc'[p] \in IpLabels => pc[p] \in IpLabels
          /\ pc'[p] \notin PutLabels /\ pc'[p] \notin NumLabels
          /\ pc'[p] \in WriteLabels \cup {"write"} => pc[p] \in WriteLabels \cup {"write"}
          /\ pc'[p] \in NameLabels => pc[p] \in NameLabels
          /\ pc'[p] \in TwoLabels => pc[p] \in TwoLabels
      BY <1>1, <1>6 DEF Locks, IpLabels, PutLabels, WriteLabels, NumLabels, NameLabels,
                  TwoLabels, NewLabels, UnlinkLabels
    <3> QED
      BY <1>1, <1>2, <1>13, <3>1, Zenon DEF ProcOK, ArgOK
  <2> QED
    BY <2>1, <2>2, <2>3, <2>4, Zenon DEF ProcOK
<1>20. /\ \A t \in T : ref'[t] > 0 /\ valid'[t] => mem'[t] = cur'.ino[inum[t]]
       /\ \A t \in T : ref'[t] > 0 \/ ~Orphan(inum[t])' \/ Private'[p] = inum[t]
  BY <1>1, <1>5, <1>7, <1>15, Zenon
<1>21. pc'[p] # "panic" /\ Private[p] \in {None, Private'[p]}
  BY <1>10, <1>11, Zenon
<1> QED
  BY <1>1, <1>6, <1>8, <1>14, <1>16, <1>17, <1>18, <1>19, <1>20, <1>21, TouchStep, Zenon

(* All the calls of ilock().                                               *)
LEMMA IlockAll ==
  ASSUME Counting, NInv, NEW p \in Procs, IlockSteps(p)
  PROVE  NInv'
<1>1. Ilock(p, "lock_open", "opened") => NInv'
  <2>1. Locks("lock_open", "opened")
    BY Zenon DEF Locks
  <2> QED
    BY <2>1, IlockStep, Zenon
<1>2. Ilock(p, "lock_new", "new") => NInv'
  <2>1. Locks("lock_new", "new")
    BY Zenon DEF Locks
  <2> QED
    BY <2>1, IlockStep, Zenon
<1>3. Ilock(p, "lock_link", "linking") => NInv'
  <2>1. Locks("lock_link", "linking")
    BY Zenon DEF Locks
  <2> QED
    BY <2>1, IlockStep, Zenon
<1>4. Ilock(p, "lock_bad", "undo") => NInv'
  <2>1. Locks("lock_bad", "undo")
    BY Zenon DEF Locks
  <2> QED
    BY <2>1, IlockStep, Zenon
<1>5. Ilock(p, "lock_unlink", "unlinking") => NInv'
  <2>1. Locks("lock_unlink", "unlinking")
    BY Zenon DEF Locks
  <2> QED
    BY <2>1, IlockStep, Zenon
<1>6. Ilock(p, "write", "writing") => NInv'
  <2>1. Locks("write", "writing")
    BY Zenon DEF Locks
  <2> QED
    BY <2>1, IlockStep, Zenon
<1>7. Ilock(p, "lock_orphan", "orphan") => NInv'
  <2>1. Locks("lock_orphan", "orphan")
    BY Zenon DEF Locks
  <2> QED
    BY <2>1, IlockStep, Zenon
<1> QED
  BY <1>1, <1>2, <1>3, <1>4, <1>5, <1>6, <1>7, Zenon DEF IlockSteps

-----------------------------------------------------------------------------
(* Steps that change a link count                                          *)

(* The inode number i gets n more links, in memory and on disk.            *)
Recounted(s, i, n) ==
  /\ cur' \in Disk /\ cur'.type = cur.type /\ cur'.bitmap = cur.bitmap /\ cur'.dir = cur.dir
  /\ mem' \in [Slots -> Dinode] /\ mem'[s] = cur'.ino[i]
  /\ cur'.ino[i].nlink = cur.ino[i].nlink + n /\ cur'.ino[i].addr = cur.ino[i].addr
  /\ \A j \in Inums \ {i} : cur'.ino[j] = cur.ino[j]
  /\ \A t \in Slots \ {s} : mem'[t] = mem[t]

(* ip->nlink++ and ip->nlink--, and iupdate().                             *)
LEMMA AddLinkIs ==
  ASSUME Counting, NInv, NEW p \in Procs, NEW s \in Slots, LockOf[p] = s, ip[p] = s,
         NEW n \in {1, -1}, AddLink(p, n), cur.ino[inum[s]].nlink + n \in Nat
  PROVE  Recounted(s, inum[s], n)
<1>0. PICK i : i = inum[s]
  BY Zenon
<1>1. i \in cur.type /\ i \in Inums /\ mem[s] = cur.ino[i]
  BY <1>0, Locked, Zenon
<1>2. Shape
  BY Parts, ShapeTyped, Zenon
<1>3. PICK d : d = [mem[s] EXCEPT !.nlink = @ + n]
  BY Zenon
<1>4. mem[s] \in Dinode
  BY <1>2, Zenon DEF Shape
<1>5. d \in Dinode /\ d.nlink = mem[s].nlink + n /\ d.addr = mem[s].addr
  <2>1. mem[s].nlink + n \in Nat
    BY <1>0, <1>1, Zenon
  <2> QED
    BY ONLY <1>3, <1>4, <2>1 DEF Dinode
<1>6. mem' = [mem EXCEPT ![s] = d] /\ cur' = Iupdate(i, d)
  BY <1>0, <1>3, Zenon DEF AddLink
<1>7. cur \in Disk /\ cur.ino \in [Inums -> Dinode]
  BY <1>2, Parts, Types, Zenon DEF Shape
<1>8. /\ cur' \in Disk /\ cur'.type = cur.type \cup {i} /\ cur'.bitmap = cur.bitmap
      /\ cur'.dir = cur.dir /\ cur'.ino = [cur.ino EXCEPT ![i] = d]
  BY <1>1, <1>5, <1>6, <1>7, Updated, Zenon
<1>9. cur'.ino[i] = d /\ \A j \in Inums \ {i} : cur'.ino[j] = cur.ino[j]
  BY <1>1, <1>7, <1>8, Zenon
<1>10. cur'.type = cur.type
  BY <1>1, <1>8, Zenon
<1>11. mem' \in [Slots -> Dinode] /\ mem'[s] = d /\ \A t \in Slots \ {s} : mem'[t] = mem[t]
  BY <1>2, <1>5, <1>6, Zenon DEF Shape
<1> QED
  BY <1>0, <1>1, <1>5, <1>8, <1>9, <1>10, <1>11, Zenon DEF Recounted

(* The links after it, if the call owed one less or one more.              *)
LEMMA RecountLinks ==
  ASSUME Counting, NInv, Typed', NEW p \in Procs, Others(p), inum' = inum, NEW i \in cur.type,
         NEW s, NEW n \in {1, -1}, Recounted(s, i, n),
         \/ n = 1 /\ OwesTo[p] = None /\ OwesTo'[p] = i
         \/ n = -1 /\ OwesTo[p] = i /\ OwesTo'[p] = None,
         {pc[p], pc'[p]} \cap {"iupdate", "wrote"} = {}
  PROVE  LinkInv' /\ BlockInv'
<1>1. KeepInum
  BY Zenon DEF KeepInum
<1>2. Even(p)
  <2> SUFFICES ASSUME NEW j \in cur.type
               PROVE  cur'.ino[j].nlink + One(OwesTo[p], j) = cur.ino[j].nlink + One(OwesTo'[p], j)
    BY Zenon DEF Even
  <2>1. j \in Inums /\ i \in Inums /\ cur.ino \in [Inums -> Dinode]
    BY Parts, Types, Zenon
  <2>2. cur.ino[j].nlink \in Nat
    BY <2>1 DEF Dinode
  <2>3. One(None, j) = 0 /\ One(i, i) = 1
    BY <2>1, NoneIsNone, Zenon DEF One
  <2>4. CASE j # i
    <3>1. cur'.ino[j] = cur.ino[j]
      BY <2>1, <2>4, Zenon DEF Recounted
    <3>2. One(i, j) = 0
      BY <2>4, Zenon DEF One
    <3> QED
      BY <2>3, <3>1, <3>2, Zenon
  <2>5. CASE j = i
    <3>1. cur'.ino[j].nlink = cur.ino[j].nlink + n
      BY <2>5, Zenon DEF Recounted
    <3>2. \/ n = 1 /\ One(OwesTo[p], j) = 0 /\ One(OwesTo'[p], j) = 1
          \/ n = -1 /\ One(OwesTo[p], j) = 1 /\ One(OwesTo'[p], j) = 0
      BY <2>3, <2>5, Zenon
    <3> QED
      BY ONLY <2>2, <3>1, <3>2
  <2> QED
    BY <2>4, <2>5, Zenon
<1>3. SameBlocks(p)
  <2>1. \A j \in Inums : cur'.ino[j].addr = cur.ino[j].addr
    BY Zenon DEF Recounted
  <2> QED
    BY <2>1, Zenon DEF SameBlocks, Recounted
<1>4. cur'.type = cur.type /\ cur'.dir = cur.dir
  BY Zenon DEF Recounted
<1> QED
  BY <1>1, <1>2, <1>3, <1>4, LinkSame, BlockSame, Zenon

(* The entry of p that it changes.                                         *)
LEMMA RecountTouch ==
  ASSUME Counting, NInv, NEW p \in Procs, NEW s \in Slots, Holds(p, s), NEW n,
         Recounted(s, inum[s], n), inum' = inum, ref' = ref, valid' = valid, dlock' = dlock,
         Private'[p] = None
  PROVE  Touch(p, {s}) /\ ref[s] > 0 /\ mem'[s] = cur'.ino[inum[s]]
<1>1. ref[s] > 0
  BY HeldHasRef, Parts, Zenon
<1>2. /\ cur'.type = cur.type /\ cur'.dir = cur.dir /\ mem'[s] = cur'.ino[inum[s]]
      /\ \A j \in Inums : inum[s] # j => cur'.ino[j] = cur.ino[j]
      /\ \A t \in Slots \ {s} : mem'[t] = mem[t]
  BY Zenon DEF Recounted
<1>3. PICK T : T = {s}
  BY Zenon
<1>4. Touch(p, T)
  BY <1>2, <1>3, Zenon DEF Touch, DirSafe
<1> QED
  BY <1>1, <1>2, <1>3, <1>4, Zenon

(* sys_link() takes its link back, and sys_unlink() takes one away.        *)
LEMMA TakeLink ==
  ASSUME Counting, NInv, NEW p \in Procs, LinkUndoes(p) \/ UnlinkCounts(p)
  PROVE  NInv'
<1>0. PICK s : s = ip[p]
  BY Zenon
<1>1. /\ dur' = dur /\ inum' = inum /\ ref' = ref /\ valid' = valid /\ group' = group
      /\ boot' = boot /\ dlock' = dlock /\ file' = file /\ pc[p] \in {"undo", "erased"}
      /\ lock' = [lock EXCEPT ![s] = NoProc] /\ AddLink(p, -1) /\ ThenPut(p, s, "end")
  BY <1>0, Zenon DEF LinkUndoes, UnlinkCounts, Iunlock, logged
<1>2. Typed /\ ProcOK(p) /\ Rows(p) /\ Shape
  BY Parts, RowsNow, ShapeTyped, Zenon
<1>3. s \in Slots
  <2>1. pc[p] \in IpLabels
    BY <1>1 DEF IpLabels
  <2> QED
    BY <1>0, <1>2, <2>1, InIp, Zenon DEF ProcOK
<1>4. Has(p, s, None, s, s)
  BY <1>0, <1>1, <1>2, Zenon DEF Rows, HasRow
<1>5. valid[s] /\ inum[s] \in cur.type /\ inum[s] \in Inums /\ Holds(p, s)
  BY <1>3, <1>4, Locked, Zenon DEF Has
<1>6. /\ pc[p] \notin Putting /\ pc[p] \notin DirLabels
      /\ pc[p] \notin NewLabels \cup LoneLabels \cup NumLabels \cup {"wrote"}
      /\ pc[p] \notin {"iupdate", "wrote"}
  BY <1>1 DEF Putting, PutLabels, NewLabels, LoneLabels, TruncLabels, NumLabels, DirLabels, UnlinkLabels
<1>7. Alone(p, None, None, None, None) /\ ~InDir(p)
  BY <1>2, <1>6, Zenon DEF Rows, AloneRow, DirRow
<1>8. OwesTo[p] = inum[s]
  BY <1>3, <1>4, NoneIsNone, Zenon DEF OwesTo, Has
<1>9. Recounted(s, inum[s], -1)
  <2>1. cur.ino[inum[s]].nlink \in Nat /\ cur.ino[inum[s]].nlink > 0
    BY <1>5, <1>8, HasLink, Zenon
  <2>2. cur.ino[inum[s]].nlink + (-1) \in Nat /\ -1 \in {1, -1}
    BY ONLY <2>1
  <2> QED
    BY <1>0, <1>1, <1>3, <1>4, <2>2, AddLinkIs, Zenon DEF Has
<1>10. /\ Others(p) /\ pc'[p] = "iput" /\ put'[p] = s /\ ret'[p] = "end"
       /\ pc' \in [Procs -> Labels] /\ ip' \in [Procs -> Slots \cup {None}]
       /\ put' \in [Procs -> Slots \cup {None}] /\ num' \in [Procs -> Nat]
       /\ ret' \in [Procs -> {"end", "unlock_dir", "unlock_dir_bad"}] /\ DOMAIN arg' = Procs
  <2>1. "end" \in {"end", "unlock_dir"}
    BY Zenon
  <2> QED
    BY <1>1, <1>2, <1>3, <2>1, PutLocals, Zenon
<1>11. Typed'
  <2>1. lock' \in [Slots -> Procs \cup {NoProc}]
    BY <1>1, <1>2, Zenon DEF Shape
  <2>2. cur' \in Disk /\ mem' \in [Slots -> Dinode]
    BY <1>9, Zenon DEF Recounted
  <2>3. Shape'
    BY <1>1, <1>2, <1>10, <2>1, <2>2, Zenon DEF Shape
  <2> QED
    BY <2>3, ShapeNext, Zenon
<1>12. /\ Has(p, None, s, None, None)' /\ Alone(p, None, None, None, None)'
       /\ ~InDir(p)' /\ ~Bad(p)' /\ ArgOK(p)'
  <2>1. "end" \in {"end", "unlock_dir"} /\ "end" # "unlock_dir"
    OBVIOUS
  <2> QED
    BY <1>3, <1>10, <1>11, <2>1, PutNext, Zenon
<1>13. OwesTo'[p] = None
  BY <1>12, Zenon DEF OwesTo, Has
<1>14. Balanced(p)
  BY <1>1, <1>2, <1>4, <1>12, MoveBalance, Zenon DEF Has
<1>15. PICK T : T = {s}
  BY Zenon
<1>16. /\ Touch(p, T)
       /\ \A t \in T : ref'[t] > 0 /\ valid'[t] => mem'[t] = cur'.ino[inum[t]]
       /\ \A t \in T : ref'[t] > 0 \/ ~Orphan(inum[t])' \/ Private'[p] = inum[t]
  <2>1. Private'[p] = None
    BY <1>12, Zenon DEF Alone
  <2>2. PICK n : n = -1
    BY Zenon
  <2>3. Recounted(s, inum[s], n)
    BY <1>9, <2>2, Zenon
  <2>4. Touch(p, {s}) /\ ref[s] > 0 /\ mem'[s] = cur'.ino[inum[s]]
    BY <1>1, <1>3, <1>5, <2>1, <2>3, RecountTouch, Zenon
  <2> QED
    BY <1>1, <1>15, <2>4, Zenon
<1>17. LockInv'
  BY <1>1, <1>3, <1>4, <1>10, <1>12, LockDropped, Zenon DEF Has
<1>18. {pc[p], pc'[p]} \cap {"iupdate", "wrote"} = {} /\ pc'[p] \notin {"panic", "unref"}
       /\ pc'[p] \notin NewLabels \cup {"ialloc"} /\ pc'[p] \notin UnlinkLabels
  BY <1>6, <1>10 DEF NewLabels, UnlinkLabels
<1>19. LinkInv' /\ BlockInv'
  <2>1. PICK i \in cur.type : i = inum[s]
    BY <1>5, Zenon
  <2>2. -1 \in {1, -1}
    OBVIOUS
  <2> QED
    BY <1>1, <1>8, <1>9, <1>10, <1>11, <1>13, <1>18, <2>1, <2>2, RecountLinks, Zenon
<1>20. ProcOK(p)'
  <2>1. LoneOK(p)' /\ PrivateOK(p)'
    BY <1>12, <1>18, NoLoneNext, Zenon
  <2>2. ValidOK(p)'
    <3>1. \A t \in Slots : t = file[p] => valid[t]
      BY <1>2, Zenon DEF ProcOK, ValidOK
    <3> QED
      BY <1>1, <1>5, <1>10, <1>12, <3>1, NoneIsNone, Zenon DEF Has, ValidOK
  <2>3. DirOK(p)'
    BY <1>1, <1>2, <1>7, <1>12, <1>18, Zenon DEF ProcOK, DirOK
  <2> QED
    BY <1>12, <2>1, <2>2, <2>3, Zenon DEF ProcOK
<1>21. pc'[p] # "panic" /\ Private[p] \in {None, Private'[p]}
  BY <1>7, <1>18, Zenon DEF Alone
<1> QED
  BY <1>1, <1>10, <1>11, <1>14, <1>16, <1>17, <1>19, <1>20, <1>21, TouchStep, Zenon

(* sys_link() counts the link before it enters the name.                   *)
LEMMA CountLink ==
  ASSUME Counting, NInv, NEW p \in Procs, pc[p] = "linking", Iunlock(p), AddLink(p, 1),
         Go(p, "link_dir"), UNCHANGED <<ret, local, logged, inum, ref, valid, dlock, file, boot>>
  PROVE  NInv'
<1>0. PICK s : s = ip[p]
  BY Zenon
<1>1. /\ dur' = dur /\ inum' = inum /\ ref' = ref /\ valid' = valid /\ group' = group
      /\ boot' = boot /\ dlock' = dlock /\ file' = file
      /\ ret' = ret /\ arg' = arg /\ ip' = ip /\ put' = put /\ num' = num
      /\ lock' = [lock EXCEPT ![s] = NoProc]
  BY <1>0, Zenon DEF Iunlock, logged, local
<1>2. Typed /\ ProcOK(p) /\ Rows(p) /\ Shape
  BY Parts, RowsNow, ShapeTyped, Zenon
<1>3. s \in Slots
  <2>1. pc[p] \in IpLabels
    BY DEF IpLabels
  <2> QED
    BY <1>0, <1>2, <2>1, InIp, Zenon DEF ProcOK
<1>4. Has(p, s, None, s, None)
  <2>1. pc[p] \in {"opened", "linking", "unlinking", "orphan", "new"}
    BY Zenon
  <2> QED
    BY <1>0, <1>2, <2>1, Zenon DEF Rows, HasRow
<1>5. valid[s] /\ inum[s] \in cur.type /\ inum[s] \in Inums /\ Holds(p, s)
  BY <1>3, <1>4, Locked, Zenon DEF Has
<1>6. Others(p) /\ pc'[p] = "link_dir" /\ pc' \in [Procs -> Labels]
  <2>1. "link_dir" \in Labels
    BY DEF Labels
  <2> QED
    BY <1>1, <1>2, <2>1, GoLocals, Zenon
<1>7. Recounted(s, inum[s], 1)
  <2>1. cur.ino[inum[s]].nlink \in Nat
    BY <1>2, <1>5, Types DEF Dinode
  <2>2. cur.ino[inum[s]].nlink + 1 \in Nat /\ 1 \in {1, -1}
    BY ONLY <2>1
  <2> QED
    BY <1>0, <1>3, <1>4, <2>2, AddLinkIs, Zenon DEF Has
<1>8. Typed'
  <2>1. lock' \in [Slots -> Procs \cup {NoProc}]
    BY <1>1, <1>2, Zenon DEF Shape
  <2>2. cur' \in Disk /\ mem' \in [Slots -> Dinode]
    BY <1>7, Zenon DEF Recounted
  <2>3. Shape'
    BY <1>1, <1>2, <1>6, <2>1, <2>2, Zenon DEF Shape
  <2> QED
    BY <2>3, ShapeNext, Zenon
<1>9. Rows(p)'
  BY <1>8, RowsNext, Zenon
<1>10. /\ pc[p] \notin Putting /\ pc'[p] \notin Putting /\ pc[p] \notin DirLabels /\ pc'[p] \notin DirLabels
       /\ pc[p] \notin NewLabels \cup LoneLabels \cup NumLabels \cup {"wrote"}
       /\ pc'[p] \notin NewLabels \cup LoneLabels \cup NumLabels \cup {"wrote"}
       /\ {pc[p], pc'[p]} \cap {"iupdate", "wrote"} = {} /\ pc'[p] \notin {"panic", "iput", "unref"}
       /\ pc'[p] \notin NewLabels \cup {"ialloc"} /\ pc'[p] \notin UnlinkLabels
       /\ pc'[p] \in {"link_dir", "lock_bad", "unlock_dir_bad"}
  BY <1>6 DEF Putting, PutLabels, NewLabels, LoneLabels, TruncLabels, NumLabels, DirLabels, UnlinkLabels
<1>11. Alone(p, None, None, None, None) /\ ~InDir(p) /\ ~Bad(p)
  BY <1>2, <1>10, Zenon DEF Rows, AloneRow, DirRow
<1>12. Alone(p, None, None, None, None)' /\ ~InDir(p)' /\ ~Bad(p)'
  BY <1>9, <1>10, Zenon DEF Rows, AloneRow, DirRow
<1>13. Has(p, s, None, None, s)'
  BY <1>0, <1>1, <1>9, <1>10, Zenon DEF Rows, HasRow, Has
<1>14. OwesTo[p] = None /\ OwesTo'[p] = inum[s]
  BY <1>1, <1>3, <1>4, <1>13, NoneIsNone, Zenon DEF OwesTo, Has
<1>15. Balanced(p)
  BY <1>1, <1>4, <1>13, SameBalance, Zenon DEF Has
<1>16. PICK T : T = {s}
  BY Zenon
<1>17. /\ Touch(p, T)
       /\ \A t \in T : ref'[t] > 0 /\ valid'[t] => mem'[t] = cur'.ino[inum[t]]
       /\ \A t \in T : ref'[t] > 0 \/ ~Orphan(inum[t])' \/ Private'[p] = inum[t]
  <2>1. Private'[p] = None
    BY <1>12, Zenon DEF Alone
  <2>2. PICK n : Recounted(s, inum[s], n)
    BY <1>7, Zenon
  <2>3. inum' = inum /\ ref' = ref /\ valid' = valid /\ dlock' = dlock
    BY <1>1, Zenon
  <2>4. Touch(p, {s}) /\ ref[s] > 0 /\ mem'[s] = cur'.ino[inum[s]]
    BY <1>3, <1>5, <2>1, <2>2, <2>3, RecountTouch, Zenon
  <2> QED
    BY <1>16, <2>3, <2>4, Zenon
<1>18. LockInv'
  BY <1>1, <1>3, <1>4, <1>6, <1>13, LockDropped, Zenon DEF Has
<1>19. LinkInv' /\ BlockInv'
  <2>1. PICK i \in cur.type : i = inum[s]
    BY <1>5, Zenon
  <2>2. 1 \in {1, -1}
    OBVIOUS
  <2> QED
    BY <1>1, <1>6, <1>7, <1>8, <1>10, <1>14, <2>1, <2>2, RecountLinks, Zenon
<1>20. ProcOK(p)'
  <2>1. LoneOK(p)' /\ PrivateOK(p)'
    BY <1>10, <1>12, NoLoneNext, Zenon
  <2>2. ValidOK(p)'
    <3>1. \A t \in Slots : t = file[p] => valid[t]
      BY <1>2, Zenon DEF ProcOK, ValidOK
    <3>2. pc'[p] # "iput" /\ LockOf'[p] = None /\ Owner'[p] = s
      BY <1>10, <1>13, Zenon DEF Has
    <3> QED
      BY <1>1, <1>5, <3>1, <3>2, NoneIsNone, Zenon DEF ValidOK
  <2>3. DirOK(p)'
    BY <1>1, <1>2, <1>10, <1>11, <1>12, Zenon DEF ProcOK, DirOK
  <2>4. ArgOK(p)'
    <3>1. /\ pc[p] \in IpLabels /\ pc[p] \in TwoLabels
          /\ pc'[p] \notin PutLabels /\ pc'[p] \notin NumLabels
          /\ pc'[p] \notin WriteLabels \cup {"write"} /\ pc'[p] \notin NameLabels
      BY <1>6 DEF IpLabels, PutLabels, WriteLabels, NumLabels, NameLabels,
                  TwoLabels, NewLabels, UnlinkLabels
    <3> QED
      BY <1>1, <1>2, <1>12, <3>1, Zenon DEF ProcOK, ArgOK
  <2> QED
    BY <2>1, <2>2, <2>3, <2>4, Zenon DEF ProcOK
<1>21. pc'[p] # "panic" /\ Private[p] \in {None, Private'[p]}
  BY <1>10, <1>11, Zenon DEF Alone
<1> QED
  BY <1>1, <1>6, <1>8, <1>15, <1>17, <1>18, <1>19, <1>20, <1>21, TouchStep, Zenon

(* sys_link() with the inode locked; or there are too many links.          *)
LEMMA LinkCountsStep ==
  ASSUME Counting, NInv, NEW p \in Procs, LinkCounts(p)
  PROVE  NInv'
<1>1. /\ pc[p] = "linking" /\ Iunlock(p)
      /\ UNCHANGED <<logged, inum, ref, valid, dlock, file, boot>>
  BY Zenon DEF LinkCounts
<1>2. CASE ThenPut(p, ip[p], "end") /\ UNCHANGED <<cur, mem>>
  <2>1. /\ UNCHANGED <<cur, dur, inum, ref, valid, mem, boot, dlock, file, group>>
        /\ pc[p] \in {"opened", "linking", "orphan"} /\ "end" \in {"end", "unlock_dir"}
    BY <1>1, <1>2, Zenon DEF logged
  <2> QED
    BY <1>1, <1>2, <2>1, UnlockPut, Zenon
<1>3. CASE AddLink(p, 1) /\ Go(p, "link_dir") /\ UNCHANGED <<ret, local>>
  BY <1>1, <1>3, CountLink, Zenon
<1> QED
  BY <1>2, <1>3, Zenon DEF LinkCounts

-----------------------------------------------------------------------------
(* Steps that change the directory                                         *)

(* dirlink() and the clearing of an entry.                                 *)
Edit(D, n, i) == [D EXCEPT !.dir[n] = i]

(* They change one entry.                                                  *)
LEMMA DirEdit ==
  ASSUME NEW D \in Disk, NEW n \in Names, NEW i \in Inums \cup {None},
         NEW E, E = Edit(D, n, i)
  PROVE  /\ E \in Disk /\ E.type = D.type /\ E.ino = D.ino /\ E.bitmap = D.bitmap
         /\ Differ(Names, D.dir, E.dir, n) /\ E.dir[n] = i
<1>1. D.dir \in [Names -> Inums \cup {None}]
  BY DEF Disk
<1>2. [D.dir EXCEPT ![n] = i] \in [Names -> Inums \cup {None}]
  BY <1>1, Zenon
<1>3. E \in Disk
  BY <1>2, Zenon DEF Disk, Edit
<1>4. E.type = D.type /\ E.ino = D.ino /\ E.bitmap = D.bitmap
  BY DEF Disk, Edit
<1>5. E.dir = [D.dir EXCEPT ![n] = i]
  BY DEF Disk, Edit
<1>6. Differ(Names, D.dir, E.dir, n) /\ E.dir[n] = i
  BY <1>1, <1>5, InodeAssumption, Zenon DEF Differ, InodeAssumption
<1> QED
  BY <1>3, <1>4, <1>6, Zenon

(* The link that a call owes goes to or comes from the directory.          *)
LEMMA EditLinks ==
  ASSUME Counting, NInv, Typed', NEW p \in Procs, Others(p), inum' = inum, NEW n \in Names,
         NEW i \in cur.type, cur'.type = cur.type, cur'.ino = cur.ino, cur'.bitmap = cur.bitmap,
         Differ(Names, cur.dir, cur'.dir, n),
         \/ /\ cur.dir[n] = None /\ cur'.dir[n] = i
            /\ OwesTo[p] = i /\ OwesTo'[p] = None
         \/ /\ cur.dir[n] = i /\ cur'.dir[n] = None
            /\ OwesTo[p] = None /\ OwesTo'[p] = i,
         {pc[p], pc'[p]} \cap {"iupdate", "wrote"} = {}
  PROVE  LinkInv' /\ BlockInv'
<1>1. KeepInum
  BY Zenon DEF KeepInum
<1>2. EvenAt(p, n)
  <2>1. ASSUME NEW j \in cur.type
        PROVE  cur'.ino[j].nlink + One(OwesTo[p], j) + One(cur.dir[n], j)
                 = cur.ino[j].nlink + One(OwesTo'[p], j) + One(cur'.dir[n], j)
    <3>1. j \in Inums /\ cur.ino \in [Inums -> Dinode]
      BY Parts, Types, Zenon
    <3>2. cur.ino[j].nlink \in Nat
      BY <3>1 DEF Dinode
    <3>3. One(i, j) \in {0, 1} /\ One(None, j) \in {0, 1}
      BY DEF One
    <3> QED
      <4>1. cur'.ino[j].nlink = cur.ino[j].nlink
        BY Zenon
      <4>2. CASE cur.dir[n] = None /\ cur'.dir[n] = i /\ OwesTo[p] = i /\ OwesTo'[p] = None
        BY ONLY <3>2, <3>3, <4>1, <4>2
      <4>3. CASE cur.dir[n] = i /\ cur'.dir[n] = None /\ OwesTo[p] = None /\ OwesTo'[p] = i
        BY ONLY <3>2, <3>3, <4>1, <4>3
      <4> QED
        BY <4>2, <4>3, Zenon
  <2> QED
    BY <2>1, Zenon DEF EvenAt
<1>3. SameBlocks(p)
  BY Zenon DEF SameBlocks
<1> QED
  BY <1>1, <1>2, <1>3, LinkChanged, BlockSame, Zenon

(* sys_link() enters the name.                                             *)
LEMMA EnterLink ==
  ASSUME Counting, NInv, NEW p \in Procs, pc[p] = "link_dir", dlock = NoProc,
         cur.dir[arg[p][2]] = None, cur' = [cur EXCEPT !.dir[arg[p][2]] = inum[ip[p]]],
         ThenPut(p, ip[p], "end"), UNCHANGED <<logged, table, dlock, file, boot>>
  PROVE  NInv'
<1>0. PICK s, n, i : s = ip[p] /\ n = arg[p][2] /\ i = inum[s]
  BY Zenon
<1>1. /\ dur' = dur /\ inum' = inum /\ ref' = ref /\ valid' = valid /\ mem' = mem /\ lock' = lock
      /\ group' = group /\ boot' = boot /\ dlock' = dlock /\ file' = file
      /\ ThenPut(p, s, "end") /\ cur.dir[n] = None /\ cur' = [cur EXCEPT !.dir[n] = i]
  BY <1>0, Zenon DEF logged, table
<1>2. Typed /\ ProcOK(p) /\ Rows(p) /\ Shape
  BY Parts, RowsNow, ShapeTyped, Zenon
<1>3. s \in Slots /\ n \in Names
  <2>1. pc[p] \in IpLabels /\ pc[p] \in TwoLabels
    BY DEF IpLabels, TwoLabels
  <2> QED
    BY <1>0, <1>2, <2>1, InIp, Zenon DEF ProcOK, ArgOK
<1>4. Has(p, s, None, None, s)
  <2>1. pc[p] \in {"link_dir", "lock_bad", "unlock_dir_bad"}
    BY Zenon
  <2> QED
    BY <1>0, <1>2, <2>1, Zenon DEF Rows, HasRow
<1>5. valid[s] /\ i \in cur.type /\ i \in Inums
  <2>1. Holds(p, s)
    BY <1>4, Zenon DEF Has, Holds
  <2>2. ref[s] > 0
    BY <1>2, <1>3, <2>1, HeldHasRef, Parts, Zenon
  <2>3. valid[s]
    BY <1>2, <1>3, <1>4, Zenon DEF ProcOK, ValidOK, Has
  <2> QED
    BY <1>0, <1>2, <1>3, <2>2, <2>3, Parts, Types, Zenon DEF TableInv
<1>6. /\ cur' \in Disk /\ cur'.type = cur.type /\ cur'.ino = cur.ino /\ cur'.bitmap = cur.bitmap
      /\ Differ(Names, cur.dir, cur'.dir, n) /\ cur'.dir[n] = i
  <2>1. PICK D, E : D = cur /\ E = cur'
    BY Zenon
  <2>2. D \in Disk /\ i \in Inums \cup {None} /\ E = Edit(D, n, i)
    BY <1>1, <1>2, <1>5, <2>1, Zenon DEF Shape, Edit
  <2>3. /\ E \in Disk /\ E.type = D.type /\ E.ino = D.ino /\ E.bitmap = D.bitmap
        /\ Differ(Names, D.dir, E.dir, n) /\ E.dir[n] = i
    BY ONLY <1>3, <2>2, DirEdit
  <2> QED
    BY <2>1, <2>3, Zenon
<1>7. /\ Others(p) /\ pc'[p] = "iput" /\ put'[p] = s /\ ret'[p] = "end"
      /\ pc' \in [Procs -> Labels] /\ ip' \in [Procs -> Slots \cup {None}]
      /\ put' \in [Procs -> Slots \cup {None}] /\ num' \in [Procs -> Nat]
      /\ ret' \in [Procs -> {"end", "unlock_dir", "unlock_dir_bad"}] /\ DOMAIN arg' = Procs
  <2>1. "end" \in {"end", "unlock_dir"}
    BY Zenon
  <2> QED
    BY <1>1, <1>2, <1>3, <2>1, PutLocals, Zenon
<1>8. Typed'
  <2>1. Shape'
    BY <1>1, <1>2, <1>6, <1>7, Zenon DEF Shape
  <2> QED
    BY <2>1, ShapeNext, Zenon
<1>9. /\ Has(p, None, s, None, None)' /\ Alone(p, None, None, None, None)'
      /\ ~InDir(p)' /\ ~Bad(p)' /\ ArgOK(p)'
  <2>1. "end" \in {"end", "unlock_dir"} /\ "end" # "unlock_dir"
    OBVIOUS
  <2> QED
    BY <1>3, <1>7, <1>8, <2>1, PutNext, Zenon
<1>10. OwesTo[p] = i /\ OwesTo'[p] = None
  BY <1>0, <1>3, <1>4, <1>9, NoneIsNone, Zenon DEF OwesTo, Has
<1>11. /\ pc[p] \notin Putting /\ pc[p] \notin DirLabels
       /\ pc[p] \notin NewLabels \cup LoneLabels \cup NumLabels \cup {"wrote"}
       /\ {pc[p], pc'[p]} \cap {"iupdate", "wrote"} = {} /\ pc'[p] \notin {"panic", "unref"}
       /\ pc'[p] \notin NewLabels \cup {"ialloc"} /\ pc'[p] \notin UnlinkLabels
  BY <1>7 DEF Putting, PutLabels, NewLabels, LoneLabels, TruncLabels, NumLabels, DirLabels, UnlinkLabels
<1>12. Alone(p, None, None, None, None) /\ ~InDir(p)
  BY <1>2, <1>11, Zenon DEF Rows, AloneRow, DirRow
<1>13. Balanced(p)
  BY <1>1, <1>2, <1>4, <1>9, MoveBalance, Zenon DEF Has
<1>14. PICK T : T = {}
  BY Zenon
<1>15. Touch(p, T)
  BY <1>1, <1>6, <1>9, <1>14, Zenon DEF Touch, DirSafe, Alone
<1>16. LockInv'
  BY <1>1, <1>4, <1>7, <1>9, LockKept, Zenon DEF Has
<1>17. LinkInv' /\ BlockInv'
  BY <1>1, <1>3, <1>5, <1>6, <1>7, <1>8, <1>10, <1>11, EditLinks, Zenon
<1>18. ProcOK(p)'
  <2>1. LoneOK(p)' /\ PrivateOK(p)'
    BY <1>9, <1>11, NoLoneNext, Zenon
  <2>2. ValidOK(p)'
    <3>1. \A t \in Slots : t = file[p] => valid[t]
      BY <1>2, Zenon DEF ProcOK, ValidOK
    <3>2. LockOf'[p] = None /\ Owner'[p] = None
      BY <1>9, Zenon DEF Has
    <3>3. \A t \in Slots : t \in {LockOf'[p], Owner'[p], file'[p]} => valid'[t]
      BY <1>1, <3>1, <3>2, NoneIsNone, Zenon
    <3> QED
      BY <1>1, <1>5, <1>7, <3>3, Zenon DEF ValidOK
  <2>3. DirOK(p)'
    BY <1>1, <1>2, <1>9, <1>11, <1>12, Zenon DEF ProcOK, DirOK
  <2> QED
    BY <1>9, <2>1, <2>2, <2>3, Zenon DEF ProcOK
<1>19. /\ \A t \in T : ref'[t] > 0 /\ valid'[t] => mem'[t] = cur'.ino[inum[t]]
       /\ \A t \in T : ref'[t] > 0 \/ ~Orphan(inum[t])' \/ Private'[p] = inum[t]
       /\ pc'[p] # "panic" /\ Private[p] \in {None, Private'[p]}
  BY <1>11, <1>12, <1>14, Zenon DEF Alone
<1> QED
  BY <1>1, <1>7, <1>8, <1>13, <1>15, <1>16, <1>17, <1>18, <1>19, TouchStep, Zenon

(* sys_link() with the directory locked.                                   *)
LEMMA LinkEntersStep ==
  ASSUME Counting, NInv, NEW p \in Procs, LinkEnters(p)
  PROVE  NInv'
<1>1. /\ pc[p] = "link_dir" /\ dlock = NoProc /\ cur.dir[arg[p][2]] = None
      /\ UNCHANGED <<logged, table, dlock, file, boot>>
  BY Zenon DEF LinkEnters
<1>2. CASE cur' = [cur EXCEPT !.dir[arg[p][2]] = inum[ip[p]]] /\ ThenPut(p, ip[p], "end")
  BY <1>1, <1>2, EnterLink, Zenon
<1>3. CASE Go(p, "lock_bad") /\ UNCHANGED <<cur, ret, local>>
  <2>1. Leaves(p, "lock_bad") /\ UNCHANGED <<cur, logged, table, file, ret, local, boot>>
    BY <1>1, <1>3, Zenon DEF Leaves
  <2> QED
    BY <1>3, <2>1, MoveOn, Zenon
<1> QED
  BY <1>2, <1>3, Zenon DEF LinkEnters

(* sys_unlink() erases the entry that it has found; the inode has a link.  *)
LEMMA UnlinkErasesStep ==
  ASSUME Counting, NInv, NEW p \in Procs, UnlinkErases(p)
  PROVE  NInv'
<1>0. PICK s, n, i : s = ip[p] /\ n = arg[p][1] /\ i = inum[s]
  BY Zenon
<1>1. /\ dur' = dur /\ inum' = inum /\ ref' = ref /\ valid' = valid /\ mem' = mem /\ lock' = lock
      /\ group' = group /\ boot' = boot /\ file' = file /\ dlock' = NoProc /\ pc[p] = "unlinking"
      /\ ret' = ret /\ arg' = arg /\ ip' = ip /\ put' = put /\ num' = num
      /\ cur' = [cur EXCEPT !.dir[n] = None]
      /\ Go(p, IF mem[s].nlink < 1 THEN "panic" ELSE "erased")
  BY <1>0, Zenon DEF UnlinkErases, logged, table, local
<1>2. Typed /\ ProcOK(p) /\ Rows(p) /\ Shape
  BY Parts, RowsNow, ShapeTyped, Zenon
<1>3. /\ pc[p] \in {"opened", "linking", "unlinking", "orphan", "new"} /\ pc[p] \in IpLabels
      /\ pc[p] \in NameLabels /\ pc[p] \in UnlinkLabels
      /\ pc[p] \notin Putting /\ pc[p] \in DirLabels
      /\ pc[p] \notin NewLabels \cup LoneLabels \cup NumLabels \cup {"wrote"}
  BY <1>1 DEF IpLabels, NameLabels, Putting, PutLabels, NewLabels, LoneLabels, TruncLabels,
     NumLabels, DirLabels, UnlinkLabels
<1>4. s \in Slots /\ n \in Names /\ cur.dir[n] = i
  BY <1>0, <1>2, <1>3, InIp, Zenon DEF ProcOK, ArgOK, DirOK
<1>5. Has(p, s, None, s, None) /\ Alone(p, None, None, None, None) /\ InDir(p)
  BY <1>0, <1>2, <1>3, Zenon DEF Rows, HasRow, AloneRow, DirRow
<1>6. valid[s] /\ i \in cur.type /\ i \in Inums /\ mem[s] = cur.ino[i]
  BY <1>0, <1>4, <1>5, Locked, Zenon DEF Has
<1>7. /\ cur' \in Disk /\ cur'.type = cur.type /\ cur'.ino = cur.ino /\ cur'.bitmap = cur.bitmap
      /\ Differ(Names, cur.dir, cur'.dir, n) /\ cur'.dir[n] = None
  <2>1. PICK D, E : D = cur /\ E = cur'
    BY Zenon
  <2>2. D \in Disk /\ None \in Inums \cup {None} /\ E = Edit(D, n, None)
    BY <1>1, <1>2, <2>1, Zenon DEF Shape, Edit
  <2>3. /\ E \in Disk /\ E.type = D.type /\ E.ino = D.ino /\ E.bitmap = D.bitmap
        /\ Differ(Names, D.dir, E.dir, n) /\ E.dir[n] = None
    BY ONLY <1>4, <2>2, DirEdit
  <2> QED
    BY <2>1, <2>3, Zenon
<1>8. Others(p) /\ pc'[p] = "erased" /\ pc' \in [Procs -> Labels]
  <2>1. cur.ino[i].nlink \in Nat /\ cur.ino[i].nlink > 0
    BY <1>4, <1>6, HasLink, Zenon
  <2>2. ~(mem[s].nlink < 1)
    BY ONLY <1>6, <2>1
  <2>3. Go(p, "erased") /\ "erased" \in Labels
    BY <1>1, <2>2, Zenon DEF Labels
  <2> QED
    BY <1>1, <1>2, <2>3, GoLocals, Zenon
<1>9. Typed'
  <2>1. Shape'
    BY <1>1, <1>2, <1>7, <1>8, Zenon DEF Shape
  <2> QED
    BY <2>1, ShapeNext, Zenon
<1>10. Rows(p)'
  BY <1>9, RowsNext, Zenon
<1>11. /\ pc'[p] \notin Putting /\ pc'[p] \notin DirLabels
       /\ pc'[p] \notin NewLabels \cup LoneLabels \cup NumLabels \cup {"wrote"}
       /\ {pc[p], pc'[p]} \cap {"iupdate", "wrote"} = {} /\ pc'[p] \notin {"panic", "iput", "unref"}
       /\ pc'[p] \notin NewLabels \cup {"ialloc"} /\ pc'[p] \notin UnlinkLabels
       /\ pc'[p] \in {"undo", "erased"}
  BY <1>1, <1>8 DEF Putting, PutLabels, NewLabels, LoneLabels, TruncLabels, NumLabels, DirLabels, UnlinkLabels
<1>12. Has(p, s, None, s, s)'
  BY <1>0, <1>1, <1>10, <1>11, Zenon DEF Rows, HasRow, Has
<1>13. Alone(p, None, None, None, None)' /\ ~InDir(p)' /\ ~Bad(p)'
  BY <1>10, <1>11, Zenon DEF Rows, AloneRow, DirRow
<1>14. OwesTo[p] = None /\ OwesTo'[p] = i
  BY <1>0, <1>1, <1>4, <1>5, <1>12, NoneIsNone, Zenon DEF OwesTo, Has
<1>15. Balanced(p)
  BY <1>1, <1>5, <1>12, SameBalance, Zenon DEF Has
<1>16. PICK T : T = {}
  BY Zenon
<1>17. Touch(p, T)
  <2>1. DirSafe(p)
    BY <1>1, <1>2, <1>5, Zenon DEF ProcOK, DirOK, DirSafe
  <2> QED
    BY <1>1, <1>7, <1>13, <1>16, <2>1, Zenon DEF Touch, Alone
<1>18. LockInv'
  BY <1>1, <1>5, <1>8, <1>12, LockKept, Zenon DEF Has
<1>19. LinkInv' /\ BlockInv'
  BY <1>1, <1>4, <1>6, <1>7, <1>8, <1>9, <1>11, <1>14, EditLinks, Zenon
<1>20. ProcOK(p)'
  <2>1. LoneOK(p)' /\ PrivateOK(p)'
    BY <1>11, <1>13, NoLoneNext, Zenon
  <2>2. ValidOK(p)'
    <3>1. \A t \in Slots : t = file[p] => valid[t]
      BY <1>2, Zenon DEF ProcOK, ValidOK
    <3>2. pc'[p] # "iput" /\ LockOf'[p] = s /\ Owner'[p] = s
      BY <1>11, <1>12, Zenon DEF Has
    <3> QED
      BY <1>1, <1>6, <3>1, <3>2, Zenon DEF ValidOK
  <2>3. DirOK(p)'
    <3>1. p # NoProc
      BY InodeAssumption DEF InodeAssumption
    <3> QED
      BY <1>1, <1>11, <1>13, <3>1, Zenon DEF DirOK
  <2>4. ArgOK(p)'
    <3>1. /\ pc'[p] \notin PutLabels /\ pc'[p] \notin NumLabels /\ pc'[p] \notin TwoLabels
          /\ pc'[p] \notin WriteLabels \cup {"write"} /\ pc'[p] \notin NameLabels
      BY <1>8 DEF PutLabels, WriteLabels, NumLabels, NameLabels, TwoLabels, NewLabels, UnlinkLabels
    <3> QED
      BY <1>1, <1>2, <1>3, <1>13, <3>1, Zenon DEF ProcOK, ArgOK
  <2> QED
    BY <2>1, <2>2, <2>3, <2>4, Zenon DEF ProcOK
<1>21. /\ \A t \in T : ref'[t] > 0 /\ valid'[t] => mem'[t] = cur'.ino[inum[t]]
       /\ \A t \in T : ref'[t] > 0 \/ ~Orphan(inum[t])' \/ Private'[p] = inum[t]
       /\ pc'[p] # "panic" /\ Private[p] \in {None, Private'[p]}
  BY <1>5, <1>11, <1>16, Zenon DEF Alone
<1> QED
  BY <1>1, <1>8, <1>9, <1>15, <1>17, <1>18, <1>19, <1>20, <1>21, TouchStep, Zenon

(* What create() writes for the new inode: one link, and its name.         *)
LEMMA CreateWrites ==
  ASSUME NInv, NEW s \in Slots, NEW n \in Names, NEW i \in cur.type, mem[s] = cur.ino[i],
         mem' = [mem EXCEPT ![s].nlink = 1],
         cur' = [Iupdate(i, [mem[s] EXCEPT !.nlink = 1]) EXCEPT !.dir[n] = i]
  PROVE  /\ cur' \in Disk /\ cur'.type = cur.type /\ cur'.bitmap = cur.bitmap
         /\ Differ(Names, cur.dir, cur'.dir, n) /\ cur'.dir[n] = i
         /\ mem' \in [Slots -> Dinode] /\ mem'[s] = cur'.ino[i]
         /\ cur'.ino[i].nlink = 1 /\ cur'.ino[i].addr = cur.ino[i].addr
         /\ \A j \in Inums \ {i} : cur'.ino[j] = cur.ino[j]
         /\ \A t \in Slots \ {s} : mem'[t] = mem[t]
<1>1. Shape /\ i \in Inums /\ cur.ino \in [Inums -> Dinode] /\ cur \in Disk
  BY Parts, Types, ShapeTyped, Zenon DEF Shape
<1>2. PICK d : d = [mem[s] EXCEPT !.nlink = 1]
  BY Zenon
<1>3. mem[s] \in Dinode
  BY <1>1, Zenon DEF Shape
<1>4. d \in Dinode /\ d.nlink = 1 /\ d.addr = mem[s].addr
  BY ONLY <1>2, <1>3 DEF Dinode
<1>5. mem' = [mem EXCEPT ![s] = d]
  BY <1>2, Zenon
<1>6. mem' \in [Slots -> Dinode] /\ mem'[s] = d /\ \A t \in Slots \ {s} : mem'[t] = mem[t]
  BY <1>1, <1>4, <1>5, Zenon DEF Shape
<1>7. PICK D, E : D = Iupdate(i, d) /\ E = cur'
  BY Zenon
<1>8. /\ D \in Disk /\ D.type = cur.type \cup {i} /\ D.bitmap = cur.bitmap
      /\ D.dir = cur.dir /\ D.ino = [cur.ino EXCEPT ![i] = d]
  BY <1>1, <1>4, <1>7, Updated, Zenon
<1>9. E = Edit(D, n, i) /\ i \in Inums \cup {None}
  BY <1>1, <1>2, <1>7, Zenon DEF Edit
<1>10. /\ E \in Disk /\ E.type = D.type /\ E.ino = D.ino /\ E.bitmap = D.bitmap
       /\ Differ(Names, D.dir, E.dir, n) /\ E.dir[n] = i
  BY ONLY <1>8, <1>9, n \in Names, DirEdit
<1>11. D.ino[i] = d /\ \A j \in Inums \ {i} : D.ino[j] = cur.ino[j]
  BY <1>1, <1>8, Zenon
<1>12. D.type = cur.type
  BY <1>8, Zenon
<1>13. cur'.ino = D.ino
  BY <1>7, <1>10, Zenon
<1>14. /\ cur' \in Disk /\ cur'.type = cur.type /\ cur'.bitmap = cur.bitmap
       /\ Differ(Names, cur.dir, cur'.dir, n) /\ cur'.dir[n] = i
  BY <1>7, <1>8, <1>10, <1>12, Zenon
<1> QED
  BY <1>4, <1>6, <1>11, <1>13, <1>14, Zenon

(* create() gives the new inode its first link and its name.               *)
LEMMA CreateLinksStep ==
  ASSUME Counting, NInv, NEW p \in Procs, CreateLinks(p)
  PROVE  NInv'
<1>0. PICK s, n, i : s = ip[p] /\ n = arg[p][1] /\ i = inum[s]
  BY Zenon
<1>1. /\ dur' = dur /\ inum' = inum /\ ref' = ref /\ valid' = valid /\ lock' = lock
      /\ group' = group /\ boot' = boot /\ file' = file /\ dlock' = NoProc /\ pc[p] = "new"
      /\ ret' = ret /\ arg' = arg /\ ip' = ip /\ put' = put /\ num' = num /\ Go(p, "opened")
      /\ mem' = [mem EXCEPT ![s].nlink = 1]
      /\ cur' = [Iupdate(i, [mem[s] EXCEPT !.nlink = 1]) EXCEPT !.dir[n] = i]
  BY <1>0, Zenon DEF CreateLinks, logged, local
<1>2. Typed /\ ProcOK(p) /\ Rows(p) /\ Shape
  BY Parts, RowsNow, ShapeTyped, Zenon
<1>3. /\ pc[p] \in {"opened", "linking", "unlinking", "orphan", "new"} /\ pc[p] \in IpLabels
      /\ pc[p] \in NameLabels /\ pc[p] \in NewLabels
      /\ pc[p] \notin Putting /\ pc[p] \in DirLabels
  BY <1>1 DEF IpLabels, NameLabels, Putting, PutLabels, NewLabels, DirLabels
<1>4. s \in Slots /\ n \in Names /\ cur.dir[n] = None
  BY <1>0, <1>2, <1>3, InIp, Zenon DEF ProcOK, ArgOK, DirOK
<1>5. Has(p, s, None, s, None) /\ Alone(p, s, None, None, None) /\ InDir(p)
  BY <1>0, <1>2, <1>3, Zenon DEF Rows, HasRow, AloneRow, DirRow
<1>6. valid[s] /\ ref[s] > 0 /\ i \in cur.type /\ i \in Inums /\ mem[s] = cur.ino[i] /\ Holds(p, s)
  BY <1>0, <1>4, <1>5, Locked, Zenon DEF Has
<1>7. /\ cur' \in Disk /\ cur'.type = cur.type /\ cur'.bitmap = cur.bitmap
      /\ Differ(Names, cur.dir, cur'.dir, n) /\ cur'.dir[n] = i
      /\ mem' \in [Slots -> Dinode] /\ mem'[s] = cur'.ino[i]
      /\ cur'.ino[i].nlink = 1 /\ cur'.ino[i].addr = cur.ino[i].addr
      /\ \A j \in Inums \ {i} : cur'.ino[j] = cur.ino[j]
      /\ \A t \in Slots \ {s} : mem'[t] = mem[t]
  BY <1>1, <1>4, <1>6, CreateWrites, Zenon
<1>8. Others(p) /\ pc'[p] = "opened" /\ pc' \in [Procs -> Labels]
  <2>1. "opened" \in Labels
    BY DEF Labels
  <2> QED
    BY <1>1, <1>2, <2>1, GoLocals, Zenon
<1>9. Typed'
  <2>1. Shape'
    BY <1>1, <1>2, <1>7, <1>8, Zenon DEF Shape
  <2> QED
    BY <2>1, ShapeNext, Zenon
<1>10. Rows(p)'
  BY <1>9, RowsNext, Zenon
<1>11. /\ pc'[p] \notin Putting /\ pc'[p] \notin DirLabels
       /\ pc'[p] \notin NewLabels \cup LoneLabels \cup NumLabels \cup {"wrote"}
       /\ {pc[p], pc'[p]} \cap {"iupdate", "wrote"} = {} /\ pc'[p] \notin {"panic", "iput", "unref"}
       /\ pc'[p] \notin NewLabels \cup {"ialloc"} /\ pc'[p] \notin UnlinkLabels
       /\ pc'[p] \in {"opened", "linking", "unlinking", "orphan", "new"}
  BY <1>1, <1>8 DEF Putting, PutLabels, NewLabels, LoneLabels, TruncLabels, NumLabels, DirLabels, UnlinkLabels
<1>12. Has(p, s, None, s, None)'
  BY <1>0, <1>1, <1>10, <1>11, Zenon DEF Rows, HasRow, Has
<1>13. Alone(p, None, None, None, None)' /\ ~InDir(p)' /\ ~Bad(p)'
  BY <1>10, <1>11, Zenon DEF Rows, AloneRow, DirRow
<1>14. OwesTo[p] = None /\ OwesTo'[p] = None
  BY <1>5, <1>12, Zenon DEF OwesTo, Has
<1>15. Balanced(p)
  BY <1>1, <1>5, <1>12, SameBalance, Zenon DEF Has
<1>16. PICK T : T = {s}
  BY Zenon
<1>17. Touch(p, T)
  <2>1. DirSafe(p)
    BY <1>1, <1>2, <1>5, Zenon DEF ProcOK, DirOK, DirSafe
  <2>2. \A t \in Slots \ T : ref'[t] = ref[t] /\ valid'[t] = valid[t] /\ mem'[t] = mem[t]
    BY <1>1, <1>7, <1>16, Zenon
  <2>3. \A j \in Inums : (\A t \in T : inum[t] # j) => cur'.ino[j] = cur.ino[j]
    BY <1>0, <1>7, <1>16, Zenon
  <2>4. Private'[p] = None
    BY <1>13, Zenon DEF Alone
  <2> QED
    BY <1>1, <1>4, <1>6, <1>7, <1>16, <2>1, <2>2, <2>3, <2>4, Zenon DEF Touch
<1>18. LockInv'
  BY <1>1, <1>5, <1>8, <1>12, LockKept, Zenon DEF Has
<1>19. KeepInum
  BY <1>1, Zenon DEF KeepInum
<1>20. LinkInv'
  <2>1. cur.ino[i].nlink = 0
    BY <1>0, <1>2, <1>4, <1>5, NoneIsNone, Zenon DEF Alone, ProcOK, LoneOK
  <2>2. EvenAt(p, n)
    <3>1. ASSUME NEW j \in cur.type
          PROVE  cur'.ino[j].nlink + One(OwesTo[p], j) + One(cur.dir[n], j)
                   = cur.ino[j].nlink + One(OwesTo'[p], j) + One(cur'.dir[n], j)
      <4>1. j \in Inums /\ cur.ino \in [Inums -> Dinode]
        BY Parts, Types, Zenon
      <4>2. cur.ino[j].nlink \in Nat
        BY <4>1 DEF Dinode
      <4>3. One(None, j) = 0 /\ One(i, i) = 1
        BY <4>1, NoneIsNone, Zenon DEF One
      <4>4. CASE j = i
        <5>1. cur'.ino[j].nlink = 1 /\ cur.ino[j].nlink = 0 /\ One(cur'.dir[n], j) = 1
          BY <1>7, <2>1, <4>3, <4>4, Zenon
        <5>2. One(OwesTo[p], j) = 0 /\ One(OwesTo'[p], j) = 0 /\ One(cur.dir[n], j) = 0
          BY <1>4, <1>14, <4>3, Zenon
        <5> QED
          BY ONLY <5>1, <5>2
      <4>5. CASE j # i
        <5>1. cur'.ino[j] = cur.ino[j] /\ One(cur'.dir[n], j) = 0
          BY <1>7, <4>1, <4>5, Zenon DEF One
        <5>2. One(OwesTo[p], j) = 0 /\ One(OwesTo'[p], j) = 0 /\ One(cur.dir[n], j) = 0
          BY <1>4, <1>14, <4>3, Zenon
        <5> QED
          BY <5>1, <5>2, Zenon
      <4> QED
        BY <4>4, <4>5, Zenon
    <3> QED
      BY <1>6, <1>7, <3>1, Zenon DEF EvenAt
  <2> QED
    BY <1>4, <1>7, <1>8, <1>9, <1>19, <2>2, LinkChanged, Zenon
<1>21. BlockInv'
  <2>1. \A j \in Inums : cur'.ino[j].addr = cur.ino[j].addr
    BY <1>7, Zenon
  <2>2. SameBlocks(p)
    BY <1>7, <1>11, <2>1, Zenon DEF SameBlocks
  <2> QED
    BY <1>8, <1>19, <2>2, BlockSame, Zenon
<1>22. ProcOK(p)'
  <2>1. LoneOK(p)' /\ PrivateOK(p)'
    BY <1>11, <1>13, NoLoneNext, Zenon
  <2>2. ValidOK(p)'
    <3>1. \A t \in Slots : t = file[p] => valid[t]
      BY <1>2, Zenon DEF ProcOK, ValidOK
    <3>2. pc'[p] # "iput" /\ LockOf'[p] = s /\ Owner'[p] = None
      BY <1>11, <1>12, Zenon DEF Has
    <3> QED
      BY <1>1, <1>6, <3>1, <3>2, NoneIsNone, Zenon DEF ValidOK
  <2>3. DirOK(p)'
    <3>1. p # NoProc
      BY InodeAssumption DEF InodeAssumption
    <3> QED
      BY <1>1, <1>11, <1>13, <3>1, Zenon DEF DirOK
  <2>4. ArgOK(p)'
    <3>1. /\ pc'[p] \notin PutLabels /\ pc'[p] \notin NumLabels /\ pc'[p] \notin TwoLabels
          /\ pc'[p] \notin WriteLabels \cup {"write"} /\ pc'[p] \notin NameLabels
      BY <1>8 DEF PutLabels, WriteLabels, NumLabels, NameLabels, TwoLabels, NewLabels, UnlinkLabels
    <3> QED
      BY <1>1, <1>2, <1>3, <1>13, <3>1, Zenon DEF ProcOK, ArgOK
  <2> QED
    BY <2>1, <2>2, <2>3, <2>4, Zenon DEF ProcOK
<1>23. /\ \A t \in T : ref'[t] > 0 /\ valid'[t] => mem'[t] = cur'.ino[inum[t]]
       /\ \A t \in T : ref'[t] > 0 \/ ~Orphan(inum[t])' \/ Private'[p] = inum[t]
  BY <1>0, <1>1, <1>6, <1>7, <1>16, Zenon
<1>24. pc'[p] # "panic" /\ Private[p] \in {None, Private'[p]}
  BY <1>5, <1>11, Zenon DEF Alone
<1> QED
  BY <1>1, <1>8, <1>9, <1>15, <1>17, <1>18, <1>20, <1>21, <1>22, <1>23, <1>24, TouchStep, Zenon

-----------------------------------------------------------------------------
(* iput()                                                                  *)

(* The inode that iput() is called for.                                    *)
LEMMA AtPut ==
  ASSUME Counting, NInv, NEW p \in Procs, pc[p] \in PutLabels, NEW s, s = put[p]
  PROVE  /\ s \in Slots /\ s # None /\ Holds(p, s) /\ ref[s] \in Nat /\ ref[s] > 0
         /\ inum[s] \in cur.type /\ inum[s] \in Inums
         /\ valid[s] => mem[s] = cur.ino[inum[s]]
<1>1. ProcOK(p) /\ Typed /\ RefInv /\ TableInv
  BY Parts, Zenon
<1>2. s \in Slots /\ Holds(p, s)
  BY <1>1, InPut, Zenon DEF ProcOK
<1>3. ref[s] \in Nat /\ ref[s] > 0
  BY <1>1, <1>2, HeldHasRef, Zenon
<1>4. inum[s] \in cur.type /\ (valid[s] => mem[s] = cur.ino[inum[s]])
  BY <1>1, <1>2, <1>3, Zenon DEF TableInv
<1> QED
  BY <1>1, <1>2, <1>3, <1>4, Types, NoneIsNone, Zenon

(* Nobody has the lock of an inode whose last reference iput() drops.      *)
LEMMA LastUnlocked ==
  ASSUME Counting, NInv, NEW p \in Procs, pc[p] = "iput", NEW s, s = put[p], ref[s] = 1
  PROVE  lock[s] = NoProc
<1>1. pc[p] \in PutLabels /\ pc[p] \in {"iput", "unref"}
  BY DEF PutLabels
<1>2. s \in Slots /\ s # None /\ Holds(p, s)
  BY <1>1, AtPut, Zenon
<1>3. lock[s] \in Procs \cup {NoProc}
  BY <1>2, Parts, Types, Zenon
<1>4. ASSUME NEW q \in Procs, lock[s] = q PROVE FALSE
  <2>1. LockOf[q] = s
    BY <1>2, <1>4, Parts, Zenon DEF LockInv
  <2>2. Holds(q, s)
    BY <1>2, <2>1, PartsHeld, Parts, Zenon
  <2>3. q = p
    BY <1>2, <2>2, HeldOnce, Parts, Zenon
  <2>4. LockOf[p] = None
    BY <1>1, RowsNow, Parts, Zenon DEF Rows, HasRow, Has
  <2> QED
    BY <1>2, <2>1, <2>3, <2>4, Zenon
<1> QED
  BY <1>3, <1>4, Zenon

(* The last reference to an inode without links: iput() locks the inode.   *)
LEMMA IputLast ==
  ASSUME Counting, NInv, NEW p \in Procs, Iput(p), Last(put[p])
  PROVE  NInv'
<1>0. PICK s : s = put[p]
  BY Zenon
<1>1. /\ cur' = cur /\ dur' = dur /\ inum' = inum /\ ref' = ref /\ valid' = valid /\ mem' = mem
      /\ group' = group /\ boot' = boot /\ file' = file /\ dlock' = dlock /\ pc[p] = "iput"
      /\ ret' = ret /\ arg' = arg /\ ip' = ip /\ put' = put /\ num' = num
      /\ lock' = [lock EXCEPT ![s] = p] /\ Go(p, IF lock[s] = NoProc THEN "itrunc" ELSE "panic")
      /\ ref[s] = 1 /\ valid[s] /\ mem[s].nlink = 0
  BY <1>0, Zenon DEF Iput, Last, logged
<1>2. Typed /\ ProcOK(p) /\ Rows(p) /\ Shape
  BY Parts, RowsNow, ShapeTyped, Zenon
<1>3. pc[p] \in PutLabels /\ pc[p] \in {"iput", "unref"} /\ pc[p] \in Putting
      /\ pc[p] \notin NewLabels \cup LoneLabels \cup NumLabels \cup {"wrote"}
  BY <1>1 DEF PutLabels, Putting, NewLabels, LoneLabels, TruncLabels, NumLabels
<1>4. s \in Slots /\ s # None /\ mem[s] = cur.ino[inum[s]]
  BY <1>0, <1>1, <1>3, AtPut, Zenon
<1>5. lock[s] = NoProc
  BY <1>0, <1>1, LastUnlocked, Zenon
<1>6. Others(p) /\ pc'[p] = "itrunc" /\ pc' \in [Procs -> Labels]
  <2>1. Go(p, "itrunc") /\ "itrunc" \in Labels
    BY <1>1, <1>5, Zenon DEF Labels
  <2> QED
    BY <1>1, <1>2, <2>1, GoLocals, Zenon
<1>7. Typed'
  <2>1. lock' \in [Slots -> Procs \cup {NoProc}]
    BY <1>1, <1>2, Zenon DEF Shape
  <2>2. Shape'
    BY <1>1, <1>2, <1>6, <2>1, Zenon DEF Shape
  <2> QED
    BY <2>2, ShapeNext, Zenon
<1>8. Rows(p)'
  BY <1>7, RowsNext, Zenon
<1>9. /\ pc'[p] \in PutLabels /\ pc'[p] \in TruncLabels /\ pc'[p] \in Putting /\ pc'[p] \in {"itrunc", "unref"}
      /\ {pc[p], pc'[p]} \cap {"iupdate", "wrote"} = {} /\ pc'[p] \notin {"panic", "iput", "unref"}
      /\ pc'[p] \notin NewLabels \cup {"ialloc"} /\ pc'[p] \notin UnlinkLabels
  BY <1>1, <1>6 DEF PutLabels, TruncLabels, Putting, NewLabels, UnlinkLabels
<1>10. (Bad(p)' <=> Bad(p)) /\ (InDir(p)' <=> InDir(p))
  BY <1>1, <1>2, <1>3, <1>8, <1>9, Zenon DEF Rows, DirRow
<1>11. BadIp(p)' = BadIp(p)
  BY <1>1, <1>10, Zenon DEF BadIp
<1>12. /\ IpRef'[p] = IpRef[p] /\ PutRef'[p] = PutRef[p] /\ Owner'[p] = Owner[p]
       /\ LockOf[p] = None /\ LockOf'[p] = s
  <2>1. Has(p, BadIp(p), put[p], None, BadIp(p))
    BY <1>2, <1>3, Zenon DEF Rows, HasRow
  <2>2. Has(p, BadIp(p), put[p], put[p], BadIp(p))'
    BY <1>8, <1>9, Zenon DEF Rows, HasRow
  <2> QED
    BY <1>0, <1>1, <1>11, <2>1, <2>2, Zenon DEF Has
<1>13. Alone(p, None, None, None, None) /\ Alone(p, s, None, None, None)'
  BY <1>0, <1>1, <1>2, <1>3, <1>8, <1>9, Zenon DEF Rows, AloneRow, Alone
<1>14. Balanced(p)
  BY <1>1, <1>12, SameBalance, Zenon
<1>15. Quietly(p)
  BY <1>1, <1>9, <1>12, <1>13, Zenon DEF Quietly, Alone, DirSafe
<1>16. LockInv'
  BY <1>1, <1>4, <1>5, <1>6, <1>12, LockTaken, Zenon
<1>17. ProcOK(p)'
  <2>1. LoneOK(p)' /\ PrivateOK(p)'
    BY <1>1, <1>4, <1>9, <1>13, Zenon DEF LoneOK, PrivateOK, Alone
  <2>2. ValidOK(p)'
    <3>1. \A t \in Slots : t \in {Owner[p], file[p]} => valid[t]
      BY <1>2, Zenon DEF ProcOK, ValidOK
    <3>2. pc'[p] # "iput" /\ valid'[s]
      BY <1>1, <1>9, Zenon
    <3>3. \A t \in Slots : t \in {LockOf'[p], Owner'[p], file'[p]} => valid'[t]
      BY <1>1, <1>12, <3>1, <3>2, Zenon
    <3> QED
      BY <3>2, <3>3, Zenon DEF ValidOK
  <2>3. DirOK(p)'
    BY <1>1, <1>2, <1>9, <1>10, Zenon DEF ProcOK, DirOK
  <2>4. ArgOK(p)'
    <3>1. /\ pc'[p] \notin IpLabels /\ pc'[p] \notin WriteLabels \cup {"write"}
          /\ pc'[p] \notin NumLabels /\ pc'[p] \notin NameLabels /\ pc'[p] \notin TwoLabels
      BY <1>6 DEF IpLabels, WriteLabels, NumLabels, NameLabels, TwoLabels, NewLabels, UnlinkLabels
    <3> QED
      BY <1>1, <1>2, <1>3, <1>10, <3>1, Zenon DEF ProcOK, ArgOK
  <2> QED
    BY <2>1, <2>2, <2>3, <2>4, Zenon DEF ProcOK
<1> QED
  BY <1>6, <1>7, <1>14, <1>15, <1>16, <1>17, QuietStep, Zenon

(* One reference of p is dropped.                                          *)
LEMMA DropBalance ==
  ASSUME Typed, NEW p \in Procs, NEW s \in Slots, ref[s] > 0, ref' = [ref EXCEPT ![s] = @ - 1],
         file'[p] = file[p], IpRef'[p] = IpRef[p], PutRef[p] = s, PutRef'[p] = None
  PROVE  /\ Balanced(p) /\ ref' \in [Slots -> Nat] /\ ref'[s] = ref[s] - 1
         /\ \A t \in Slots \ {s} : ref'[t] = ref[t]
<1>1. ref \in [Slots -> Nat]
  BY Types, Zenon
<1>2. ref[s] - 1 \in Nat
  BY <1>1
<1>3. /\ ref' \in [Slots -> Nat] /\ ref'[s] = ref[s] - 1
      /\ \A t \in Slots \ {s} : ref'[t] = ref[t]
  BY <1>1, <1>2, Zenon
<1>4. Balanced(p)
  <2> SUFFICES ASSUME NEW t \in Slots
               PROVE  ref'[t] + One(file[p], t) + One(IpRef[p], t) + One(PutRef[p], t)
                        = ref[t] + One(file'[p], t) + One(IpRef'[p], t) + One(PutRef'[p], t)
    BY Zenon DEF Balanced
  <2>1. \A x, v : One(x, v) \in {0, 1}
    BY DEF One
  <2>2. One(PutRef'[p], t) = 0
    BY NoneIsNone, Zenon DEF One
  <2>3. ref'[t] + One(PutRef[p], t) = ref[t]
    <3>1. CASE t = s
      <4>1. One(PutRef[p], t) = 1
        BY <3>1, Zenon DEF One
      <4> QED
        BY <1>1, <1>3, <3>1, <4>1
    <3>2. CASE t # s
      <4>1. One(PutRef[p], t) = 0
        BY <3>2, Zenon DEF One
      <4> QED
        BY <1>1, <1>3, <3>2, <4>1
    <3> QED
      BY <3>1, <3>2, Zenon
  <2>4. ref'[t] \in Nat /\ One(file'[p], t) = One(file[p], t) /\ One(IpRef'[p], t) = One(IpRef[p], t)
    BY <1>3, Zenon
  <2>5. One(file[p], t) \in {0, 1} /\ One(IpRef[p], t) \in {0, 1} /\ One(PutRef[p], t) \in {0, 1}
    BY <2>1, Zenon
  <2> QED
    BY ONLY <2>2, <2>3, <2>4, <2>5
<1> QED
  BY <1>3, <1>4, Zenon

(* iput() drops a reference, and the inode has links or other references.  *)
LEMMA IputDrops ==
  ASSUME Counting, NInv, NEW p \in Procs, Iput(p), ~Last(put[p])
  PROVE  NInv'
<1>0. PICK s, r : s = put[p] /\ r = ret[p]
  BY Zenon
<1>1. /\ cur' = cur /\ dur' = dur /\ inum' = inum /\ valid' = valid /\ lock' = lock
      /\ group' = group /\ boot' = boot /\ file' = file /\ dlock' = dlock /\ pc[p] = "iput"
      /\ ret' = ret /\ arg' = arg /\ ip' = ip /\ num' = num /\ put' = [put EXCEPT ![p] = None]
      /\ ref' = [ref EXCEPT ![s] = @ - 1] /\ pc' = [pc EXCEPT ![p] = r]
      /\ mem' = [mem EXCEPT ![s] = IF ref[s] = 1 THEN Empty ELSE @] /\ ~Last(s)
  BY <1>0, Zenon DEF Iput, Go, logged
<1>2. Typed /\ ProcOK(p) /\ Rows(p) /\ Shape
  BY Parts, RowsNow, ShapeTyped, Zenon
<1>3. pc[p] \in PutLabels /\ pc[p] \in {"iput", "unref"} /\ pc[p] \in Putting
      /\ pc[p] \notin NewLabels \cup LoneLabels \cup NumLabels \cup {"wrote"}
  BY <1>1 DEF PutLabels, Putting, NewLabels, LoneLabels, TruncLabels, NumLabels
<1>4. /\ s \in Slots /\ s # None /\ ref[s] \in Nat /\ ref[s] > 0 /\ inum[s] \in cur.type /\ Holds(p, s)
      /\ valid[s] => mem[s] = cur.ino[inum[s]]
  BY <1>0, <1>3, AtPut, Zenon
<1>5. r \in {"end", "unlock_dir", "unlock_dir_bad"} /\ r \in Labels
  <2>1. r \in {"end", "unlock_dir", "unlock_dir_bad"}
    BY <1>0, <1>2, Zenon DEF Shape
  <2> QED
    BY <2>1 DEF Labels
<1>6. /\ pc'[p] = r /\ pc' \in [Procs -> Labels] /\ put' \in [Procs -> Slots \cup {None}]
      /\ \A q \in Procs \ {p} : pc'[q] = pc[q] /\ put'[q] = put[q]
  BY <1>1, <1>2, <1>5, Zenon DEF Shape
<1>7. Others(p)
  BY <1>1, <1>6, Zenon DEF Others
<1>8. /\ mem' \in [Slots -> Dinode] /\ \A t \in Slots \ {s} : mem'[t] = mem[t]
      /\ ref[s] # 1 => mem'[s] = mem[s]
  <2>1. Empty \in Dinode
    BY DEF Empty, Dinode
  <2>2. (IF ref[s] = 1 THEN Empty ELSE mem[s]) \in Dinode
    BY <1>2, <1>4, <2>1, Zenon DEF Shape
  <2>3. mem' = [mem EXCEPT ![s] = IF ref[s] = 1 THEN Empty ELSE mem[s]]
    BY <1>1, Zenon
  <2> QED
    BY <1>2, <1>4, <2>2, <2>3, Zenon DEF Shape
<1>9. ref' \in [Slots -> Nat]
  <2>1. ref[s] - 1 \in Nat
    BY <1>4
  <2> QED
    BY <1>1, <1>2, <2>1, Zenon DEF Shape
<1>10. Typed'
  <2>1. Shape'
    BY <1>1, <1>2, <1>6, <1>8, <1>9, Zenon DEF Shape
  <2> QED
    BY <2>1, ShapeNext, Zenon
<1>11. Rows(p)'
  BY <1>10, RowsNext, Zenon
<1>12. /\ pc'[p] \notin Putting /\ pc'[p] \notin NewLabels \cup LoneLabels \cup NumLabels \cup {"wrote"}
       /\ {pc[p], pc'[p]} \cap {"iupdate", "wrote"} = {} /\ pc'[p] \notin {"panic", "iput", "unref"}
       /\ pc'[p] \notin NewLabels \cup {"ialloc"} /\ pc'[p] \notin UnlinkLabels
       /\ (pc'[p] \in DirLabels <=> r # "end")
  BY <1>1, <1>5, <1>6 DEF Putting, PutLabels, NewLabels, LoneLabels, TruncLabels, NumLabels,
     DirLabels, UnlinkLabels
<1>13. /\ Bad(p) <=> r = "unlock_dir_bad"
       /\ InDir(p)' <=> InDir(p)
       /\ ~Bad(p)'
  BY <1>0, <1>2, <1>3, <1>11, <1>12, Zenon DEF Rows, DirRow
<1>14. Has(p, BadIp(p), s, None, BadIp(p)) /\ Alone(p, None, None, None, None)
  BY <1>0, <1>2, <1>3, Zenon DEF Rows, HasRow, AloneRow
<1>15. Alone(p, None, None, None, None)'
  BY <1>11, <1>12, Zenon DEF Rows, AloneRow
<1>16. /\ IpRef'[p] = IpRef[p] /\ PutRef'[p] = None /\ Owner'[p] = Owner[p] /\ LockOf'[p] = None
  <2>1. CASE r = "unlock_dir_bad"
    <3>1. pc'[p] \in {"link_dir", "lock_bad", "unlock_dir_bad"}
      BY <1>6, <2>1
    <3>2. BadIp(p) = ip[p]
      BY <1>13, <2>1, Zenon DEF BadIp
    <3> QED
      BY <1>1, <1>11, <1>14, <3>1, <3>2, Zenon DEF Rows, HasRow, Has
  <2>2. CASE r # "unlock_dir_bad"
    <3>1. pc'[p] \in Plain \cup {"ialloc"}
      BY <1>5, <1>6, <2>2 DEF Plain
    <3>2. BadIp(p) = None
      BY <1>13, <2>2, Zenon DEF BadIp
    <3> QED
      BY <1>11, <1>14, <3>1, <3>2, Zenon DEF Rows, HasRow, Has
  <2> QED
    BY <2>1, <2>2, Zenon
<1>17. /\ Balanced(p) /\ ref'[s] = ref[s] - 1
       /\ \A t \in Slots \ {s} : ref'[t] = ref[t]
  <2>1. PutRef[p] = s /\ file'[p] = file[p]
    BY <1>1, <1>14, Zenon DEF Has
  <2> QED
    BY <1>1, <1>2, <1>4, <1>16, <2>1, DropBalance, Zenon
<1>18. PICK T : T = {s}
  BY Zenon
<1>19. Touch(p, T)
  <2>1. \A t \in Slots \ T : ref'[t] = ref[t] /\ valid'[t] = valid[t] /\ mem'[t] = mem[t]
    BY <1>1, <1>8, <1>17, <1>18, Zenon
  <2>2. Private'[p] = None
    BY <1>15, Zenon DEF Alone
  <2> QED
    BY <1>1, <1>4, <1>18, <2>1, <2>2, Zenon DEF Touch, DirSafe
<1>20. LockInv'
  BY <1>1, <1>7, <1>14, <1>16, LockKept, Zenon DEF Has
<1>21. LinkInv' /\ BlockInv'
  <2>1. KeepInum /\ OwesTo'[p] = OwesTo[p]
    BY <1>1, <1>16, Zenon DEF KeepInum, OwesTo
  <2> QED
    BY <1>1, <1>7, <1>10, <1>12, <2>1, SameDisk, Zenon
<1>22. ProcOK(p)'
  <2>1. LoneOK(p)' /\ PrivateOK(p)'
    BY <1>12, <1>15, NoLoneNext, Zenon
  <2>2. ValidOK(p)'
    <3>1. \A t \in Slots : t \in {Owner[p], file[p]} => valid[t]
      BY <1>2, Zenon DEF ProcOK, ValidOK
    <3>2. \A t \in Slots : t \in {LockOf'[p], Owner'[p], file'[p]} => valid'[t]
      BY <1>1, <1>16, <3>1, NoneIsNone, Zenon
    <3> QED
      BY <1>12, <3>2, Zenon DEF ValidOK
  <2>3. DirOK(p)'
    BY <1>1, <1>2, <1>12, <1>13, Zenon DEF ProcOK, DirOK
  <2>4. ArgOK(p)'
    <3>1. /\ pc'[p] \in IpLabels => r = "unlock_dir_bad"
          /\ pc'[p] \notin PutLabels /\ pc'[p] \notin WriteLabels \cup {"write"}
          /\ pc'[p] \notin NumLabels /\ pc'[p] \notin NameLabels /\ pc'[p] \notin TwoLabels
      BY <1>5, <1>6 DEF IpLabels, PutLabels, WriteLabels, NumLabels, NameLabels, TwoLabels,
                        NewLabels, UnlinkLabels
    <3> QED
      BY <1>1, <1>2, <1>13, <3>1, Zenon DEF ProcOK, ArgOK
  <2> QED
    BY <2>1, <2>2, <2>3, <2>4, Zenon DEF ProcOK
<1>23. ASSUME ref'[s] > 0 PROVE ref[s] # 1
  BY ONLY <1>4, <1>17, <1>23
<1>24. ASSUME ~(ref'[s] > 0) PROVE cur.ino[inum[s]].nlink # 0
  <2>1. ref[s] = 1
    BY ONLY <1>4, <1>17, <1>24
  <2>2. CASE valid[s]
    BY <1>1, <1>4, <2>1, <2>2, Zenon DEF Last
  <2>3. CASE ~valid[s]
    <3>1. Bad(p)
      BY <1>0, <1>1, <1>2, <2>3, Zenon DEF ProcOK, ValidOK
    <3>2. cur.dir[arg[p][2]] = inum[s] /\ arg[p][2] \in Names
      BY <1>0, <1>1, <1>2, <3>1, Zenon DEF ProcOK, DirOK, ArgOK
    <3>3. cur.ino[inum[s]].nlink \in Nat /\ cur.ino[inum[s]].nlink > 0
      BY <1>4, <3>2, HasLink, Zenon
    <3> QED
      BY ONLY <3>3
  <2> QED
    BY <2>2, <2>3, Zenon
<1>25. \A t \in T : ref'[t] > 0 /\ valid'[t] => mem'[t] = cur'.ino[inum[t]]
  BY <1>1, <1>4, <1>8, <1>18, <1>23, Zenon
<1>26. \A t \in T : ref'[t] > 0 \/ ~Orphan(inum[t])' \/ Private'[p] = inum[t]
  BY <1>1, <1>18, <1>24, Zenon DEF Orphan
<1>27. pc'[p] # "panic" /\ Private[p] \in {None, Private'[p]}
  BY <1>12, <1>14, Zenon DEF Alone
<1> QED
  BY <1>1, <1>7, <1>10, <1>17, <1>19, <1>20, <1>21, <1>22, <1>25, <1>26, <1>27, TouchStep, Zenon

(* iput(), whatever it finds.                                              *)
LEMMA IputStep ==
  ASSUME Counting, NInv, NEW p \in Procs, Iput(p)
  PROVE  NInv'
  BY IputLast, IputDrops, Zenon

(* iput() drops the last reference and keeps the inode number, which       *)
(* nobody else can have then: no entry has it, and no name.                *)
LEMMA UnrefStep ==
  ASSUME Counting, NInv, NEW p \in Procs, Unref(p)
  PROVE  NInv'
<1>0. PICK s, i : s = put[p] /\ i = inum[s]
  BY Zenon
<1>1. /\ cur' = cur /\ dur' = dur /\ inum' = inum /\ valid' = valid /\ lock' = lock /\ mem' = mem
      /\ group' = group /\ boot' = boot /\ file' = file /\ dlock' = dlock /\ pc[p] = "unref"
      /\ ret' = ret /\ arg' = arg /\ ip' = ip /\ put' = put /\ num' = [num EXCEPT ![p] = i]
      /\ ref' = [ref EXCEPT ![s] = @ - 1] /\ pc' = [pc EXCEPT ![p] = "ifree"]
  BY <1>0, Zenon DEF Unref, Go, logged
<1>2. Typed /\ ProcOK(p) /\ Rows(p) /\ Shape
  BY Parts, RowsNow, ShapeTyped, Zenon
<1>3. pc[p] \in PutLabels /\ pc[p] \in {"iput", "unref"} /\ pc[p] \in Putting
      /\ pc[p] \in {"itrunc", "unref"}
  BY <1>1 DEF PutLabels, Putting
<1>4. /\ s \in Slots /\ s # None /\ ref[s] \in Nat /\ ref[s] > 0 /\ i \in cur.type /\ i \in Inums
      /\ Holds(p, s)
  BY <1>0, <1>3, AtPut, Zenon
<1>5. i \in Nat /\ i # None /\ "ifree" \in Labels
  BY <1>4, InodeAssumption DEF Inums, None, Labels, InodeAssumption
<1>6. /\ pc'[p] = "ifree" /\ pc' \in [Procs -> Labels] /\ num' \in [Procs -> Nat] /\ num'[p] = i
      /\ \A q \in Procs \ {p} : pc'[q] = pc[q] /\ num'[q] = num[q]
  BY <1>1, <1>2, <1>5, Zenon DEF Shape
<1>7. Others(p)
  BY <1>1, <1>6, Zenon DEF Others
<1>8. ref' \in [Slots -> Nat]
  <2>1. ref[s] - 1 \in Nat
    BY <1>4
  <2> QED
    BY <1>1, <1>2, <2>1, Zenon DEF Shape
<1>9. Typed'
  <2>1. Shape'
    BY <1>1, <1>2, <1>6, <1>8, Zenon DEF Shape
  <2> QED
    BY <2>1, ShapeNext, Zenon
<1>10. Rows(p)'
  BY <1>9, RowsNext, Zenon
<1>11. /\ pc'[p] \in Putting /\ pc'[p] \in NumLabels
       /\ {pc[p], pc'[p]} \cap {"iupdate", "wrote"} = {} /\ pc'[p] \notin {"panic", "iput", "unref"}
       /\ pc'[p] \notin NewLabels \cup {"ialloc"} /\ pc'[p] \notin UnlinkLabels
       /\ pc'[p] \notin IpLabels /\ pc'[p] \notin PutLabels /\ pc'[p] \notin WriteLabels \cup {"write"}
       /\ pc'[p] \notin NameLabels /\ pc'[p] \notin TwoLabels
  BY <1>1, <1>6 DEF Putting, PutLabels, NewLabels, NumLabels, UnlinkLabels, IpLabels, WriteLabels,
     NameLabels, TwoLabels
<1>12. (Bad(p)' <=> Bad(p)) /\ (InDir(p)' <=> InDir(p)) /\ BadIp(p)' = BadIp(p)
  <2>1. (Bad(p)' <=> Bad(p)) /\ (InDir(p)' <=> InDir(p))
    BY <1>1, <1>2, <1>3, <1>10, <1>11, Zenon DEF Rows, DirRow
  <2> QED
    BY <1>1, <2>1, Zenon DEF BadIp
<1>13. Has(p, BadIp(p), s, None, BadIp(p)) /\ Alone(p, s, None, None, None)
  BY <1>0, <1>2, <1>3, Zenon DEF Rows, HasRow, AloneRow
<1>14. /\ IpRef'[p] = IpRef[p] /\ PutRef'[p] = None /\ LockOf'[p] = None /\ Owner'[p] = Owner[p]
  BY <1>6, <1>10, <1>12, <1>13, Zenon DEF Rows, HasRow, Has
<1>15. Lone'[p] = None /\ Private'[p] = i
  BY <1>6, <1>10, <1>11, Zenon DEF Rows, AloneRow, Alone
<1>16. /\ Balanced(p) /\ ref'[s] = ref[s] - 1
       /\ \A t \in Slots \ {s} : ref'[t] = ref[t]
  <2>1. PutRef[p] = s /\ file'[p] = file[p]
    BY <1>1, <1>13, Zenon DEF Has
  <2> QED
    BY <1>1, <1>2, <1>4, <1>14, <2>1, DropBalance, Zenon
<1>17. ref[s] = 1 /\ cur.ino[i].nlink = 0 /\ cur.ino[i].addr = None
  <2>1. Lone[p] = s /\ put[p] = s
    BY <1>0, <1>13, Zenon DEF Alone
  <2> QED
    BY <1>0, <1>1, <1>2, <1>4, <2>1, Zenon DEF ProcOK, LoneOK
<1>18. ~(ref'[s] > 0)
  BY ONLY <1>16, <1>17
<1>19. cur.ino[i] = Empty
  <2>1. cur.ino[i] \in Dinode
    BY <1>2, <1>4 DEF Shape, Disk
  <2> QED
    BY ONLY <1>17, <2>1 DEF Dinode, Empty
<1>20. PICK T : T = {s}
  BY Zenon
<1>21. Touch(p, T)
  <2>1. \A t \in Slots \ T : ref'[t] = ref[t] /\ valid'[t] = valid[t] /\ mem'[t] = mem[t]
    BY <1>1, <1>16, <1>20, Zenon
  <2>2. Private'[p] \in {inum[t] : t \in T}
    BY <1>0, <1>15, <1>20, Zenon
  <2> QED
    BY <1>1, <1>4, <1>20, <2>1, <2>2, Zenon DEF Touch, DirSafe
<1>22. LockInv'
  BY <1>1, <1>7, <1>13, <1>14, LockKept, Zenon DEF Has
<1>23. LinkInv' /\ BlockInv'
  <2>1. KeepInum /\ OwesTo'[p] = OwesTo[p]
    BY <1>1, <1>14, Zenon DEF KeepInum, OwesTo
  <2> QED
    BY <1>1, <1>7, <1>9, <1>11, <2>1, SameDisk, Zenon
<1>24. PrivateOK(p)'
  <2>1. ASSUME NEW t \in Slots, ref'[t] > 0 PROVE inum[t] # i
    <3>1. t # s
      BY <1>18, <2>1, Zenon
    <3>2. ref[t] > 0
      BY <1>16, <2>1, <3>1, Zenon
    <3> QED
      BY <1>0, <1>4, <3>1, <3>2, Parts, Zenon DEF TableInv
  <2>2. ASSUME NEW q \in Procs \ {p} PROVE Private'[q] # i
    <3>1. Private'[q] = Private[q] /\ ProcOK(q)
      BY <1>7, Frame, Parts, Zenon DEF SameParts
    <3> QED
      BY <1>0, <1>4, <1>5, <3>1, Zenon DEF ProcOK, PrivateOK
  <2> QED
    BY <1>1, <1>4, <1>15, <1>19, <2>1, <2>2, Zenon DEF PrivateOK
<1>25. ProcOK(p)'
  <2>1. LoneOK(p)'
    BY <1>6, <1>11, <1>15, Zenon DEF LoneOK
  <2>2. ValidOK(p)'
    <3>1. \A t \in Slots : t \in {Owner[p], file[p]} => valid[t]
      BY <1>2, Zenon DEF ProcOK, ValidOK
    <3>2. \A t \in Slots : t \in {LockOf'[p], Owner'[p], file'[p]} => valid'[t]
      BY <1>1, <1>14, <3>1, NoneIsNone, Zenon
    <3> QED
      BY <1>11, <3>2, Zenon DEF ValidOK
  <2>3. DirOK(p)'
    BY <1>1, <1>2, <1>11, <1>12, Zenon DEF ProcOK, DirOK
  <2>4. ArgOK(p)'
    BY <1>1, <1>2, <1>4, <1>6, <1>11, <1>12, Zenon DEF ProcOK, ArgOK
  <2> QED
    BY <1>24, <2>1, <2>2, <2>3, <2>4, Zenon DEF ProcOK
<1>26. \A t \in T : ref'[t] > 0 /\ valid'[t] => mem'[t] = cur'.ino[inum[t]]
  BY <1>18, <1>20, Zenon
<1>27. \A t \in T : ref'[t] > 0 \/ ~Orphan(inum[t])' \/ Private'[p] = inum[t]
  BY <1>0, <1>15, <1>20, Zenon
<1>28. pc'[p] # "panic" /\ Private[p] \in {None, Private'[p]}
  BY <1>11, <1>13, Zenon DEF Alone
<1> QED
  BY <1>1, <1>7, <1>9, <1>16, <1>21, <1>22, <1>23, <1>25, <1>26, <1>27, <1>28, TouchStep, Zenon

(* A step of p alone that is tame for the others.                          *)
LEMMA TameStep ==
  ASSUME Counting, NInv, Typed', NEW p \in Procs, Others(p), Tame(p), Balanced(p), ProcOK(p)',
         LockInv', LinkInv', BlockInv', TableInv', OrphanInv', dur' = dur, pc'[p] # "panic"
  PROVE  NInv'
<1>1. Typed /\ RefInv /\ DurInv /\ NoPanic
  BY Parts, Zenon
<1>2. \A q \in Procs : ProcOK(q)'
  BY OthersOK, Zenon
<1>3. ArgInv' /\ LoneInv' /\ ValidInv' /\ DirInv'
  BY <1>2, Zenon DEF ProcOK, ArgInv, LoneInv, ValidInv, DirInv
<1>4. RefInv'
  BY <1>1, RefStep, Zenon
<1>5. DurInv'
  BY <1>1, Zenon DEF DurInv
<1>6. NoPanic'
  BY <1>1, Zenon DEF NoPanic, Others
<1> QED
  BY <1>3, <1>4, <1>5, <1>6, Zenon DEF NInv, Typed

(* The first of some numbers is one of them.                               *)
LEMMA MinIn ==
  ASSUME Counting, NEW S \in SUBSET Nat, S # {}
  PROVE  Min(S) \in S
<1>1. \E x \in S : \A y \in S : x <= y
  BY Zenon DEF Counting, LeastFact
<1> QED
  BY <1>1, Zenon DEF Min
=============================================================================
