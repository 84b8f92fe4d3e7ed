------------------------------ MODULE BufProofs -----------------------------
(***************************************************************************)
(* The buffer cache: its list, its reference counts and the contents of    *)
(* its buffers (BInv and ListInv), and why it implements BlockStore.       *)
(***************************************************************************)
EXTENDS BufInv, TLAPS

(* What the lemmas take from the theory of finite sets: a set of numbers  *)
(* has a least element, so the loop of bget() stops at a first buffer; and *)
(* the processes at a buffer can be counted one by one.  The end of this   *)
(* module derives it (LEMMA CanCount).                                     *)
Counting ==
  /\ \A S \in SUBSET Nat : S # {} => \E x \in S : \A y \in S : x <= y
  /\ \A S \in SUBSET Procs : Cardinality(S) \in Nat /\ (Cardinality(S) = 0 <=> S = {})
  /\ \A S \in SUBSET Procs : \A p \in Procs \ S : Cardinality(S \cup {p}) = Cardinality(S) + 1

(* There is a run of N steps from s, the i-th by G[i].                     *)
Iterable(N, S, s, G) ==
  \E f \in [0 .. N -> S] : f[0] = s /\ \A i \in 1 .. N : f[i] = G[i][f[i - 1]]

(* N steps of functions on a set S, from a member of S, stay in S.         *)
LEMMA Iterate ==
  ASSUME Counting, NEW N \in Nat, NEW S, NEW s \in S, NEW G \in [Nat -> [S -> S]]
  PROVE  Iterable(N, S, s, G)
<1> DEFINE Steps(f, n) == f[0] = s /\ \A i \in 1 .. n : f[i] = G[i][f[i - 1]]
           Bad == {n \in Nat : ~ \E f \in [0 .. n -> S] : Steps(f, n)}
<1>1. 0 \notin Bad
  <2>1. [i \in 0 .. 0 |-> s] \in [0 .. 0 -> S] /\ Steps([i \in 0 .. 0 |-> s], 0)
    OBVIOUS
  <2> QED
    BY <2>1, Zenon
<1>2. ASSUME NEW n \in Nat \ {0}, n - 1 \notin Bad PROVE n \notin Bad
  <2>1. PICK f \in [0 .. n - 1 -> S] : Steps(f, n - 1)
    BY <1>2
  <2> DEFINE g == [i \in 0 .. n |-> IF i = n THEN G[n][f[n - 1]] ELSE f[i]]
  <2>2. f[n - 1] \in S /\ G[n][f[n - 1]] \in S
    BY <2>1
  <2>3. g \in [0 .. n -> S]
    BY <2>1, <2>2
  <2>4. g[0] = s
    BY <2>1
  <2>5. ASSUME NEW i \in 1 .. n PROVE g[i] = G[i][g[i - 1]]
    <3>1. i \in 0 .. n /\ i - 1 \in 0 .. n - 1 /\ g[i - 1] = f[i - 1]
      OBVIOUS
    <3>2. CASE i = n
      BY <3>1, <3>2, Zenon
    <3>3. CASE i # n
      BY <2>1, <3>1, <3>3
    <3> QED
      BY <3>2, <3>3, Zenon
  <2> HIDE DEF g
  <2> QED
    BY <2>3, <2>4, <2>5, Zenon
<1> HIDE DEF Bad
<1>3. Bad = {}
  <2> SUFFICES ASSUME Bad # {} PROVE FALSE
    OBVIOUS
  <2>1. Bad \in SUBSET Nat
    BY DEF Bad
  <2>2. PICK n \in Bad : \A m \in Bad : n <= m
    BY <2>1 DEF Counting
  <2>3. n \in Nat \ {0}
    BY <1>1, <2>1, <2>2
  <2>4. n - 1 \notin Bad
    BY <2>2, <2>3
  <2> QED
    BY <1>2, <2>2, <2>3, <2>4
<1> QED
  BY <1>3, Zenon DEF Bad, Iterable

(* The walk of bget() from the end of the list follows prev.               *)
LEMMA BackWalk ==
  ASSUME Counting, TypeOK
  PROVE  Back = [n \in 0 .. NBUF |-> IF n = 0 THEN head ELSE prev[Back[n - 1]]]
<1> DEFINE S == 0 .. NBUF
           G == [i \in Nat |-> prev]
<1>1. G \in [Nat -> [S -> S]] /\ head \in S /\ NBUF \in Nat
  <2>1. prev \in [S -> S]
    BY DEF TypeOK
  <2>2. head \in S /\ NBUF \in Nat
    BY BufAssumption DEF head
  <2> HIDE DEF S
  <2> QED
    BY <2>1, <2>2
<1>2. PICK f \in [0 .. NBUF -> S] :
        f[0] = head /\ \A i \in 1 .. NBUF : f[i] = G[i][f[i - 1]]
  <2> HIDE DEF G, S
  <2>1. Iterable(NBUF, S, head, G)
    BY <1>1, Iterate
  <2> QED
    BY <2>1, Zenon DEF Iterable
<1>3. ASSUME NEW i \in 1 .. NBUF PROVE f[i] = prev[f[i - 1]]
  <2>1. f[i] = G[i][f[i - 1]] /\ i \in Nat
    BY <1>1, <1>2
  <2> QED
    BY <2>1
<1>4. f = [n \in 0 .. NBUF |-> IF n = 0 THEN head ELSE prev[f[n - 1]]]
  <2>1. \A n \in 0 .. NBUF : n = 0 \/ n \in 1 .. NBUF
    BY <1>1
  <2>2. \A n \in 0 .. NBUF : f[n] = IF n = 0 THEN head ELSE prev[f[n - 1]]
    BY <1>2, <1>3, <2>1, Zenon
  <2>3. f = [n \in 0 .. NBUF |-> f[n]]
    BY <1>2
  <2> QED
    BY <2>2, <2>3, Zenon
<1> QED
  BY <1>4, Zenon DEF Back

(* The walk meets only buffers and bcache.head.                            *)
LEMMA BackInRange ==
  ASSUME Counting, TypeOK
  PROVE  \A n \in 0 .. NBUF : Back[n] \in 0 .. NBUF
<1>1. head \in 0 .. NBUF /\ NBUF \in Nat
  BY BufAssumption DEF head
<1>5. Back = [n \in 0 .. NBUF |-> IF n = 0 THEN head ELSE prev[Back[n - 1]]]
  BY BackWalk
<1> DEFINE Bad == {n \in 0 .. NBUF : Back[n] \notin 0 .. NBUF}
<1>6. Bad = {}
  <2> SUFFICES ASSUME Bad # {} PROVE FALSE
    OBVIOUS
  <2>1. Bad \in SUBSET Nat
    BY <1>1
  <2>2. PICK n \in Bad : \A m \in Bad : n <= m
    <3> HIDE DEF Bad
    <3> QED
      BY <2>1 DEF Counting
  <2>3. n # 0
    BY <1>1, <1>5, Zenon
  <2>4. n \in 0 .. NBUF /\ n - 1 \in 0 .. NBUF /\ n - 1 \notin Bad
    BY <1>1, <2>2, <2>3
  <2>5. Back[n] = prev[Back[n - 1]] /\ Back[n - 1] \in 0 .. NBUF
    BY <1>5, <2>3, <2>4, Zenon
  <2> QED
    BY <2>5, Zenon DEF TypeOK
<1> QED
  BY <1>6

(* The walk meets the buffers in the order of the list.                    *)
LEMMA BackOrder ==
  ASSUME Counting, TypeOK, NEW f \in [0 .. NBUF -> 0 .. NBUF], Order(f, next, prev)
  PROVE  \A n \in 0 .. NBUF : Back[n] = f[n]
<1>1. NBUF \in Nat
  BY BufAssumption
<1>2. Back = [n \in 0 .. NBUF |-> IF n = 0 THEN head ELSE prev[Back[n - 1]]]
  BY BackWalk
<1>3. f[0] = head /\ \A n \in 1 .. NBUF : prev[f[n - 1]] = f[n]
  BY Zenon DEF Order
<1> DEFINE Bad == {n \in 0 .. NBUF : Back[n] # f[n]}
<1>4. Bad = {}
  <2> SUFFICES ASSUME Bad # {} PROVE FALSE
    OBVIOUS
  <2>1. Bad \in SUBSET Nat
    BY <1>1
  <2>2. PICK n \in Bad : \A m \in Bad : n <= m
    <3> HIDE DEF Bad
    <3> QED
      BY <2>1 DEF Counting
  <2>3. n \in 0 .. NBUF /\ n # 0
    BY <1>2, <1>3, Zenon
  <2>4. n \in 1 .. NBUF /\ n - 1 \in 0 .. NBUF /\ n - 1 \notin Bad
    <3> HIDE DEF Bad
    <3> QED
      BY ONLY <1>1, <2>1, <2>2, <2>3
  <2>5. Back[n] = prev[Back[n - 1]] /\ Back[n - 1] = f[n - 1]
    BY <1>2, <2>3, <2>4, Zenon
  <2> QED
    BY <1>3, <2>4, <2>5, Zenon
<1> QED
  BY <1>4

(* One pointer changes.                                                    *)
LEMMA OnePointer ==
  ASSUME NEW S, NEW h \in [S -> S], NEW a \in S, NEW x \in S
  PROVE  /\ [h EXCEPT ![a] = x] \in [S -> S]
         /\ \A c \in S : [h EXCEPT ![a] = x][c] = IF c = a THEN x ELSE h[c]
  OBVIOUS

(* Two pointers change, the second after the first.                        *)
LEMMA TwoPointers ==
  ASSUME NEW S, NEW h \in [S -> S], NEW a \in S, NEW x \in S, NEW b \in S, NEW y \in S
  PROVE  /\ [h EXCEPT ![a] = x, ![b] = y] \in [S -> S]
         /\ \A c \in S : [h EXCEPT ![a] = x, ![b] = y][c]
                           = IF c = b THEN y ELSE IF c = a THEN x ELSE h[c]
  OBVIOUS

(* The list x of the first n buffers, each inserted in front of the others.*)
Linked(x, n) ==
  \A m \in 0 .. n : /\ x.prev[m] = IF m = n THEN head ELSE m + 1
                    /\ x.next[m] = IF m = head THEN n ELSE m - 1

(* binit() links bcache.head and the buffers, the last one in front.       *)
LEMMA RingLinked ==
  ASSUME Counting
  PROVE  /\ Ring[NBUF].next \in [0 .. NBUF -> 0 .. NBUF]
         /\ Ring[NBUF].prev \in [0 .. NBUF -> 0 .. NBUF]
         /\ Linked(Ring[NBUF], NBUF)
<1> DEFINE F == [0 .. NBUF -> 0 .. NBUF]
           Ptr == [next : F, prev : F]
           one == [next |-> [b \in 0 .. NBUF |-> b], prev |-> [b \in 0 .. NBUF |-> b]]
           ins(x, n) == IF n \in 1 .. NBUF THEN InsertFront(x, n) ELSE x
           G == [n \in Nat |-> [x \in Ptr |-> ins(x, n)]]
<1>0. NBUF \in Nat
  BY BufAssumption
<1>1. one \in Ptr
  OBVIOUS
<1>2. ASSUME NEW x \in Ptr, NEW n \in 1 .. NBUF PROVE InsertFront(x, n) \in Ptr
  <2>1. x.next \in F /\ x.prev \in F /\ head \in 0 .. NBUF /\ n \in 0 .. NBUF
    <3>1. x.next \in F /\ x.prev \in F
      <4> HIDE DEF F
      <4> QED
        OBVIOUS
    <3>2. head \in 0 .. NBUF /\ n \in 0 .. NBUF
      BY <1>0 DEF head
    <3> HIDE DEF F
    <3> QED
      BY <3>1, <3>2
  <2>2. x.next[head] \in 0 .. NBUF
    BY <2>1, Zenon
  <2>3. [x.next EXCEPT ![n] = x.next[head], ![head] = n] \in F
    BY <2>1, <2>2, Zenon
  <2>4. [x.prev EXCEPT ![n] = head, ![x.next[head]] = n] \in F
    BY <2>1, <2>2, Zenon
  <2> HIDE DEF F
  <2> QED
    BY <2>3, <2>4 DEF InsertFront
<1>a. Linked(one, 0)
  <2>1. \A m \in 0 .. 0 : m = 0 /\ m \in 0 .. NBUF
    BY <1>0
  <2>2. \A m \in 0 .. NBUF : one.prev[m] = m /\ one.next[m] = m
    OBVIOUS
  <2> HIDE DEF one
  <2> QED
    BY ONLY <2>1, <2>2 DEF Linked, head
<1>c. ASSUME NEW n \in 1 .. NBUF, NEW m \in 0 .. n
      PROVE  m \in 0 .. NBUF /\ (m # n => m \in 0 .. n - 1) /\ (m = n - 1 => m + 1 = n)
  BY <1>0
<1>b. ASSUME NEW x \in Ptr, NEW n \in 1 .. NBUF, Linked(x, n - 1)
      PROVE  Linked(InsertFront(x, n), n)
  <2> DEFINE y == InsertFront(x, n)
             h == x.next
             k == x.prev
  <2>0. /\ n - 1 \in 0 .. NBUF /\ n \in 0 .. NBUF /\ n # n - 1 /\ n # 0 /\ 0 \in 0 .. NBUF
        /\ n - 1 \in 0 .. n - 1 /\ 0 \in 0 .. n - 1 /\ head = 0
    BY ONLY <1>0, n \in 1 .. NBUF DEF head
  <2>1. h \in F /\ k \in F
    <3> HIDE DEF F
    <3> QED
      BY Zenon
  <2>2. h[0] = n - 1 /\ \A m \in 0 .. n - 1 : /\ k[m] = IF m = n - 1 THEN 0 ELSE m + 1
                                           /\ h[m] = IF m = 0 THEN n - 1 ELSE m - 1
    BY <1>b, <2>0, Zenon DEF Linked
  <2>3. /\ y.next = [h EXCEPT ![n] = h[0], ![0] = n]
        /\ y.prev = [k EXCEPT ![n] = 0, ![h[0]] = n]
    BY <2>0 DEF InsertFront
  <2> HIDE DEF h, k
  <2>4. \A m \in 0 .. NBUF : y.next[m] = IF m = 0 THEN n ELSE IF m = n THEN n - 1 ELSE h[m]
    <3>1. \A m \in 0 .. NBUF : [h EXCEPT ![n] = h[0], ![0] = n][m] = IF m = 0 THEN n ELSE IF m = n THEN h[0] ELSE h[m]
      BY <2>0, <2>1, <2>2, TwoPointers, Zenon
    <3> QED
      BY <2>2, <2>3, <3>1, Zenon
  <2>5. \A m \in 0 .. NBUF : y.prev[m] = IF m = n - 1 THEN n ELSE IF m = n THEN 0 ELSE k[m]
    <3>1. \A m \in 0 .. NBUF : [k EXCEPT ![n] = 0, ![h[0]] = n][m] = IF m = h[0] THEN n ELSE IF m = n THEN 0 ELSE k[m]
      BY <2>0, <2>1, <2>2, TwoPointers, Zenon
    <3> QED
      BY <2>2, <2>3, <3>1, Zenon
  <2> HIDE DEF y
  <2>6. ASSUME NEW m \in 0 .. n
        PROVE  /\ y.prev[m] = IF m = n THEN 0 ELSE m + 1
               /\ y.next[m] = IF m = 0 THEN n ELSE m - 1
    <3>1. m \in 0 .. NBUF /\ (m # n => m \in 0 .. n - 1) /\ (m = n - 1 => m + 1 = n)
      BY <1>c, Zenon
    <3>2. y.prev[m] = IF m = n THEN 0 ELSE m + 1
      <4>1. CASE m = n - 1
        BY ONLY <2>0, <2>5, <3>1, <4>1, Zenon
      <4>2. CASE m # n - 1
        BY ONLY <2>0, <2>2, <2>5, <3>1, <4>2, Zenon
      <4> QED
        BY <4>1, <4>2
    <3>3. y.next[m] = IF m = 0 THEN n ELSE m - 1
      BY ONLY <2>0, <2>2, <2>4, <3>1, Zenon
    <3> QED
      BY <3>2, <3>3
  <2> QED
    BY <2>0, <2>6, Zenon DEF Linked, y
<1>3. G \in [Nat -> [Ptr -> Ptr]]
  <2>1. \A x \in Ptr, n \in Nat : ins(x, n) \in Ptr
    BY <1>2
  <2> HIDE DEF ins, Ptr
  <2> QED
    BY <2>1
<1>4. PICK f \in [0 .. NBUF -> Ptr] :
        f[0] = one /\ \A i \in 1 .. NBUF : f[i] = G[i][f[i - 1]]
  <2> HIDE DEF G, Ptr, one
  <2>1. Iterable(NBUF, Ptr, one, G)
    BY <1>0, <1>1, <1>3, Iterate
  <2> QED
    BY <2>1, Zenon DEF Iterable
<1>5. ASSUME NEW i \in 1 .. NBUF PROVE f[i] = InsertFront(f[i - 1], i)
  <2> HIDE DEF Ptr, one, ins, G
  <2>1. i - 1 \in 0 .. NBUF /\ i \in Nat
    BY <1>0
  <2>2. f[i - 1] \in Ptr /\ f[i] = G[i][f[i - 1]]
    BY <1>4, <2>1
  <2>3. G[i][f[i - 1]] = ins(f[i - 1], i)
    BY <2>1, <2>2 DEF G
  <2> QED
    BY <2>2, <2>3 DEF ins
<1>6. f = [n \in 0 .. NBUF |-> IF n = 0 THEN one ELSE InsertFront(f[n - 1], n)]
  <2> HIDE DEF one, Ptr, G
  <2>1. \A n \in 0 .. NBUF : n = 0 \/ n \in 1 .. NBUF
    BY <1>0
  <2>2. \A n \in 0 .. NBUF : f[n] = IF n = 0 THEN one ELSE InsertFront(f[n - 1], n)
    BY <1>4, <1>5, <2>1
  <2>3. f = [n \in 0 .. NBUF |-> f[n]]
    BY <1>4
  <2> QED
    BY <2>2, <2>3, Zenon
<1>7. Ring = [n \in 0 .. NBUF |-> IF n = 0 THEN one ELSE InsertFront(Ring[n - 1], n)]
  BY <1>6, Zenon DEF Ring
<1> DEFINE Bad == {n \in 0 .. NBUF : ~(Ring[n] \in Ptr /\ Linked(Ring[n], n))}
<1> HIDE DEF Ptr, one
<1>8. Bad = {}
  <2> SUFFICES ASSUME Bad # {} PROVE FALSE
    OBVIOUS
  <2>1. Bad \in SUBSET Nat
    BY <1>0
  <2>2. PICK n \in Bad : \A m \in Bad : n <= m
    <3> HIDE DEF Bad
    <3> QED
      BY <2>1 DEF Counting
  <2>3. n # 0
    BY <1>0, <1>1, <1>a, <1>7, Zenon
  <2>4. n \in 1 .. NBUF /\ n - 1 \in 0 .. NBUF /\ n - 1 \notin Bad
    BY <1>0, <2>2, <2>3
  <2>5. Ring[n] = InsertFront(Ring[n - 1], n) /\ Ring[n - 1] \in Ptr /\ Linked(Ring[n - 1], n - 1)
    BY <1>7, <2>3, <2>4, Zenon
  <2> QED
    BY <1>2, <1>b, <2>2, <2>4, <2>5, Zenon
<1>9. Ring[NBUF] \in Ptr /\ Linked(Ring[NBUF], NBUF)
  <2>1. NBUF \in 0 .. NBUF
    BY <1>0
  <2> QED
    BY <1>8, <2>1, Zenon
<1> QED
  BY <1>9, Zenon DEF Ptr

(* bget() recycles a buffer, not bcache.head, that nobody references.      *)
LEMMA Victim ==
  ASSUME Counting, TypeOK, Unreferenced # {}
  PROVE  /\ Back[Min(Unreferenced)] \in Bufs
         /\ refcnt[Back[Min(Unreferenced)]] = 0
<1> DEFINE U == Unreferenced
<1>1. NBUF \in Nat /\ U \in SUBSET (1 .. NBUF) /\ U \in SUBSET Nat
  BY BufAssumption DEF Unreferenced
<1>2. \E x \in U : \A y \in U : x <= y
  <2> HIDE DEF U
  <2>1. U # {}
    BY DEF U
  <2> QED
    BY <1>1, <2>1 DEF Counting
<1>3. Min(U) \in U
  <2> HIDE DEF U
  <2> QED
    BY <1>2 DEF Min
<1>4. Min(U) \in 0 .. NBUF /\ Back[Min(U)] # head /\ refcnt[Back[Min(U)]] = 0
  BY <1>1, <1>3 DEF Unreferenced
<1>5. Back[Min(U)] \in 0 .. NBUF
  <2> HIDE DEF U
  <2> QED
    BY <1>4, BackInRange
<1> QED
  BY <1>1, <1>4, <1>5 DEF Bufs, head

(* The processes at a buffer can be counted.                               *)
LEMMA WaitingCount ==
  ASSUME Counting, NEW b
  PROVE  /\ Waiting(b) \in SUBSET Procs /\ Cardinality(Waiting(b)) \in Nat
         /\ Cardinality(Waiting(b)) = 0 <=> Waiting(b) = {}
<1>1. Waiting(b) \in SUBSET Procs
  BY DEF Waiting
<1> QED
  BY <1>1 DEF Counting

(* A process that bget() or releasesleep() brings to buffer b is one more  *)
(* there, and changes the count of no other buffer.                        *)
LEMMA WaitEnter ==
  ASSUME Counting, TypeOK, NEW p \in Procs, NEW b \in Bufs, NEW l \in {"lock", "unref"},
         pc[p] \notin {"lock", "unref"},
         Go(p, l), got' = [got EXCEPT ![p] = b],
         NEW c \in Bufs
  PROVE  Cardinality(Waiting(c)') = Cardinality(Waiting(c)) + (IF c = b THEN 1 ELSE 0)
<1>1. CASE c = b
  <2>1. Waiting(c)' = Waiting(c) \cup {p} /\ p \notin Waiting(c)
    BY <1>1, Zenon DEF Waiting, TypeOK, Go
  <2> QED
    BY <1>1, <2>1, WaitingCount, Zenon DEF Counting
<1>2. CASE c # b
  <2>1. Waiting(c)' = Waiting(c)
    BY <1>2, Zenon DEF Waiting, TypeOK, Go
  <2> QED
    BY <1>2, <2>1, WaitingCount
<1> QED
  BY <1>1, <1>2

(* A process that gets the lock of its buffer, or drops its reference, is  *)
(* one less there.                                                         *)
LEMMA WaitLeave ==
  ASSUME Counting, TypeOK, NEW p \in Procs, NEW l, l \notin {"lock", "unref"},
         pc[p] \in {"lock", "unref"}, Go(p, l),
         \A q \in Procs \ {p} : got'[q] = got[q],
         NEW c \in Bufs
  PROVE  Cardinality(Waiting(c)') = Cardinality(Waiting(c)) - (IF c = got[p] THEN 1 ELSE 0)
<1>1. CASE c = got[p]
  <2>1. Waiting(c)' = Waiting(c) \ {p} /\ p \in Waiting(c)
    BY <1>1, Zenon DEF Waiting, TypeOK, Go
  <2>2. Cardinality(Waiting(c) \ {p}) = Cardinality(Waiting(c)) - 1
    <3>1. Waiting(c) \ {p} \in SUBSET Procs /\ p \in Procs \ (Waiting(c) \ {p})
      BY WaitingCount
    <3>2. Cardinality((Waiting(c) \ {p}) \cup {p}) = Cardinality(Waiting(c) \ {p}) + 1
      BY <3>1 DEF Counting
    <3>3. (Waiting(c) \ {p}) \cup {p} = Waiting(c)
      BY <2>1
    <3>4. Cardinality(Waiting(c) \ {p}) \in Nat
      BY <3>1 DEF Counting
    <3> QED
      BY <3>2, <3>3, <3>4
  <2> QED
    BY <1>1, <2>1, <2>2, Zenon
<1>2. CASE c # got[p]
  <2>1. Waiting(c)' = Waiting(c)
    BY <1>2, Zenon DEF Waiting, TypeOK, Go
  <2> QED
    BY <1>2, <2>1, WaitingCount
<1> QED
  BY <1>1, <1>2

(* A process that neither waits for a buffer nor drops one, before and     *)
(* after a step, does not count.                                           *)
LEMMA WaitSame ==
  ASSUME TypeOK, NEW p \in Procs, NEW l, l \notin {"lock", "unref"},
         pc[p] \notin {"lock", "unref"}, Go(p, l),
         \A q \in Procs \ {p} : got'[q] = got[q],
         NEW c \in Bufs
  PROVE  Cardinality(Waiting(c)') = Cardinality(Waiting(c))
<1>1. Waiting(c)' = Waiting(c)
  BY DEF Waiting, TypeOK, Go
<1> QED
  BY <1>1

(* A buffer with refcnt 0 is not locked, nobody is on the way to it, and   *)
(* the log has not pinned it.                                              *)
LEMMA IdleBuffer ==
  ASSUME Counting, BInv, NEW b \in Bufs, refcnt[b] = 0
  PROVE  locked[b] = NoProc /\ Waiting(b) = {} /\ blockno[b] \notin logged
<1>1. refcnt[b] = (IF locked[b] = NoProc THEN 0 ELSE 1) + Cardinality(Waiting(b))
                + (IF blockno[b] \in logged THEN 1 ELSE 0)
  BY DEF BInv, CountInv
<1>2. Cardinality(Waiting(b)) \in Nat
  BY WaitingCount
<1>3. locked[b] = NoProc /\ Cardinality(Waiting(b)) = 0 /\ blockno[b] \notin logged
  BY <1>1, <1>2
<1> QED
  BY <1>3, WaitingCount

(* The invariant holds after binit().                                      *)
LEMMA InitInv ==
  ASSUME Counting, Init
  PROVE  BInv
<1>1. TypeOK
  <2>1. next \in [0 .. NBUF -> 0 .. NBUF] /\ prev \in [0 .. NBUF -> 0 .. NBUF]
    BY RingLinked, Zenon DEF Init
  <2>2. head \in 0 .. NBUF
    BY BufAssumption DEF head
  <2>3. got \in [Procs -> 0 .. NBUF] /\ asleep \subseteq Procs
    BY <2>2 DEF Init
  <2> QED
    BY <2>1, <2>3, BufAssumption, Zenon DEF Init, TypeOK
<1>2. HolderInv
  BY BufAssumption DEF Init, HolderInv, HasBuffer, HasContents
<1>3. UniqueInv
  BY DEF Init, UniqueInv
<1>4. CountInv
  <2>1. \A b \in Bufs : Waiting(b) = {}
    BY DEF Init, Waiting
  <2> QED
    BY <2>1 DEF Init, CountInv, Counting
<1>5. DataInv
  BY DEF Init, DataInv
<1> QED
  BY <1>1, <1>2, <1>3, <1>4, <1>5 DEF BInv

(* bget() that finds the block keeps the invariant: the reference it       *)
(* counts is its own.                                                      *)
LEMMA HitInv ==
  ASSUME Counting, BInv, NEW p \in Procs, NEW k \in Blocks, Hit(p, k)
  PROVE  BInv'
<1>1. PICK b \in Cached(k) : /\ refcnt' = [refcnt EXCEPT ![b] = @ + 1]
                             /\ got' = [got EXCEPT ![p] = b]
  BY Zenon DEF Hit
<1>2. /\ pc[p] = "run" /\ Go(p, "lock") /\ want' = [want EXCEPT ![p] = k]
      /\ UNCHANGED <<blockno, valid, data, next, prev, locked, disk, logged, asleep>>
  BY DEF Hit, MayAsk, ring
<1>3. b \in Bufs /\ blockno[b] = k /\ b \in 0 .. NBUF
  BY <1>1, BufAssumption DEF Cached, Bufs
<1>4. TypeOK'
  BY <1>1, <1>2, <1>3 DEF BInv, TypeOK, Go
<1>5. HolderInv'
  <2>1. ASSUME NEW q \in Procs PROVE HasBuffer(q)'
    <3>1. CASE q = p
      BY <1>1, <1>2, <1>3, <3>1 DEF BInv, TypeOK, HolderInv, HasBuffer, HasContents, Go
    <3>2. CASE q # p
      BY <1>1, <1>2, <3>2 DEF BInv, TypeOK, HolderInv, HasBuffer, HasContents, Go
    <3> QED
      BY <3>1, <3>2
  <2>2. ASSUME NEW c \in Bufs, locked'[c] # NoProc PROVE HasContents(c)'
    BY <1>1, <1>2, <2>2 DEF BInv, TypeOK, HolderInv, HasBuffer, HasContents, Go
  <2> QED
    BY <2>1, <2>2, Zenon DEF HolderInv, HasContents
<1>6. UniqueInv'
  BY <1>2 DEF BInv, UniqueInv
<1>7. CountInv'
  <2> SUFFICES ASSUME NEW c \in Bufs
               PROVE  refcnt'[c] = (IF locked[c] = NoProc THEN 0 ELSE 1)
                        + Cardinality(Waiting(c)') + (IF blockno[c] \in logged THEN 1 ELSE 0)
    BY <1>2, Zenon DEF CountInv
  <2>1. Cardinality(Waiting(c)') = Cardinality(Waiting(c)) + (IF c = b THEN 1 ELSE 0)
    BY <1>1, <1>2, <1>3, WaitEnter, Zenon DEF BInv
  <2>2. Cardinality(Waiting(c)) \in Nat
    BY WaitingCount
  <2> QED
    BY <1>1, <1>3, <2>1, <2>2 DEF BInv, TypeOK, CountInv
<1>8. DataInv'
  BY <1>2, Zenon DEF BInv, DataInv, Cached
<1> QED
  BY <1>4, <1>5, <1>6, <1>7, <1>8 DEF BInv

(* bget() that recycles a buffer keeps the invariant: nobody has the old   *)
(* block, and the new one is in no other buffer.                           *)
LEMMA RecycleInv ==
  ASSUME Counting, BInv, NEW p \in Procs, NEW k \in Blocks, Recycle(p, k)
  PROVE  BInv'
<1> DEFINE b == Back[Min(Unreferenced)]
<1>1. /\ pc[p] = "run" /\ Go(p, "lock") /\ want' = [want EXCEPT ![p] = k]
      /\ Cached(k) = {} /\ Unreferenced # {}
      /\ blockno' = [blockno EXCEPT ![b] = k] /\ valid' = [valid EXCEPT ![b] = FALSE]
      /\ refcnt' = [refcnt EXCEPT ![b] = 1] /\ got' = [got EXCEPT ![p] = b]
      /\ UNCHANGED <<data, next, prev, locked, disk, logged, asleep>>
  BY Zenon DEF Recycle, MayAsk, ring
<1>2. b \in Bufs /\ refcnt[b] = 0
  BY <1>1, Victim, Zenon DEF BInv
<1> HIDE DEF b
<1>3. locked[b] = NoProc /\ Waiting(b) = {} /\ blockno[b] \notin logged
  BY <1>2, IdleBuffer
<1>4. b \in 0 .. NBUF
  BY <1>2, BufAssumption DEF Bufs
<1>5. TypeOK'
  BY <1>1, <1>2, <1>4, Zenon DEF BInv, TypeOK, Go
<1>6. k \notin logged
  BY <1>1, Zenon DEF BInv, DataInv
<1>7. HolderInv'
  <2>1. ASSUME NEW q \in Procs PROVE HasBuffer(q)'
    <3>1. CASE q = p
      BY <1>1, <1>2, <3>1 DEF BInv, TypeOK, HolderInv, HasBuffer, HasContents, Go
    <3>2. CASE q # p
      <4>1. pc[q] \in {"lock", "bread"} => got[q] # b
        BY <1>3, BufAssumption DEF BInv, HolderInv, HasBuffer, HasContents, Waiting
      <4> QED
        BY <1>1, <1>2, <3>2, <4>1 DEF BInv, TypeOK, HolderInv, HasBuffer, HasContents, Go
    <3> QED
      BY <3>1, <3>2
  <2>2. ASSUME NEW c \in Bufs, locked'[c] # NoProc PROVE HasContents(c)'
    <3>1. c # b /\ locked[c] # NoProc /\ locked[c] \in Procs
      BY <1>1, <1>3, <2>2, Zenon DEF BInv, TypeOK
    <3> QED
      BY <1>1, <3>1 DEF BInv, TypeOK, HolderInv, HasBuffer, HasContents, Go
  <2> QED
    BY <2>1, <2>2 DEF HolderInv, HasContents
<1>8. UniqueInv'
  BY <1>1, <1>2, Zenon DEF BInv, TypeOK, UniqueInv, Cached
<1>9. CountInv'
  <2> SUFFICES ASSUME NEW c \in Bufs
               PROVE  refcnt'[c] = (IF locked[c] = NoProc THEN 0 ELSE 1)
                        + Cardinality(Waiting(c)') + (IF blockno'[c] \in logged THEN 1 ELSE 0)
    BY <1>1, Zenon DEF CountInv
  <2>1. Cardinality(Waiting(c)') = Cardinality(Waiting(c)) + (IF c = b THEN 1 ELSE 0)
    BY <1>1, <1>2, WaitEnter, Zenon DEF BInv
  <2>2. Cardinality(Waiting(c)) \in Nat /\ Cardinality(Waiting(b)) = 0
    BY <1>3, WaitingCount, Zenon
  <2>3. CASE c = b
    <3>1. refcnt'[c] = 1 /\ blockno'[c] = k /\ locked[c] = NoProc
      BY <1>1, <1>2, <1>3, <2>3, Zenon DEF BInv, TypeOK
    <3>2. Cardinality(Waiting(c)') = 1
      BY <2>1, <2>2, <2>3
    <3> QED
      BY <1>6, <3>1, <3>2
  <2>4. CASE c # b
    BY <1>1, <1>2, <2>1, <2>2, <2>4 DEF BInv, TypeOK, CountInv
  <2> QED
    BY <2>3, <2>4, Zenon
<1>10. DataInv'
  BY <1>1, <1>2, <1>3 DEF BInv, TypeOK, DataInv, Cached
<1> QED
  BY <1>5, <1>7, <1>8, <1>9, <1>10 DEF BInv

(* The panic of bget() changes no buffer.                                  *)
LEMMA NoBuffersInv ==
  ASSUME Counting, BInv, NEW p \in Procs, NEW k \in Blocks, NoBuffers(p, k)
  PROVE  BInv'
<1>1. /\ pc[p] = "run" /\ Go(p, "panic")
      /\ UNCHANGED <<blockno, valid, refcnt, data, next, prev, locked, disk, logged, want, got, asleep>>
  BY DEF NoBuffers, MayAsk, ring, bufs
<1>2. TypeOK'
  BY <1>1, Zenon DEF BInv, TypeOK, Go
<1>3. HolderInv'
  BY <1>1 DEF BInv, TypeOK, HolderInv, HasBuffer, HasContents, Go
<1>4. CountInv'
  <2>1. \A c \in Bufs : Cardinality(Waiting(c)') = Cardinality(Waiting(c))
    BY <1>1, WaitSame, Zenon DEF BInv
  <2> QED
    BY <1>1, <2>1, Zenon DEF BInv, CountInv
<1> QED
  BY <1>1, <1>2, <1>3, <1>4, Zenon DEF BInv, UniqueInv, DataInv, Cached

(* acquiresleep() that gets the lock keeps the invariant: the reference of *)
(* the waiter becomes that of the holder.                                  *)
LEMMA AcquireSleepInv ==
  ASSUME Counting, BInv, NEW p \in Procs, AcquireSleep(p)
  PROVE  BInv'
<1> DEFINE b == got[p]
<1>1. /\ pc[p] = "lock" /\ p \notin asleep /\ locked[b] = NoProc
      /\ locked' = [locked EXCEPT ![b] = p] /\ Go(p, "bread")
      /\ UNCHANGED <<blockno, valid, refcnt, data, next, prev, disk, logged, want, got, asleep>>
  BY DEF AcquireSleep, ring, bufs
<1>2. b \in Bufs /\ blockno[b] = want[p] /\ want[p] \in Blocks
  BY <1>1, Zenon DEF BInv, HolderInv, HasBuffer, HasContents
<1> HIDE DEF b
<1>3. TypeOK'
  BY <1>1, <1>2, Zenon DEF BInv, TypeOK, Go
<1>4. HolderInv'
  <2>1. ASSUME NEW q \in Procs PROVE HasBuffer(q)'
    <3>1. CASE q = p
      BY <1>1, <1>2, <3>1, Zenon DEF BInv, TypeOK, HolderInv, HasBuffer, HasContents, Go, b
    <3>2. CASE q # p
      <4>1. pc[q] = "bread" => got[q] # b
        <5>1. pc[q] = "bread" => locked[got[q]] = q
          BY DEF BInv, HolderInv, HasBuffer
        <5> QED
          BY <1>1, <5>1, BufAssumption, Zenon
      <4> QED
        BY <1>1, <1>2, <3>2, <4>1 DEF BInv, TypeOK, HolderInv, HasBuffer, HasContents, Go
    <3> QED
      BY <3>1, <3>2
  <2>2. ASSUME NEW c \in Bufs, locked'[c] # NoProc PROVE HasContents(c)'
    <3>1. CASE c = b
      <4>1. locked'[c] = p /\ pc'[p] = "bread" /\ got'[p] = c
        BY <1>1, <1>2, <3>1, Zenon DEF BInv, TypeOK, Go, b
      <4> QED
        BY <1>1, <1>2, <3>1, <4>1, Zenon DEF HasContents
    <3>2. CASE c # b
      <4>1. locked'[c] = locked[c] /\ locked[c] # NoProc
        BY <1>1, <2>2, <3>2, Zenon DEF BInv, TypeOK
      <4> QED
        BY <1>1, <4>1 DEF BInv, TypeOK, HolderInv, HasBuffer, HasContents, Go
    <3> QED
      BY <3>1, <3>2
  <2> QED
    BY <2>1, <2>2 DEF HolderInv, HasContents
<1>5. CountInv'
  <2> SUFFICES ASSUME NEW c \in Bufs
               PROVE  refcnt[c] = (IF locked'[c] = NoProc THEN 0 ELSE 1)
                        + Cardinality(Waiting(c)') + (IF blockno[c] \in logged THEN 1 ELSE 0)
    BY <1>1, Zenon DEF CountInv
  <2>1. Cardinality(Waiting(c)') = Cardinality(Waiting(c)) - (IF c = got[p] THEN 1 ELSE 0)
    BY <1>1, WaitLeave, Zenon DEF BInv
  <2>2. Cardinality(Waiting(c)) \in Nat
    BY WaitingCount
  <2>3. refcnt[c] = (IF locked[c] = NoProc THEN 0 ELSE 1)
                  + Cardinality(Waiting(c)) + (IF blockno[c] \in logged THEN 1 ELSE 0)
    BY DEF BInv, CountInv
  <2>4. CASE c = b
    <3>1. locked[c] = NoProc /\ locked'[c] # NoProc
      BY <1>1, <1>2, <2>4, BufAssumption, Zenon DEF BInv, TypeOK
    <3> QED
      BY <2>1, <2>2, <2>3, <2>4, <3>1 DEF b
  <2>5. CASE c # b
    <3>1. locked'[c] = locked[c]
      BY <1>1, <2>5, Zenon DEF BInv, TypeOK
    <3> QED
      BY <2>1, <2>2, <2>3, <2>5, <3>1 DEF b
  <2> QED
    BY <2>4, <2>5, Zenon
<1> QED
  BY <1>1, <1>3, <1>4, <1>5, Zenon DEF BInv, UniqueInv, DataInv, Cached

(* Going to sleep in acquiresleep(), and being woken by kkill(), keep it.  *)
LEMMA SleeperInv ==
  ASSUME Counting, BInv, NEW p \in Procs, AcquireSleepWaits(p) \/ Kick(p)
  PROVE  BInv'
<1>1. /\ (asleep' = asleep \cup {p} /\ pc[p] = "lock") \/ asleep' = asleep \ {p}
      /\ UNCHANGED <<blockno, valid, refcnt, data, next, prev, locked, disk, logged, pc, want, got>>
  BY DEF AcquireSleepWaits, Kick, ring, bufs
<1>2. TypeOK'
  BY <1>1, Zenon DEF BInv, TypeOK
<1>3. HolderInv'
  BY <1>1, Zenon DEF BInv, HolderInv, HasBuffer, HasContents
<1>4. CountInv'
  BY <1>1, Zenon DEF BInv, CountInv, Waiting
<1> QED
  BY <1>1, <1>2, <1>3, <1>4, Zenon DEF BInv, UniqueInv, DataInv, Cached

(* bread() keeps the invariant: a buffer that it reads is then as good as  *)
(* the disk.                                                               *)
LEMMA BreadInv ==
  ASSUME Counting, BInv, NEW p \in Procs, Bread(p)
  PROVE  BInv'
<1> DEFINE b == got[p]
           d == IF valid[b] THEN data[b] ELSE disk[blockno[b]]
<1>1. /\ pc[p] = "bread" /\ Go(p, "run")
      /\ data' = [data EXCEPT ![b] = d] /\ valid' = [valid EXCEPT ![b] = TRUE]
      /\ want' = [want EXCEPT ![p] = NoBlock] /\ got' = [got EXCEPT ![p] = head]
      /\ UNCHANGED <<blockno, refcnt, next, prev, locked, disk, logged, asleep>>
  BY Zenon DEF Bread, ring
<1>2. b \in Bufs /\ blockno[b] \in Blocks /\ locked[b] = p /\ b \in 0 .. NBUF
  BY <1>1, BufAssumption DEF BInv, HolderInv, HasBuffer, HasContents, Bufs
<1>3. d \in Val /\ (~valid[b] => d = disk[blockno[b]]) /\ (valid[b] => d = data[b])
  BY <1>2, Zenon DEF BInv, TypeOK
<1>4. head \in 0 .. NBUF
  BY BufAssumption DEF head
<1> HIDE DEF b, d
<1>5. TypeOK'
  BY <1>1, <1>2, <1>3, <1>4, Zenon DEF BInv, TypeOK, Go
<1>6. HolderInv'
  <2>1. ASSUME NEW q \in Procs PROVE HasBuffer(q)'
    <3>1. CASE q = p
      BY <1>1, <3>1 DEF BInv, TypeOK, HolderInv, HasBuffer, HasContents, Go
    <3>2. CASE q # p
      BY <1>1, <3>2 DEF BInv, TypeOK, HolderInv, HasBuffer, HasContents, Go
    <3> QED
      BY <3>1, <3>2
  <2>2. ASSUME NEW c \in Bufs, locked'[c] # NoProc PROVE HasContents(c)'
    <3>1. CASE c = b
      BY <1>1, <1>2, <3>1, Zenon DEF BInv, TypeOK, HasContents
    <3>2. CASE c # b
      <4>1. valid'[c] = valid[c] /\ locked[c] # NoProc
        BY <1>1, <2>2, <3>2, Zenon DEF BInv, TypeOK
      <4>2. CASE valid[c]
        BY <1>1, <4>1, <4>2, Zenon DEF BInv, HolderInv, HasBuffer, HasContents
      <4>3. CASE ~valid[c]
        <5>1. pc[locked[c]] = "bread" /\ got[locked[c]] = c /\ blockno[c] \in Blocks
          BY <4>1, <4>3, Zenon DEF BInv, HolderInv, HasBuffer, HasContents
        <5>2. locked[c] \in Procs /\ locked[c] # p
          BY <3>2, <4>1, <5>1, Zenon DEF BInv, TypeOK, b
        <5> QED
          BY <1>1, <5>1, <5>2, Zenon DEF BInv, TypeOK, Go, HasContents
      <4> QED
        BY <4>2, <4>3
    <3> QED
      BY <3>1, <3>2
  <2> QED
    BY <2>1, <2>2 DEF HolderInv, HasContents
<1>7. CountInv'
  <2>1. \A c \in Bufs : Cardinality(Waiting(c)') = Cardinality(Waiting(c))
    <3>1. \A q \in Procs \ {p} : got'[q] = got[q]
      BY <1>1, Zenon DEF BInv, TypeOK
    <3> QED
      BY <1>1, <3>1, WaitSame, Zenon DEF BInv
  <2> QED
    BY <1>1, <2>1, Zenon DEF BInv, CountInv
<1>8. DataInv'
  <2>1. ASSUME NEW c \in Bufs, valid'[c]
        PROVE  /\ blockno[c] \in Blocks
               /\ blockno[c] \notin logged => data'[c] = disk[blockno[c]]
    <3>1. CASE c = b
      <4>1. data'[c] = d
        BY <1>1, <1>2, <3>1, Zenon DEF BInv, TypeOK
      <4> QED
        BY <1>2, <1>3, <3>1, <4>1, Zenon DEF BInv, DataInv
    <3>2. CASE c # b
      <4>1. data'[c] = data[c] /\ valid[c]
        BY <1>1, <2>1, <3>2, Zenon DEF BInv, TypeOK
      <4> QED
        BY <4>1, Zenon DEF BInv, DataInv
    <3> QED
      BY <3>1, <3>2, Zenon
  <2>2. ASSUME NEW k \in logged PROVE \E c \in Cached(k) : valid'[c]
    BY <1>1, Zenon DEF BInv, TypeOK, DataInv, Cached
  <2> QED
    BY <1>1, <2>1, <2>2, Zenon DEF DataInv, Cached
<1> QED
  BY <1>1, <1>5, <1>6, <1>7, <1>8, Zenon DEF BInv, UniqueInv

(* A change with log_write() keeps the invariant: the buffer that differs  *)
(* from the disk is pinned.                                                *)
LEMMA ModifyInv ==
  ASSUME Counting, BInv, NEW p \in Procs, NEW b \in Bufs, NEW v \in Val, Modify(p, b, v)
  PROVE  BInv'
<1> DEFINE k == blockno[b]
           n == IF k \notin logged THEN refcnt[b] + 1 ELSE refcnt[b]
<1>1. /\ pc[p] = "run" /\ locked[b] = p /\ locked[b] # NoProc
      /\ data' = [data EXCEPT ![b] = v] /\ logged' = logged \cup {k}
      /\ refcnt' = [refcnt EXCEPT ![b] = n]
      /\ UNCHANGED <<blockno, valid, next, prev, locked, disk, pc, want, got, asleep>>
  BY BufAssumption, Zenon DEF Modify, ring, Held
<1>2. k \in Blocks /\ valid[b] /\ n \in Nat
  BY <1>1 DEF BInv, TypeOK, HolderInv, HasBuffer, HasContents
<1>3. \A c \in Bufs \ {b} : blockno[c] # k
  BY <1>2, BufAssumption, Zenon DEF BInv, UniqueInv
<1>4. TypeOK'
  <2> HIDE DEF k, n
  <2> QED
    BY <1>1, <1>2, Zenon DEF BInv, TypeOK
<1>5. HolderInv'
  BY <1>1, Zenon DEF BInv, HolderInv, HasBuffer, HasContents
<1>6. CountInv'
  <2> SUFFICES ASSUME NEW c \in Bufs
               PROVE  refcnt'[c] = (IF locked[c] = NoProc THEN 0 ELSE 1)
                        + Cardinality(Waiting(c)) + (IF blockno[c] \in logged' THEN 1 ELSE 0)
    BY <1>1, Zenon DEF CountInv, Waiting
  <2>1. refcnt[c] = (IF locked[c] = NoProc THEN 0 ELSE 1)
                  + Cardinality(Waiting(c)) + (IF blockno[c] \in logged THEN 1 ELSE 0)
    BY DEF BInv, CountInv
  <2>2. Cardinality(Waiting(c)) \in Nat
    BY WaitingCount
  <2>3. CASE c = b
    <3>1. refcnt'[c] = n /\ blockno[c] \in logged'
      BY <1>1, <2>3, Zenon DEF BInv, TypeOK
    <3> QED
      BY <2>1, <2>2, <2>3, <3>1
  <2>4. CASE c # b
    <3>1. refcnt'[c] = refcnt[c] /\ (blockno[c] \in logged' <=> blockno[c] \in logged)
      BY <1>1, <1>3, <2>4, Zenon DEF BInv, TypeOK
    <3> QED
      BY <2>1, <3>1, Zenon
  <2> QED
    BY <2>3, <2>4, Zenon
<1>7. DataInv'
  <2>1. ASSUME NEW c \in Bufs, valid[c]
        PROVE  /\ blockno[c] \in Blocks
               /\ blockno[c] \notin logged' => data'[c] = disk[blockno[c]]
    BY <1>1, <2>1, Zenon DEF BInv, TypeOK, DataInv
  <2>2. ASSUME NEW j \in logged' PROVE \E c \in Cached(j) : valid[c]
    BY <1>1, <1>2, <2>2, Zenon DEF BInv, DataInv, Cached
  <2> QED
    BY <1>1, <2>1, <2>2, Zenon DEF DataInv, Cached
<1> QED
  BY <1>1, <1>4, <1>5, <1>6, <1>7, Zenon DEF BInv, UniqueInv

(* install_trans() keeps the invariant: the disk has the data before the   *)
(* pin goes.                                                               *)
LEMMA InstallInv ==
  ASSUME Counting, BInv, NEW p \in Procs, NEW b \in Bufs, Install(p, b)
  PROVE  BInv'
<1> DEFINE k == blockno[b]
<1>1. /\ pc[p] = "run" /\ locked[b] = p /\ locked[b] # NoProc /\ k \in logged
      /\ disk' = [disk EXCEPT ![k] = data[b]] /\ logged' = logged \ {k}
      /\ refcnt' = [refcnt EXCEPT ![b] = @ - 1]
      /\ UNCHANGED <<blockno, valid, data, next, prev, locked, pc, want, got, asleep>>
  BY BufAssumption, Zenon DEF Install, ring, Held
<1>2. k \in Blocks /\ valid[b]
  BY <1>1, Zenon DEF BInv, TypeOK, HolderInv, HasBuffer, HasContents
<1>3. \A c \in Bufs \ {b} : blockno[c] # k
  BY <1>2, BufAssumption, Zenon DEF BInv, UniqueInv
<1>4. ASSUME NEW c \in Bufs
      PROVE  /\ refcnt[c] = (IF locked[c] = NoProc THEN 0 ELSE 1)
                  + Cardinality(Waiting(c)) + (IF blockno[c] \in logged THEN 1 ELSE 0)
             /\ Cardinality(Waiting(c)) \in Nat
  BY WaitingCount, Zenon DEF BInv, CountInv
<1>5. refcnt[b] - 1 \in Nat
  BY <1>1, <1>4
<1>6. TypeOK'
  <2> HIDE DEF k
  <2> QED
    BY <1>1, <1>2, <1>5, Zenon DEF BInv, TypeOK
<1>7. HolderInv'
  BY <1>1, Zenon DEF BInv, HolderInv, HasBuffer, HasContents
<1>8. CountInv'
  <2> SUFFICES ASSUME NEW c \in Bufs
               PROVE  refcnt'[c] = (IF locked[c] = NoProc THEN 0 ELSE 1)
                        + Cardinality(Waiting(c)) + (IF blockno[c] \in logged' THEN 1 ELSE 0)
    BY <1>1, Zenon DEF CountInv, Waiting
  <2>1. CASE c = b
    <3>1. refcnt'[c] = refcnt[c] - 1 /\ blockno[c] \notin logged' /\ blockno[c] \in logged
      BY <1>1, <2>1, Zenon DEF BInv, TypeOK
    <3> QED
      BY <1>4, <3>1
  <2>2. CASE c # b
    <3>1. refcnt'[c] = refcnt[c] /\ (blockno[c] \in logged' <=> blockno[c] \in logged)
      BY <1>1, <1>3, <2>2, Zenon DEF BInv, TypeOK
    <3> QED
      BY <1>4, <3>1, Zenon
  <2> QED
    BY <2>1, <2>2, Zenon
<1>9. DataInv'
  <2>1. ASSUME NEW c \in Bufs, valid[c]
        PROVE  /\ blockno[c] \in Blocks
               /\ blockno[c] \notin logged' => data[c] = disk'[blockno[c]]
    <3>1. CASE c = b
      BY <1>1, <1>2, <3>1, Zenon DEF BInv, TypeOK
    <3>2. CASE c # b
      BY <1>1, <1>3, <2>1, <3>2, Zenon DEF BInv, TypeOK, DataInv
    <3> QED
      BY <3>1, <3>2, Zenon
  <2>2. ASSUME NEW j \in logged' PROVE \E c \in Cached(j) : valid[c]
    BY <1>1, <2>2, Zenon DEF BInv, DataInv
  <2> QED
    BY <1>1, <2>1, <2>2, Zenon DEF DataInv, Cached
<1> QED
  BY <1>1, <1>6, <1>7, <1>8, <1>9, Zenon DEF BInv, UniqueInv

(* releasesleep() keeps the invariant: brelse() still has its reference.   *)
LEMMA ReleaseInv ==
  ASSUME Counting, BInv, NEW p \in Procs, NEW b \in Bufs, Release(p, b)
  PROVE  BInv'
<1>1. /\ pc[p] = "run" /\ locked[b] = p /\ locked[b] # NoProc
      /\ locked' = [locked EXCEPT ![b] = NoProc] /\ asleep' = {q \in asleep : got[q] # b}
      /\ got' = [got EXCEPT ![p] = b] /\ Go(p, "unref")
      /\ UNCHANGED <<blockno, valid, refcnt, data, next, prev, disk, logged, want>>
  BY BufAssumption, Zenon DEF Release, ring, bufs, Held
<1>2. b \in 0 .. NBUF
  BY BufAssumption DEF Bufs
<1>3. TypeOK'
  BY <1>1, <1>2, Zenon DEF BInv, TypeOK, Go
<1>4. HolderInv'
  <2>1. ASSUME NEW q \in Procs PROVE HasBuffer(q)'
    <3>1. CASE q = p
      BY <1>1, <3>1, Zenon DEF BInv, TypeOK, HolderInv, HasBuffer, HasContents, Go
    <3>2. CASE q # p
      <4>1. pc[q] = "bread" => got[q] # b
        BY <1>1, <3>2, Zenon DEF BInv, HolderInv, HasBuffer, HasContents
      <4> QED
        BY <1>1, <3>2, <4>1 DEF BInv, TypeOK, HolderInv, HasBuffer, HasContents, Go
    <3> QED
      BY <3>1, <3>2
  <2>2. ASSUME NEW c \in Bufs, locked'[c] # NoProc PROVE HasContents(c)'
    <3>1. c # b /\ locked'[c] = locked[c] /\ locked[c] \in Procs
      BY <1>1, <2>2, Zenon DEF BInv, TypeOK
    <3>2. blockno[c] \in Blocks /\ (valid[c] \/ (pc[locked[c]] = "bread" /\ got[locked[c]] = c))
      BY <2>2, <3>1, Zenon DEF BInv, HolderInv, HasBuffer, HasContents
    <3> QED
      BY <1>1, <3>1, <3>2, Zenon DEF BInv, TypeOK, Go, HasContents
  <2> QED
    BY <2>1, <2>2, Zenon DEF HolderInv, HasContents
<1>5. CountInv'
  <2> SUFFICES ASSUME NEW c \in Bufs
               PROVE  refcnt[c] = (IF locked'[c] = NoProc THEN 0 ELSE 1)
                        + Cardinality(Waiting(c)') + (IF blockno[c] \in logged THEN 1 ELSE 0)
    BY <1>1, Zenon DEF CountInv
  <2>1. Cardinality(Waiting(c)') = Cardinality(Waiting(c)) + (IF c = b THEN 1 ELSE 0)
    BY <1>1, WaitEnter, Zenon DEF BInv
  <2>2. Cardinality(Waiting(c)) \in Nat
    BY WaitingCount
  <2>3. refcnt[c] = (IF locked[c] = NoProc THEN 0 ELSE 1)
                  + Cardinality(Waiting(c)) + (IF blockno[c] \in logged THEN 1 ELSE 0)
    BY DEF BInv, CountInv
  <2>4. CASE c = b
    <3>1. locked[c] # NoProc /\ locked'[c] = NoProc
      BY <1>1, <2>4, Zenon DEF BInv, TypeOK
    <3> QED
      BY <2>1, <2>2, <2>3, <2>4, <3>1
  <2>5. CASE c # b
    <3>1. locked'[c] = locked[c]
      BY <1>1, <2>5, Zenon DEF BInv, TypeOK
    <3> QED
      BY <2>1, <2>2, <2>3, <2>5, <3>1
  <2> QED
    BY <2>4, <2>5, Zenon
<1> QED
  BY <1>1, <1>3, <1>4, <1>5, Zenon DEF BInv, UniqueInv, DataInv, Cached

(* The end of brelse() keeps the invariant, and the list stays among the   *)
(* buffers.                                                                *)
LEMMA UnrefInv ==
  ASSUME Counting, BInv, NEW p \in Procs, Unref(p)
  PROVE  BInv'
<1> DEFINE b == got[p]
           out == Unlink([next |-> next, prev |-> prev], b)
           moved == InsertFront(out, b)
           F == [0 .. NBUF -> 0 .. NBUF]
<1>1. /\ pc[p] = "unref" /\ Go(p, "run") /\ refcnt' = [refcnt EXCEPT ![b] = @ - 1]
      /\ IF refcnt[b] = 1 THEN next' = moved.next /\ prev' = moved.prev
         ELSE next' = next /\ prev' = prev
      /\ want' = [want EXCEPT ![p] = NoBlock] /\ got' = [got EXCEPT ![p] = head]
      /\ UNCHANGED <<blockno, valid, data, locked, disk, logged, asleep>>
  BY Zenon DEF Unref, ring
<1>2. b \in Bufs /\ b \in 0 .. NBUF /\ head \in 0 .. NBUF
  <2>1. b \in Bufs
    BY <1>1, Zenon DEF BInv, HolderInv, HasBuffer
  <2> HIDE DEF b
  <2> QED
    BY ONLY <2>1, BufAssumption DEF Bufs, head
<1>3. moved.next \in F /\ moved.prev \in F
  <2> HIDE DEF b
  <2>1. next \in F /\ prev \in F /\ next[b] \in 0 .. NBUF /\ prev[b] \in 0 .. NBUF
    BY <1>2, Zenon DEF BInv, TypeOK
  <2>2. /\ out.next = [next EXCEPT ![prev[b]] = next[b]]
        /\ out.prev = [prev EXCEPT ![next[b]] = prev[b]]
    BY DEF Unlink
  <2>3. out.next \in F /\ out.prev \in F
    BY <2>1, <2>2, Zenon
  <2> HIDE DEF out
  <2>4. /\ moved.next = [out.next EXCEPT ![b] = out.next[head], ![head] = b]
        /\ moved.prev = [out.prev EXCEPT ![b] = head, ![out.next[head]] = b]
    BY DEF InsertFront
  <2>5. out.next[head] \in 0 .. NBUF
    BY <1>2, <2>3, Zenon
  <2> HIDE DEF moved
  <2>6. moved.next \in F
    BY <1>2, <2>3, <2>4, <2>5, Zenon
  <2>7. moved.prev \in F
    BY <1>2, <2>3, <2>4, <2>5, Zenon
  <2> QED
    BY <2>6, <2>7
<1>4. next' \in F /\ prev' \in F
  <2> HIDE DEF b, moved
  <2> QED
    BY <1>1, <1>3, Zenon DEF BInv, TypeOK
<1> HIDE DEF b, moved
<1>5. ASSUME NEW c \in Bufs
      PROVE  /\ refcnt[c] = (IF locked[c] = NoProc THEN 0 ELSE 1)
                  + Cardinality(Waiting(c)) + (IF blockno[c] \in logged THEN 1 ELSE 0)
             /\ Cardinality(Waiting(c)) \in Nat
  BY WaitingCount, Zenon DEF BInv, CountInv
<1>6. ASSUME NEW c \in Bufs
      PROVE  /\ Cardinality(Waiting(c)') = Cardinality(Waiting(c)) - (IF c = b THEN 1 ELSE 0)
             /\ Cardinality(Waiting(c)') \in Nat
  <2>1. \A q \in Procs \ {p} : got'[q] = got[q]
    BY <1>1, Zenon DEF BInv, TypeOK
  <2>2. Cardinality(Waiting(c)') = Cardinality(Waiting(c)) - (IF c = got[p] THEN 1 ELSE 0)
    BY <1>1, <2>1, WaitLeave, Zenon DEF BInv
  <2>3. Waiting(c)' \in SUBSET Procs
    BY DEF Waiting
  <2>4. Cardinality(Waiting(c)') \in Nat
    BY <2>3 DEF Counting
  <2> QED
    BY <2>2, <2>4 DEF b
<1>7. refcnt[b] - 1 \in Nat
  BY <1>2, <1>5, <1>6
<1>8. TypeOK'
  BY <1>1, <1>2, <1>4, <1>7, Zenon DEF BInv, TypeOK, Go
<1>9. HolderInv'
  <2>1. ASSUME NEW q \in Procs PROVE HasBuffer(q)'
    <3>1. CASE q = p
      BY <1>1, <3>1 DEF BInv, TypeOK, HolderInv, HasBuffer, HasContents, Go
    <3>2. CASE q # p
      BY <1>1, <3>2 DEF BInv, TypeOK, HolderInv, HasBuffer, HasContents, Go
    <3> QED
      BY <3>1, <3>2
  <2>2. ASSUME NEW c \in Bufs, locked'[c] # NoProc PROVE HasContents(c)'
    <3>1. locked[c] \in Procs /\ locked[c] # NoProc
      BY <1>1, <2>2, Zenon DEF BInv, TypeOK
    <3>2. blockno[c] \in Blocks /\ (valid[c] \/ (pc[locked[c]] = "bread" /\ got[locked[c]] = c))
      BY <3>1, Zenon DEF BInv, HolderInv, HasBuffer, HasContents
    <3> QED
      BY <1>1, <3>1, <3>2, Zenon DEF BInv, TypeOK, Go, HasContents
  <2> QED
    BY <2>1, <2>2, Zenon DEF HolderInv, HasContents
<1>10. CountInv'
  <2> SUFFICES ASSUME NEW c \in Bufs
               PROVE  refcnt'[c] = (IF locked[c] = NoProc THEN 0 ELSE 1)
                        + Cardinality(Waiting(c)') + (IF blockno[c] \in logged THEN 1 ELSE 0)
    BY <1>1, Zenon DEF CountInv
  <2>1. refcnt'[c] = refcnt[c] - (IF c = b THEN 1 ELSE 0)
    BY <1>1, <1>2 DEF BInv, TypeOK
  <2> QED
    BY <1>5, <1>6, <2>1
<1> QED
  BY <1>1, <1>8, <1>9, <1>10, Zenon DEF BInv, UniqueInv, DataInv, Cached

(* The order of the list when the i-th buffer from its end has moved to    *)
(* its front.                                                              *)
Shift(f, i) ==
  [n \in 0 .. NBUF |-> IF n < i THEN f[n] ELSE IF n = NBUF THEN f[i] ELSE f[n + 1]]

(* The pointers nx2 and pv2 after the i-th buffer has moved to the front.  *)
Moves(f, i, nx, pv, nx2, pv2) ==
  /\ nx2[f[i]] = f[NBUF] /\ nx2[f[0]] = f[i] /\ nx2[f[i + 1]] = f[i - 1]
  /\ pv2[f[i]] = f[0] /\ pv2[f[NBUF]] = f[i] /\ pv2[f[i - 1]] = f[i + 1]
  /\ \A n \in 0 .. NBUF : n # 0 /\ n # i /\ n # i + 1 => nx2[f[n]] = nx[f[n]]
  /\ \A n \in 0 .. NBUF : n # i - 1 /\ n # i /\ n # NBUF => pv2[f[n]] = pv[f[n]]

(* A buffer that moves to the front of the list does not change the order  *)
(* of the others, and no buffer gets lost.                                 *)
LEMMA ShiftOrder ==
  ASSUME NEW f \in [0 .. NBUF -> 0 .. NBUF], NEW nx, NEW pv, Order(f, nx, pv),
         NEW i \in 1 .. NBUF, i # NBUF, NEW nx2, NEW pv2,
         Moves(f, i, nx, pv, nx2, pv2)
  PROVE  Shift(f, i) \in [0 .. NBUF -> 0 .. NBUF] /\ Order(Shift(f, i), nx2, pv2)
<1> DEFINE g == Shift(f, i)
<1>0. NBUF \in Nat /\ NBUF >= 1 /\ i \in Nat /\ i >= 1 /\ i < NBUF
  BY BufAssumption
<1>m. /\ nx2[f[i]] = f[NBUF] /\ nx2[f[0]] = f[i] /\ nx2[f[i + 1]] = f[i - 1]
      /\ pv2[f[i]] = f[0] /\ pv2[f[NBUF]] = f[i] /\ pv2[f[i - 1]] = f[i + 1]
  BY Zenon DEF Moves
<1>k. /\ \A n \in 0 .. NBUF : n # 0 /\ n # i /\ n # i + 1 => nx2[f[n]] = nx[f[n]]
      /\ \A n \in 0 .. NBUF : n # i - 1 /\ n # i /\ n # NBUF => pv2[f[n]] = pv[f[n]]
  BY Zenon DEF Moves
<1>1. g \in [0 .. NBUF -> 0 .. NBUF]
  <2> DEFINE e(n) == IF n < i THEN f[n] ELSE IF n = NBUF THEN f[i] ELSE f[n + 1]
  <2>1. ASSUME NEW n \in 0 .. NBUF PROVE e(n) \in 0 .. NBUF
    <3>1. i \in 0 .. NBUF /\ (n # NBUF => n + 1 \in 0 .. NBUF)
      BY ONLY <1>0, n \in 0 .. NBUF
    <3> QED
      BY <3>1, Zenon
  <2>2. g = [n \in 0 .. NBUF |-> e(n)]
    BY DEF Shift
  <2> HIDE DEF e
  <2> QED
    BY ONLY <2>1, <2>2, Zenon
<1>2. /\ \A n \in 0 .. NBUF : n < i => g[n] = f[n]
      /\ \A n \in 0 .. NBUF : ~(n < i) /\ n # NBUF => g[n] = f[n + 1]
      /\ g[NBUF] = f[i]
  BY <1>0 DEF Shift
<1>3. f[0] = head
  BY Zenon DEF Order
<1>inj. \A m, n \in 0 .. NBUF : f[m] = f[n] => m = n
  BY Zenon DEF Order
<1>sur. \A c \in 0 .. NBUF : \E n \in 0 .. NBUF : f[n] = c
  BY Zenon DEF Order
<1>4. \A n \in 1 .. NBUF : pv[f[n - 1]] = f[n] /\ nx[f[n]] = f[n - 1]
  BY Zenon DEF Order
<1> HIDE DEF g
<1>5. g[0] = head
  <2>1. 0 \in 0 .. NBUF /\ 0 < i
    BY ONLY <1>0
  <2> QED
    BY ONLY <1>2, <1>3, <2>1, Zenon
<1> DEFINE src(n) == IF n < i THEN n ELSE IF n = NBUF THEN i ELSE n + 1
<1>6. ASSUME NEW n \in 0 .. NBUF PROVE src(n) \in 0 .. NBUF /\ g[n] = f[src(n)]
  <2>1. src(n) \in 0 .. NBUF
    BY ONLY <1>0, n \in 0 .. NBUF
  <2>2. g[n] = f[src(n)]
    BY ONLY <1>2, n \in 0 .. NBUF, Zenon
  <2> QED
    BY <2>1, <2>2, Zenon
<1>7. ASSUME NEW m \in 0 .. NBUF, NEW n \in 0 .. NBUF, src(m) = src(n) PROVE m = n
  BY ONLY <1>0, <1>7, m \in 0 .. NBUF, n \in 0 .. NBUF
<1>8. ASSUME NEW c \in 0 .. NBUF PROVE \E n \in 0 .. NBUF : src(n) = c
  <2>1. CASE c < i
    BY ONLY <1>0, <2>1, c \in 0 .. NBUF, Zenon
  <2>2. CASE c = i
    <3>1. NBUF \in 0 .. NBUF /\ src(NBUF) = c
      BY ONLY <1>0, <2>2
    <3> QED
      BY <3>1
  <2>3. CASE c > i
    <3>1. c - 1 \in 0 .. NBUF /\ src(c - 1) = c
      BY ONLY <1>0, <2>3, c \in 0 .. NBUF
    <3> QED
      BY <3>1
  <2> QED
    BY ONLY <1>0, <2>1, <2>2, <2>3, c \in 0 .. NBUF
<1> HIDE DEF src
<1>9. \A m, n \in 0 .. NBUF : g[m] = g[n] => m = n
  BY ONLY <1>inj, <1>6, <1>7, Zenon
<1>10. ASSUME NEW c \in 0 .. NBUF PROVE \E n \in 0 .. NBUF : g[n] = c
  <2>1. PICK j \in 0 .. NBUF : f[j] = c
    BY <1>sur, Zenon
  <2>2. PICK n \in 0 .. NBUF : src(n) = j
    BY <1>8, Zenon
  <2> QED
    BY <1>6, <2>1, <2>2, Zenon
<1>11. ASSUME NEW n \in 1 .. NBUF
       PROVE  pv2[g[n - 1]] = g[n] /\ nx2[g[n]] = g[n - 1]
  <2>0. n \in 0 .. NBUF /\ n - 1 \in 0 .. NBUF
    BY ONLY <1>0, n \in 1 .. NBUF
  <2>1. CASE n < i
    <3>1. n - 1 < i /\ n - 1 # i - 1 /\ n - 1 # i /\ n - 1 # NBUF /\ n # 0 /\ n # i /\ n # i + 1
      BY ONLY <1>0, <2>1, n \in 1 .. NBUF
    <3>2. g[n] = f[n] /\ g[n - 1] = f[n - 1]
      BY ONLY <1>2, <2>0, <2>1, <3>1, Zenon
    <3> QED
      BY <1>k, <1>4, <2>0, <3>1, <3>2, Zenon
  <2>2. CASE n = i
    <3>1. n - 1 < i /\ ~(n < i) /\ n # NBUF
      BY ONLY <1>0, <2>2
    <3>2. g[n] = f[i + 1] /\ g[n - 1] = f[i - 1]
      BY ONLY <1>2, <2>0, <2>2, <3>1, Zenon
    <3> QED
      BY <1>m, <3>2, Zenon
  <2>3. CASE n > i /\ n # NBUF
    <3>1. /\ n + 1 \in 1 .. NBUF /\ n + 1 \in 0 .. NBUF /\ (n + 1) - 1 = n /\ (n - 1) + 1 = n
          /\ ~(n < i) /\ ~(n - 1 < i) /\ n - 1 # NBUF
          /\ n # i - 1 /\ n # i /\ n + 1 # 0 /\ n + 1 # i /\ n + 1 # i + 1
      BY ONLY <1>0, <2>3, n \in 1 .. NBUF
    <3>2. g[n] = f[n + 1] /\ g[n - 1] = f[n]
      BY ONLY <1>2, <2>0, <2>3, <3>1, Zenon
    <3>3. pv[f[n]] = f[n + 1] /\ nx[f[n + 1]] = f[n]
      BY ONLY <1>4, <3>1, Zenon
    <3> QED
      BY <1>k, <2>0, <2>3, <3>1, <3>2, <3>3, Zenon
  <2>4. CASE n = NBUF
    <3>1. ~(n - 1 < i) /\ n - 1 # NBUF /\ (n - 1) + 1 = n
      BY ONLY <1>0, <2>4
    <3>2. g[n] = f[i] /\ g[n - 1] = f[NBUF]
      BY ONLY <1>2, <2>0, <2>4, <3>1, Zenon
    <3> QED
      BY <1>m, <3>2, Zenon
  <2> QED
    BY ONLY <1>0, <2>1, <2>2, <2>3, <2>4, n \in 1 .. NBUF
<1>12. pv2[g[NBUF]] = head /\ nx2[head] = g[NBUF]
  BY <1>m, <1>2, <1>3, Zenon
<1> QED
  BY <1>1, <1>5, <1>9, <1>10, <1>11, <1>12, Zenon DEF Order, g

(* brelse() takes buffer b out of the list and puts it in front: the list  *)
(* still goes through all buffers.                                         *)
LEMMA MovedFront ==
  ASSUME NEW nx \in [0 .. NBUF -> 0 .. NBUF], NEW pv \in [0 .. NBUF -> 0 .. NBUF],
         NEW f \in [0 .. NBUF -> 0 .. NBUF], Order(f, nx, pv), NEW b \in Bufs,
         NEW u, u = Unlink([next |-> nx, prev |-> pv], b),
         NEW v, v = InsertFront(u, b)
  PROVE  \E g \in [0 .. NBUF -> 0 .. NBUF] : Order(g, v.next, v.prev)
<1> DEFINE nb == nx[b]
           pb == pv[b]
           o == u.next[head]
<1>0. NBUF \in Nat /\ NBUF >= 1 /\ b \in 0 .. NBUF /\ b # 0 /\ head = 0 /\ head \in 0 .. NBUF
  BY BufAssumption DEF Bufs, head
<1>1. PICK i \in 0 .. NBUF : f[i] = b
  BY <1>0, Zenon DEF Order
<1>2. f[0] = head /\ i # 0
  BY <1>0, <1>1, Zenon DEF Order
<1>3. i \in 1 .. NBUF /\ i - 1 \in 0 .. NBUF /\ i - 1 # i /\ 0 \in 0 .. NBUF /\ NBUF \in 0 .. NBUF
  BY ONLY <1>0, <1>2, i \in 0 .. NBUF
<1>4. \A m, n \in 0 .. NBUF : f[m] = f[n] => m = n
  BY Zenon DEF Order
<1>5. nb = f[i - 1] /\ pv[f[i - 1]] = b /\ nb \in 0 .. NBUF /\ pb \in 0 .. NBUF
  BY <1>0, <1>1, <1>3, Zenon DEF Order
<1>6. u.next = [nx EXCEPT ![pb] = nb] /\ u.prev = [pv EXCEPT ![nb] = pb]
  BY Zenon DEF Unlink
<1>7. /\ v.next = [u.next EXCEPT ![b] = o, ![head] = b]
      /\ v.prev = [u.prev EXCEPT ![b] = head, ![o] = b]
  BY Zenon DEF InsertFront
<1>8. nx[head] = f[NBUF] /\ pv[f[NBUF]] = head
  BY Zenon DEF Order
<1> HIDE DEF o, nb, pb
<1>9. /\ \A x \in 0 .. NBUF : u.next[x] = IF x = pb THEN nb ELSE nx[x]
      /\ \A x \in 0 .. NBUF : u.prev[x] = IF x = nb THEN pb ELSE pv[x]
      /\ u.next \in [0 .. NBUF -> 0 .. NBUF] /\ u.prev \in [0 .. NBUF -> 0 .. NBUF]
  <2>1. /\ [nx EXCEPT ![pb] = nb] \in [0 .. NBUF -> 0 .. NBUF]
        /\ \A x \in 0 .. NBUF : [nx EXCEPT ![pb] = nb][x] = IF x = pb THEN nb ELSE nx[x]
    BY <1>5, OnePointer, Zenon
  <2>2. /\ [pv EXCEPT ![nb] = pb] \in [0 .. NBUF -> 0 .. NBUF]
        /\ \A x \in 0 .. NBUF : [pv EXCEPT ![nb] = pb][x] = IF x = nb THEN pb ELSE pv[x]
    BY <1>5, OnePointer, Zenon
  <2> QED
    BY <1>6, <2>1, <2>2, Zenon
<1>10. o = (IF head = pb THEN nb ELSE nx[head]) /\ o \in 0 .. NBUF
  BY <1>0, <1>9, Zenon DEF o
<1>11. /\ \A x \in 0 .. NBUF : v.next[x] = IF x = head THEN b ELSE IF x = b THEN o ELSE u.next[x]
       /\ \A x \in 0 .. NBUF : v.prev[x] = IF x = o THEN b ELSE IF x = b THEN head ELSE u.prev[x]
       /\ v.next \in [0 .. NBUF -> 0 .. NBUF] /\ v.prev \in [0 .. NBUF -> 0 .. NBUF]
  <2> DEFINE w == u.next
             z == u.prev
  <2>1. w \in [0 .. NBUF -> 0 .. NBUF] /\ z \in [0 .. NBUF -> 0 .. NBUF]
    BY <1>9, Zenon
  <2> HIDE DEF w, z
  <2>2. /\ [w EXCEPT ![b] = o, ![head] = b] \in [0 .. NBUF -> 0 .. NBUF]
        /\ \A x \in 0 .. NBUF : [w EXCEPT ![b] = o, ![head] = b][x]
                               = IF x = head THEN b ELSE IF x = b THEN o ELSE w[x]
    BY <1>0, <1>10, <2>1, TwoPointers, Zenon
  <2>3. /\ [z EXCEPT ![b] = head, ![o] = b] \in [0 .. NBUF -> 0 .. NBUF]
        /\ \A x \in 0 .. NBUF : [z EXCEPT ![b] = head, ![o] = b][x]
                               = IF x = o THEN b ELSE IF x = b THEN head ELSE z[x]
    BY <1>0, <1>10, <2>1, TwoPointers, Zenon
  <2>4. /\ v.next = [w EXCEPT ![b] = o, ![head] = b]
        /\ v.prev = [z EXCEPT ![b] = head, ![o] = b]
    BY <1>7, Zenon DEF w, z
  <2>5. /\ \A x \in 0 .. NBUF : v.next[x] = IF x = head THEN b ELSE IF x = b THEN o ELSE w[x]
        /\ v.next \in [0 .. NBUF -> 0 .. NBUF]
    BY ONLY <2>2, <2>4, Zenon
  <2>6. /\ \A x \in 0 .. NBUF : v.prev[x] = IF x = o THEN b ELSE IF x = b THEN head ELSE z[x]
        /\ v.prev \in [0 .. NBUF -> 0 .. NBUF]
    BY ONLY <2>3, <2>4, Zenon
  <2> QED
    BY ONLY <2>5, <2>6, Zenon DEF w, z
<1>12. CASE i = NBUF
  <2>1. pb = head /\ o = nb /\ nx[head] = b /\ nx[b] = nb /\ pv[b] = head
    BY <1>1, <1>8, <1>10, <1>12, Zenon DEF pb, nb
  <2>2. nb # b
    BY <1>1, <1>3, <1>4, <1>5, Zenon
  <2>3. \A x \in 0 .. NBUF : v.next[x] = nx[x]
    <3> SUFFICES ASSUME NEW x \in 0 .. NBUF PROVE v.next[x] = nx[x]
      BY Zenon
    <3>1. v.next[x] = IF x = head THEN b ELSE IF x = b THEN o ELSE u.next[x]
      BY <1>11, Zenon
    <3>2. u.next[x] = IF x = pb THEN nb ELSE nx[x]
      BY <1>9, Zenon
    <3> QED
      BY ONLY <2>1, <3>1, <3>2, Zenon
  <2>4. \A x \in 0 .. NBUF : v.prev[x] = pv[x]
    BY <1>0, <1>5, <1>9, <1>11, <2>1, <2>2, Zenon
  <2>5. v.next = nx /\ v.prev = pv
    <3> DEFINE S == 0 .. NBUF
               w == v.next
               z == v.prev
    <3>1. w \in [S -> S] /\ z \in [S -> S] /\ nx \in [S -> S] /\ pv \in [S -> S]
      BY <1>11, Zenon
    <3>2. (\A x \in S : w[x] = nx[x]) /\ (\A x \in S : z[x] = pv[x])
      BY <2>3, <2>4, Zenon
    <3> HIDE DEF w, z, S
    <3>3. /\ w = [x \in S |-> w[x]] /\ nx = [x \in S |-> nx[x]]
          /\ z = [x \in S |-> z[x]] /\ pv = [x \in S |-> pv[x]]
      BY ONLY <3>1, Zenon
    <3>4. w = nx /\ z = pv
      BY ONLY <3>2, <3>3, Zenon
    <3> QED
      BY <3>4, Zenon DEF w, z
  <2> QED
    BY <2>5, Zenon
<1>13. CASE i # NBUF
  <2>1. i + 1 \in 1 .. NBUF /\ i + 1 \in 0 .. NBUF /\ (i + 1) - 1 = i /\ i + 1 # 0 /\ i + 1 # i - 1
    BY ONLY <1>0, <1>3, <1>13, i \in 0 .. NBUF
  <2>2. pb = f[i + 1]
    BY <1>1, <2>1, Zenon DEF pb, Order
  <2>3. i - 1 # NBUF /\ i + 1 # i
    BY ONLY <1>0, <1>3, i \in 0 .. NBUF
  <2>4. pb # head
    BY <1>2, <1>3, <1>4, <2>1, <2>2, Zenon
  <2>5. o = f[NBUF]
    BY <1>8, <1>10, <2>4, Zenon
  <2>6. ASSUME NEW n \in 0 .. NBUF
        PROVE  /\ n = 0 <=> f[n] = head
               /\ n = i <=> f[n] = b
               /\ n = i - 1 <=> f[n] = nb
               /\ n = i + 1 <=> f[n] = pb
               /\ n = NBUF <=> f[n] = o
    BY <1>1, <1>2, <1>3, <1>4, <1>5, <2>1, <2>2, <2>5, Zenon
  <2>7. ASSUME NEW n \in 0 .. NBUF
        PROVE  /\ f[n] \in 0 .. NBUF
               /\ v.next[f[n]] = IF n = 0 THEN b ELSE IF n = i THEN o
                                 ELSE IF n = i + 1 THEN nb ELSE nx[f[n]]
               /\ v.prev[f[n]] = IF n = NBUF THEN b ELSE IF n = i THEN head
                                 ELSE IF n = i - 1 THEN pb ELSE pv[f[n]]
    <3>1. f[n] \in 0 .. NBUF
      OBVIOUS
    <3> QED
      <4>1. v.next[f[n]] = IF f[n] = head THEN b ELSE IF f[n] = b THEN o ELSE u.next[f[n]]
        BY <1>11, <3>1, Zenon
      <4>2. v.prev[f[n]] = IF f[n] = o THEN b ELSE IF f[n] = b THEN head ELSE u.prev[f[n]]
        BY <1>11, <3>1, Zenon
      <4>3. /\ u.next[f[n]] = IF f[n] = pb THEN nb ELSE nx[f[n]]
            /\ u.prev[f[n]] = IF f[n] = nb THEN pb ELSE pv[f[n]]
        BY <1>9, <3>1, Zenon
      <4>4. /\ n = 0 <=> f[n] = head
            /\ n = i <=> f[n] = b
            /\ n = i - 1 <=> f[n] = nb
            /\ n = i + 1 <=> f[n] = pb
            /\ n = NBUF <=> f[n] = o
        BY <2>6, Zenon
      <4>5. v.next[f[n]] = IF n = 0 THEN b ELSE IF n = i THEN o
                           ELSE IF n = i + 1 THEN nb ELSE nx[f[n]]
        BY ONLY <4>1, <4>3, <4>4, Zenon
      <4>6. v.prev[f[n]] = IF n = NBUF THEN b ELSE IF n = i THEN head
                           ELSE IF n = i - 1 THEN pb ELSE pv[f[n]]
        BY ONLY <4>2, <4>3, <4>4, Zenon
      <4> QED
        BY <3>1, <4>5, <4>6, Zenon
  <2>8. /\ v.next[f[i]] = f[NBUF] /\ v.next[f[0]] = f[i] /\ v.next[f[i + 1]] = f[i - 1]
        /\ v.prev[f[i]] = f[0] /\ v.prev[f[NBUF]] = f[i] /\ v.prev[f[i - 1]] = f[i + 1]
    BY <1>1, <1>2, <1>3, <1>5, <1>13, <2>1, <2>2, <2>3, <2>5, <2>7, Zenon
  <2>9. /\ \A n \in 0 .. NBUF : n # 0 /\ n # i /\ n # i + 1 => v.next[f[n]] = nx[f[n]]
        /\ \A n \in 0 .. NBUF : n # i - 1 /\ n # i /\ n # NBUF => v.prev[f[n]] = pv[f[n]]
    BY <2>7, Zenon
  <2>10. Shift(f, i) \in [0 .. NBUF -> 0 .. NBUF] /\ Order(Shift(f, i), v.next, v.prev)
    <3>1. Moves(f, i, nx, pv, v.next, v.prev)
      BY <2>8, <2>9, Zenon DEF Moves
    <3> QED
      BY <1>3, <1>13, <3>1, ShiftOrder, Zenon
  <2> QED
    BY <2>10, Zenon
<1> QED
  BY <1>12, <1>13, Zenon

(* Every step of the cache keeps the invariant.                            *)
LEMMA StepInv ==
  ASSUME Counting, BInv, [Next]_vars
  PROVE  BInv'
<1>1. CASE UNCHANGED vars
  <2>1. UNCHANGED <<blockno, valid, refcnt, data, next, prev, locked, disk, logged, pc, want, got, asleep>>
    BY <1>1 DEF vars, bufs, ring
  <2> QED
    BY <2>1 DEF BInv, TypeOK, HolderInv, HasBuffer, HasContents, UniqueInv, CountInv, Waiting, DataInv, Cached
<1>2. CASE Next
  <2>1. PICK p \in Procs :
          \/ AcquireSleep(p) \/ AcquireSleepWaits(p) \/ Kick(p) \/ Bread(p) \/ Unref(p)
          \/ \E k \in Blocks : Hit(p, k) \/ Recycle(p, k) \/ NoBuffers(p, k)
          \/ \E b \in Bufs : \/ Install(p, b) \/ Release(p, b)
                             \/ \E v \in Val : Modify(p, b, v)
    BY <1>2, Zenon DEF Next
  <2> QED
    BY <2>1, AcquireSleepInv, SleeperInv, BreadInv, UnrefInv, HitInv, RecycleInv,
       NoBuffersInv, InstallInv, ReleaseInv, ModifyInv, Zenon
<1> QED
  BY <1>1, <1>2

(* After binit() the list goes through all buffers.                        *)
LEMMA ListInit ==
  ASSUME Counting, Init
  PROVE  ListInv
<1> DEFINE f == [n \in 0 .. NBUF |-> n]
<1>0. NBUF \in Nat /\ NBUF >= 1 /\ head = 0
  BY BufAssumption DEF head
<1>1. \A m \in 0 .. NBUF : /\ prev[m] = IF m = NBUF THEN 0 ELSE m + 1
                          /\ next[m] = IF m = 0 THEN NBUF ELSE m - 1
  BY RingLinked, <1>0, Zenon DEF Init, Linked
<1>2. f \in [0 .. NBUF -> 0 .. NBUF] /\ \A n \in 0 .. NBUF : f[n] = n
  BY Zenon
<1> HIDE DEF f
<1>3. 0 \in 0 .. NBUF /\ NBUF \in 0 .. NBUF /\ NBUF # 0
  BY ONLY <1>0
<1>4. ASSUME NEW n \in 1 .. NBUF
      PROVE  prev[f[n - 1]] = f[n] /\ next[f[n]] = f[n - 1]
  <2>1. n \in 0 .. NBUF /\ n - 1 \in 0 .. NBUF /\ n # 0 /\ n - 1 # NBUF /\ (n - 1) + 1 = n
    BY ONLY <1>0, n \in 1 .. NBUF
  <2> QED
    BY <1>1, <1>2, <2>1, Zenon
<1>5. prev[f[NBUF]] = head /\ next[head] = f[NBUF] /\ f[0] = head
  BY <1>0, <1>1, <1>2, <1>3, Zenon
<1>6. Order(f, next, prev)
  BY <1>2, <1>4, <1>5, Zenon DEF Order
<1> QED
  BY <1>2, <1>6, Zenon DEF ListInv

(* Only brelse() changes the list, and moves a buffer in it.               *)
LEMMA ListStep ==
  ASSUME BInv, ListInv, [Next]_vars
  PROVE  ListInv'
<1>1. CASE next' = next /\ prev' = prev
  BY <1>1, Zenon DEF ListInv
<1>2. ASSUME NEW p \in Procs, Unref(p) PROVE ListInv'
  <2> DEFINE b == got[p]
             u == Unlink([next |-> next, prev |-> prev], b)
             v == InsertFront(u, b)
  <2>1. pc[p] = "unref" /\ ((next' = v.next /\ prev' = v.prev) \/ (next' = next /\ prev' = prev))
    BY <1>2, Zenon DEF Unref, ring
  <2>2. b \in Bufs
    BY <2>1, Zenon DEF BInv, HolderInv, HasBuffer
  <2>3. next \in [0 .. NBUF -> 0 .. NBUF] /\ prev \in [0 .. NBUF -> 0 .. NBUF]
    BY Zenon DEF BInv, TypeOK
  <2>4. PICK f \in [0 .. NBUF -> 0 .. NBUF] : Order(f, next, prev)
    BY Zenon DEF ListInv
  <2>5. \E g \in [0 .. NBUF -> 0 .. NBUF] : Order(g, v.next, v.prev)
    <3> HIDE DEF b
    <3> QED
      BY <2>2, <2>3, <2>4, MovedFront, Zenon
  <2> HIDE DEF v
  <2> QED
    BY <1>1, <2>1, <2>5, Zenon DEF ListInv
<1>3. CASE UNCHANGED vars
  BY <1>1, <1>3, Zenon DEF vars, ring
<1>4. CASE Next
  <2>1. PICK p \in Procs :
          \/ AcquireSleep(p) \/ AcquireSleepWaits(p) \/ Kick(p) \/ Bread(p) \/ Unref(p)
          \/ \E k \in Blocks : Hit(p, k) \/ Recycle(p, k) \/ NoBuffers(p, k)
          \/ \E b \in Bufs : \/ Install(p, b) \/ Release(p, b)
                             \/ \E v \in Val : Modify(p, b, v)
    BY <1>4, Zenon DEF Next
  <2>2. CASE ~Unref(p)
    <3>1. ring' = ring
      BY <2>1, <2>2, Zenon DEF AcquireSleep, AcquireSleepWaits, Kick, Bread, Hit, Recycle,
         NoBuffers, Install, Release, Modify
    <3> QED
      BY <1>1, <3>1, Zenon DEF ring
  <2> QED
    BY <1>2, <2>2, Zenon
<1> QED
  BY <1>3, <1>4, Zenon

(* A list with an order misses no buffer and links both ways.              *)
LEMMA ListWhole ==
  ASSUME Counting, BInv, ListInv
  PROVE  /\ \A b \in 0 .. NBUF : prev[next[b]] = b
         /\ {Back[n] : n \in 1 .. NBUF} = Bufs
<1>0. NBUF \in Nat /\ NBUF >= 1 /\ head = 0
  BY BufAssumption DEF head
<1>1. PICK f \in [0 .. NBUF -> 0 .. NBUF] : Order(f, next, prev)
  BY Zenon DEF ListInv
<1>2. \A n \in 0 .. NBUF : Back[n] = f[n]
  BY <1>1, BackOrder, Zenon DEF BInv
<1>3. f[0] = 0 /\ \A m, n \in 0 .. NBUF : f[m] = f[n] => m = n
  BY <1>0, <1>1, Zenon DEF Order
<1>4. \A c \in 0 .. NBUF : \E n \in 0 .. NBUF : f[n] = c
  BY <1>1, Zenon DEF Order
<1>5. \A n \in 0 .. NBUF : n = 0 \/ n \in 1 .. NBUF
  BY ONLY <1>0
<1>6. \A n \in 1 .. NBUF : n \in 0 .. NBUF /\ n # 0 /\ 0 \in 0 .. NBUF
  BY ONLY <1>0
<1>7. ASSUME NEW b \in 0 .. NBUF PROVE prev[next[b]] = b
  <2>1. PICK n \in 0 .. NBUF : f[n] = b
    BY <1>4, Zenon
  <2>2. CASE n = 0
    BY <1>0, <1>1, <1>3, <2>1, <2>2, Zenon DEF Order
  <2>3. CASE n \in 1 .. NBUF
    BY <1>1, <2>1, <2>3, Zenon DEF Order
  <2> QED
    BY <1>5, <2>2, <2>3, Zenon
<1>8. ASSUME NEW n \in 1 .. NBUF PROVE Back[n] \in Bufs
  <2>1. Back[n] = f[n] /\ f[n] \in 0 .. NBUF /\ f[n] # 0
    BY <1>1, <1>2, <1>3, <1>6, Zenon
  <2> QED
    BY <1>5, <2>1, Zenon DEF Bufs
<1>9. ASSUME NEW b \in Bufs PROVE \E n \in 1 .. NBUF : Back[n] = b
  <2>1. b \in 0 .. NBUF /\ b # 0
    BY <1>6, Zenon DEF Bufs
  <2>2. PICK n \in 0 .. NBUF : f[n] = b
    BY <1>4, <2>1, Zenon
  <2> QED
    BY <1>2, <1>3, <1>5, <2>1, <2>2, Zenon
<1> QED
  BY <1>7, <1>8, <1>9

(* When bget() finds no buffer to recycle, each is locked, or a process is *)
(* on the way to it or out of it, or the log has pinned it.                *)
LEMMA NoneIdle ==
  ASSUME Counting, BInv, ListInv, Unreferenced = {}, NEW b \in Bufs
  PROVE  locked[b] # NoProc \/ Waiting(b) # {} \/ blockno[b] \in logged
<1>1. PICK n \in 1 .. NBUF : Back[n] = b
  BY ListWhole, Zenon
<1>2. b # head
  BY BufAssumption DEF Bufs, head
<1>3. refcnt[b] # 0
  BY <1>1, <1>2, Zenon DEF Unreferenced
<1>4. Cardinality(Waiting(b)) \in Nat /\ (Cardinality(Waiting(b)) = 0 <=> Waiting(b) = {})
  BY WaitingCount, Zenon
<1>5. refcnt[b] = (IF locked[b] = NoProc THEN 0 ELSE 1) + Cardinality(Waiting(b))
                + (IF blockno[b] \in logged THEN 1 ELSE 0)
  BY Zenon DEF BInv, CountInv
<1> QED
  BY ONLY <1>3, <1>4, <1>5

(* Only bget() that finds no buffer panics.                                *)
LEMMA PanicStep ==
  ASSUME BInv, [Next]_vars, NEW q \in Procs, pc'[q] = "panic", pc[q] # "panic"
  PROVE  Unreferenced = {}
<1>1. pc \in [Procs -> {"run", "lock", "bread", "unref", "panic"}]
  BY Zenon DEF BInv, TypeOK
<1>2. pc' # pc
  BY Zenon
<1>3. Next
  BY <1>2, Zenon DEF vars
<1>4. ASSUME NEW p \in Procs, NEW l, Go(p, l), l # "panic" PROVE FALSE
  BY <1>1, <1>4, Zenon DEF Go
<1>5. PICK p \in Procs :
          \/ AcquireSleep(p) \/ AcquireSleepWaits(p) \/ Kick(p) \/ Bread(p) \/ Unref(p)
          \/ \E k \in Blocks : Hit(p, k) \/ Recycle(p, k) \/ NoBuffers(p, k)
          \/ \E b \in Bufs : \/ Install(p, b) \/ Release(p, b)
                             \/ \E v \in Val : Modify(p, b, v)
  BY <1>3, Zenon DEF Next
<1>6. \E k \in Blocks : NoBuffers(p, k)
  BY <1>2, <1>4, <1>5, Zenon DEF AcquireSleep, AcquireSleepWaits, Kick, Bread, Unref, Hit, Recycle,
         Install, Release, Modify
<1> QED
  BY <1>6, Zenon DEF NoBuffers

(* The invariant counts the references of every buffer.                    *)
LEMMA RefsCounted ==
  ASSUME Counting, BInv
  PROVE  RefCounts
<1>1. ASSUME NEW b \in Bufs
      PROVE  Cardinality({p \in Procs : locked[b] = p}) = IF locked[b] = NoProc THEN 0 ELSE 1
  <2>1. CASE locked[b] = NoProc
    <3>1. {p \in Procs : locked[b] = p} = {}
      BY <2>1, BufAssumption
    <3> QED
      BY <2>1, <3>1, Zenon DEF Counting
  <2>2. CASE locked[b] # NoProc
    <3>1. {p \in Procs : locked[b] = p} = {locked[b]}
      BY <2>2, Zenon DEF BInv, TypeOK
    <3>2. {} \in SUBSET Procs /\ locked[b] \in Procs \ {} /\ {} \cup {locked[b]} = {locked[b]}
      BY <2>2, Zenon DEF BInv, TypeOK
    <3>3. Cardinality({}) = 0 /\ Cardinality({locked[b]}) = Cardinality({}) + 1
      BY <3>2, Zenon DEF Counting
    <3> QED
      BY <2>2, <3>1, <3>3
  <2> QED
    BY <2>1, <2>2
<1> QED
  BY <1>1 DEF BInv, CountInv, HolderInv, HasBuffer, HasContents, Waiting, RefCounts

(* A block has at most one buffer, so the choices in Current and Owner are *)
(* none.                                                                   *)
LEMMA ViewHolds == BInv => View
<1> SUFFICES ASSUME BInv, NEW k \in Blocks
             PROVE  /\ \A b \in Bufs : (blockno[b] = k /\ valid[b]) => Current(k) = data[b]
                    /\ (\A b \in Bufs : ~(blockno[b] = k /\ valid[b])) => Current(k) = disk[k]
                    /\ \A b \in Bufs : (blockno[b] = k /\ locked[b] # NoProc) => Owner(k) = locked[b]
                    /\ (\A b \in Bufs : ~(blockno[b] = k /\ locked[b] # NoProc)) => Owner(k) = NoProc
  BY Zenon DEF View
<1>1. \A b, c \in Cached(k) : b = c
  BY BufAssumption DEF BInv, UniqueInv, Cached
<1>2. ASSUME NEW b \in Bufs, blockno[b] = k, valid[b] PROVE Current(k) = data[b]
  <2>1. b \in Cached(k)
    BY <1>2 DEF Cached
  <2>2. (CHOOSE c \in Cached(k) : valid[c]) = b
    BY <1>1, <1>2, <2>1
  <2> QED
    BY <1>2, <2>1, <2>2, Zenon DEF Current
<1>3. ASSUME NEW b \in Bufs, blockno[b] = k, locked[b] # NoProc PROVE Owner(k) = locked[b]
  <2>1. b \in Cached(k)
    BY <1>3 DEF Cached
  <2>2. (CHOOSE c \in Cached(k) : locked[c] # NoProc) = b
    BY <1>1, <1>3, <2>1
  <2> QED
    BY <1>3, <2>1, <2>2, Zenon DEF Owner
<1> QED
  BY <1>2, <1>3, Zenon DEF Current, Owner, Cached

(* A step that leaves the buffer of a block and the block on disk alone    *)
(* leaves its current value alone.                                         *)
LEMMA SameContents ==
  ASSUME View, View', NEW j \in Blocks, UNCHANGED blockno, disk'[j] = disk[j],
         \A c \in Bufs : blockno[c] = j => valid'[c] = valid[c] /\ data'[c] = data[c]
  PROVE  Current(j)' = Current(j)
<1>1. CASE \E c \in Bufs : blockno[c] = j /\ valid[c]
  <2>1. PICK c \in Bufs : blockno[c] = j /\ valid[c]
    BY <1>1, Zenon
  <2>2. Current(j) = data[c]
    BY <2>1, Zenon DEF View
  <2>3. blockno'[c] = j /\ valid'[c] /\ data'[c] = data[c]
    BY <2>1, Zenon
  <2>4. Current(j)' = data'[c]
    BY <2>3, Zenon DEF View
  <2> QED
    BY <2>2, <2>3, <2>4, Zenon
<1>2. CASE ~ \E c \in Bufs : blockno[c] = j /\ valid[c]
  BY <1>2, Zenon DEF View
<1> QED
  BY <1>1, <1>2, Zenon

(* A step that leaves the lock of the buffer of a block alone leaves its   *)
(* holder alone.                                                           *)
LEMMA SameOwner ==
  ASSUME View, View', NEW j \in Blocks, UNCHANGED blockno,
         \A c \in Bufs : blockno[c] = j => locked'[c] = locked[c]
  PROVE  Owner(j)' = Owner(j)
<1>1. CASE \E c \in Bufs : blockno[c] = j /\ locked[c] # NoProc
  <2>1. PICK c \in Bufs : blockno[c] = j /\ locked[c] # NoProc
    BY <1>1, Zenon
  <2>2. Owner(j) = locked[c]
    BY <2>1, Zenon DEF View
  <2>3. blockno'[c] = j /\ locked'[c] = locked[c]
    BY <2>1, Zenon
  <2>4. Owner(j)' = locked'[c]
    BY ONLY View', j \in Blocks, c \in Bufs, <2>1, <2>3, Zenon DEF View
  <2> QED
    BY <2>2, <2>3, <2>4, Zenon
<1>2. CASE ~ \E c \in Bufs : blockno[c] = j /\ locked[c] # NoProc
  <2>1. \A c \in Bufs : ~(blockno'[c] = j /\ locked'[c] # NoProc)
    BY <1>2, Zenon
  <2>2. Owner(j) = NoProc
    BY ONLY View, j \in Blocks, <1>2, Zenon DEF View
  <2>3. Owner(j)' = NoProc
    BY ONLY View', j \in Blocks, <2>1, Zenon DEF View
  <2> QED
    BY <2>2, <2>3, Zenon
<1> QED
  BY <1>1, <1>2, Zenon

(* Every step of the cache is a step of BlockStore, or one it cannot see.  *)
LEMMA CoherentStep ==
  ASSUME Counting, BInv, View, BInv', View', [Next]_vars
  PROVE  [BS!Next]_(BS!vars)
<1> DEFINE val == [k \in Blocks |-> Current(k)]
           owner == [k \in Blocks |-> Owner(k)]
<1>1. ASSUME UNCHANGED <<blockno, valid, data, locked, disk>>
      PROVE  UNCHANGED BS!vars
  BY <1>1 DEF BS!vars, Current, Owner, Cached
<1>2. ASSUME NEW p \in Procs, NEW k \in Blocks, Recycle(p, k)
      PROVE  UNCHANGED BS!vars
  <2> DEFINE b == Back[Min(Unreferenced)]
  <2>1. /\ Cached(k) = {} /\ Unreferenced # {}
        /\ blockno' = [blockno EXCEPT ![b] = k] /\ valid' = [valid EXCEPT ![b] = FALSE]
        /\ UNCHANGED <<data, locked, disk>>
    BY <1>2, Zenon DEF Recycle
  <2>2. b \in Bufs /\ refcnt[b] = 0
    BY <2>1, Victim, Zenon DEF BInv
  <2> HIDE DEF b
  <2>3. locked[b] = NoProc /\ blockno[b] \notin logged
    BY <2>2, IdleBuffer
  <2>4. /\ ~valid'[b]
        /\ \A c \in Bufs \ {b} : blockno'[c] = blockno[c] /\ valid'[c] = valid[c]
    BY <2>1, <2>2, Zenon DEF BInv, TypeOK
  <2>5. ASSUME NEW j \in Blocks PROVE Current(j)' = Current(j)
    <3>1. CASE \E c \in Bufs \ {b} : blockno[c] = j /\ valid[c]
      <4>1. PICK c \in Bufs \ {b} : blockno[c] = j /\ valid[c]
        BY <3>1, Zenon
      <4>2. Current(j) = data[c]
        BY <4>1, Zenon DEF View
      <4>3. blockno'[c] = j /\ valid'[c] /\ data'[c] = data[c]
        BY <2>1, <2>4, <4>1, Zenon
      <4>4. Current(j)' = data'[c]
        BY <4>3, Zenon DEF View
      <4> QED
        BY <4>2, <4>3, <4>4, Zenon
    <3>2. CASE ~ \E c \in Bufs \ {b} : blockno[c] = j /\ valid[c]
      <4>1. Current(j)' = disk[j]
        <5>1. \A c \in Bufs : ~(blockno'[c] = j /\ valid'[c])
          BY <2>4, <3>2, Zenon
        <5>2. disk'[j] = disk[j]
          BY <2>1, Zenon
        <5> QED
          BY <5>1, <5>2, Zenon DEF View
      <4>2. Current(j) = disk[j]
        <5>1. CASE blockno[b] = j /\ valid[b]
          BY <2>2, <2>3, <5>1, Zenon DEF View, BInv, DataInv
        <5>2. CASE ~(blockno[b] = j /\ valid[b])
          <6>1. \A c \in Bufs : ~(blockno[c] = j /\ valid[c])
            BY <3>2, <5>2
          <6> QED
            BY <6>1, Zenon DEF View
        <5> QED
          BY <5>1, <5>2, Zenon
      <4> QED
        BY <4>1, <4>2
    <3> QED
      BY <3>1, <3>2
  <2>6. ASSUME NEW j \in Blocks PROVE Owner(j)' = Owner(j)
    <3>0. /\ locked'[b] = NoProc
          /\ \A c \in Bufs \ {b} : blockno'[c] = blockno[c] /\ locked'[c] = locked[c]
      BY <2>1, <2>3, <2>4, Zenon
    <3>1. CASE \E c \in Bufs : blockno[c] = j /\ locked[c] # NoProc
      <4>1. PICK c \in Bufs \ {b} : blockno[c] = j /\ locked[c] # NoProc
        BY <2>3, <3>1, Zenon
      <4>2. Owner(j) = locked[c]
        BY <4>1, Zenon DEF View
      <4>3. blockno'[c] = j /\ locked'[c] = locked[c]
        BY <3>0, <4>1, Zenon
      <4>4. Owner(j)' = locked'[c]
        BY ONLY View', j \in Blocks, c \in Bufs, <4>1, <4>3, Zenon DEF View
      <4> QED
        BY <4>2, <4>3, <4>4, Zenon
    <3>2. CASE ~ \E c \in Bufs : blockno[c] = j /\ locked[c] # NoProc
      <4>1. \A c \in Bufs : ~(blockno'[c] = j /\ locked'[c] # NoProc)
        BY <3>0, <3>2, Zenon
      <4>2. Owner(j) = NoProc
        BY ONLY View, j \in Blocks, <3>2, Zenon DEF View
      <4>3. Owner(j)' = NoProc
        BY ONLY View', j \in Blocks, <4>1, Zenon DEF View
      <4> QED
        BY <4>2, <4>3, Zenon
    <3> QED
      BY <3>1, <3>2, Zenon
  <2> QED
    BY <2>5, <2>6 DEF BS!vars
<1>3. ASSUME NEW p \in Procs, Bread(p) PROVE UNCHANGED BS!vars
  <2> DEFINE b == got[p]
             d == IF valid[b] THEN data[b] ELSE disk[blockno[b]]
  <2>1. /\ pc[p] = "bread" /\ data' = [data EXCEPT ![b] = d] /\ valid' = [valid EXCEPT ![b] = TRUE]
        /\ UNCHANGED <<blockno, locked, disk>>
    BY <1>3, Zenon DEF Bread
  <2>2. b \in Bufs
    BY <2>1, Zenon DEF BInv, HolderInv, HasBuffer, HasContents
  <2> HIDE DEF b, d
  <2>3. /\ valid'[b] /\ data'[b] = d
        /\ \A c \in Bufs \ {b} : data'[c] = data[c] /\ valid'[c] = valid[c]
    BY <2>1, <2>2, Zenon DEF BInv, TypeOK
  <2>4. ASSUME NEW j \in Blocks PROVE Current(j)' = Current(j)
    <3>1. CASE blockno[b] = j
      <4>1. Current(j)' = d
        BY <2>1, <2>2, <2>3, <3>1, Zenon DEF View
      <4>2. CASE valid[b]
        BY <2>2, <3>1, <4>1, <4>2, Zenon DEF View, d
      <4>3. CASE ~valid[b]
        <5>1. \A c \in Bufs : ~(blockno[c] = j /\ valid[c])
          BY <2>2, <3>1, <4>3, BufAssumption, Zenon DEF BInv, UniqueInv
        <5> QED
          BY <3>1, <4>1, <4>3, <5>1, Zenon DEF View, d
      <4> QED
        BY <4>2, <4>3
    <3>2. CASE blockno[b] # j
      BY <2>1, <2>3, <3>2, SameContents, Zenon
    <3> QED
      BY <3>1, <3>2
  <2>5. ASSUME NEW j \in Blocks PROVE Owner(j)' = Owner(j)
    BY <2>1 DEF Owner, Cached
  <2> QED
    BY <2>4, <2>5 DEF BS!vars
<1>4. ASSUME NEW p \in Procs, AcquireSleep(p)
      PROVE  BS!Lock(p, blockno[got[p]]) /\ blockno[got[p]] \in Blocks
  <2>1. PICK b \in Bufs, k \in Blocks : b = got[p] /\ k = blockno[b]
    <3>1. pc[p] = "lock" /\ HasBuffer(p)
      BY <1>4, Zenon DEF AcquireSleep, BInv, HolderInv
    <3> QED
      BY <3>1 DEF HasBuffer
  <2>2. /\ locked[b] = NoProc /\ locked' = [locked EXCEPT ![b] = p]
        /\ UNCHANGED <<blockno, valid, data, disk>>
    BY <1>4, <2>1, Zenon DEF AcquireSleep, bufs
  <2>3. /\ locked'[b] = p /\ p # NoProc
        /\ \A c \in Bufs \ {b} : locked'[c] = locked[c] /\ blockno[c] # k
    BY <2>1, <2>2, BufAssumption, Zenon DEF BInv, TypeOK, UniqueInv
  <2>4. Owner(k) = NoProc /\ Owner(k)' = p
    BY <2>1, <2>2, <2>3, Zenon DEF View
  <2>5. ASSUME NEW j \in Blocks, j # k PROVE Owner(j)' = Owner(j)
    BY <2>1, <2>2, <2>3, <2>5, SameOwner, Zenon
  <2>6. ASSUME NEW j \in Blocks PROVE Current(j)' = Current(j)
    BY <2>2 DEF Current, Cached
  <2>7. owner' = [owner EXCEPT ![k] = p] /\ owner[k] = NoProc /\ UNCHANGED val
    BY <2>1, <2>4, <2>5, <2>6, Zenon
  <2> QED
    BY <2>1, <2>7, Zenon DEF BS!Lock
<1>5. ASSUME NEW p \in Procs, NEW b \in Bufs, Release(p, b)
      PROVE  BS!Unlock(p, blockno[b]) /\ blockno[b] \in Blocks
  <2>1. /\ locked[b] = p /\ p # NoProc /\ locked' = [locked EXCEPT ![b] = NoProc]
        /\ UNCHANGED <<blockno, valid, data, disk>>
    BY <1>5, BufAssumption, Zenon DEF Release, bufs, Held
  <2>2. PICK k \in Blocks : k = blockno[b]
    BY <2>1, Zenon DEF BInv, HolderInv, HasBuffer, HasContents
  <2>3. /\ locked'[b] = NoProc
        /\ \A c \in Bufs \ {b} : locked'[c] = locked[c] /\ blockno[c] # k
    BY <2>1, <2>2, BufAssumption, Zenon DEF BInv, TypeOK, UniqueInv
  <2>4. Owner(k) = p /\ Owner(k)' = NoProc
    BY <2>1, <2>2, <2>3, Zenon DEF View
  <2>5. ASSUME NEW j \in Blocks, j # k PROVE Owner(j)' = Owner(j)
    BY <2>1, <2>2, <2>3, <2>5, SameOwner, Zenon
  <2>6. ASSUME NEW j \in Blocks PROVE Current(j)' = Current(j)
    BY <2>1 DEF Current, Cached
  <2>7. owner' = [owner EXCEPT ![k] = NoProc] /\ owner[k] = p /\ UNCHANGED val
    BY <2>2, <2>4, <2>5, <2>6, Zenon
  <2> QED
    BY <2>2, <2>7, Zenon DEF BS!Unlock
<1>6. ASSUME NEW p \in Procs, NEW b \in Bufs, Install(p, b)
      PROVE  UNCHANGED BS!vars
  <2> DEFINE k == blockno[b]
  <2>1. /\ locked[b] = p /\ p # NoProc /\ disk' = [disk EXCEPT ![k] = data[b]]
        /\ pc[p] = "run" /\ UNCHANGED <<blockno, valid, data, locked>>
    BY <1>6, BufAssumption, Zenon DEF Install, bufs, Held
  <2>2. k \in Blocks /\ valid[b]
    BY <2>1, Zenon DEF BInv, HolderInv, HasBuffer, HasContents
  <2>3. ASSUME NEW j \in Blocks PROVE Current(j)' = Current(j)
    <3>1. CASE j = k
      <4>1. /\ blockno[b] = j /\ valid[b] /\ blockno'[b] = j /\ valid'[b]
            /\ data'[b] = data[b]
        BY <2>1, <2>2, <3>1, Zenon
      <4>2. Current(j) = data[b]
        BY ONLY View, j \in Blocks, b \in Bufs, <4>1, Zenon DEF View
      <4>3. Current(j)' = data'[b]
        BY ONLY View', j \in Blocks, b \in Bufs, <4>1, Zenon DEF View
      <4> QED
        BY <4>1, <4>2, <4>3, Zenon
    <3>2. CASE j # k
      <4>1. disk'[j] = disk[j]
        BY <2>1, <3>2, Zenon DEF BInv, TypeOK
      <4> QED
        BY <2>1, <4>1, SameContents, Zenon
    <3> QED
      BY <3>1, <3>2
  <2>4. ASSUME NEW j \in Blocks PROVE Owner(j)' = Owner(j)
    BY <2>1, Zenon DEF Owner, Cached
  <2> QED
    BY <2>3, <2>4 DEF BS!vars
<1>7. ASSUME NEW p \in Procs, NEW b \in Bufs, NEW v \in Val, Modify(p, b, v)
      PROVE  BS!Change(p, blockno[b], v) /\ blockno[b] \in Blocks
  <2>1. /\ locked[b] = p /\ p # NoProc /\ data' = [data EXCEPT ![b] = v]
        /\ pc[p] = "run" /\ UNCHANGED <<blockno, valid, locked, disk>>
    BY <1>7, BufAssumption, Zenon DEF Modify, bufs, Held
  <2>2. PICK k \in Blocks : k = blockno[b] /\ valid[b]
    BY <2>1, Zenon DEF BInv, HolderInv, HasBuffer, HasContents
  <2>3. /\ data'[b] = v
        /\ \A c \in Bufs \ {b} : data'[c] = data[c] /\ blockno[c] # k
    BY <2>1, <2>2, BufAssumption, Zenon DEF BInv, TypeOK, UniqueInv
  <2>4. Owner(k) = p /\ Current(k)' = v
    BY <2>1, <2>2, <2>3, Zenon DEF View
  <2>5. ASSUME NEW j \in Blocks, j # k PROVE Current(j)' = Current(j)
    BY <2>1, <2>2, <2>3, <2>5, SameContents, Zenon
  <2>6. ASSUME NEW j \in Blocks PROVE Owner(j)' = Owner(j)
    BY <2>1, Zenon DEF Owner, Cached
  <2>7. val' = [val EXCEPT ![k] = v] /\ owner[k] = p /\ UNCHANGED owner
    BY <2>2, <2>4, <2>5, <2>6, Zenon
  <2> QED
    BY <2>2, <2>7, Zenon DEF BS!Change
<1>8. CASE UNCHANGED vars
  BY <1>1, <1>8, Zenon DEF vars, bufs
<1>9. CASE Next
  <2>1. PICK p \in Procs :
          \/ AcquireSleep(p) \/ AcquireSleepWaits(p) \/ Kick(p) \/ Bread(p) \/ Unref(p)
          \/ \E k \in Blocks : Hit(p, k) \/ Recycle(p, k) \/ NoBuffers(p, k)
          \/ \E b \in Bufs : \/ Install(p, b) \/ Release(p, b)
                             \/ \E v \in Val : Modify(p, b, v)
    BY <1>9, Zenon DEF Next
  <2>2. CASE AcquireSleepWaits(p) \/ Kick(p) \/ Unref(p)
             \/ \E k \in Blocks : Hit(p, k) \/ NoBuffers(p, k)
    <3>1. UNCHANGED <<blockno, valid, data, locked, disk>>
      BY <2>2, Zenon DEF AcquireSleepWaits, Kick, Unref, Hit, NoBuffers, bufs
    <3> QED
      BY <1>1, <3>1
  <2>3. CASE Bread(p) \/ (\E k \in Blocks : Recycle(p, k)) \/ \E b \in Bufs : Install(p, b)
    BY <1>2, <1>3, <1>6, <2>3
  <2>4. CASE AcquireSleep(p) \/ \E b \in Bufs : Release(p, b) \/ \E v \in Val : Modify(p, b, v)
    BY <1>4, <1>5, <1>7, <2>4, Zenon DEF BS!Next
  <2> QED
    BY <2>1, <2>2, <2>3, <2>4, Zenon
<1> QED
  BY <1>8, <1>9

-----------------------------------------------------------------------------
FST == INSTANCE FiniteSetTheorems
WFI == INSTANCE WellFoundedInduction

(* The library counts as the cache does.                                   *)
LEMMA LibraryFinite == \A S : IsFiniteSet(S) = FST!IsFiniteSet(S)
  BY DEF IsFiniteSet, FST!IsFiniteSet

(* The library counts as the cache does.                                   *)
LEMMA LibraryCardinality == \A S : Cardinality(S) = FST!Cardinality(S)
  BY Zenon DEF Cardinality, FST!Cardinality

(* A nonempty set of numbers has a least element: the loop of bget() stops *)
(* at the first buffer that will do.                                       *)
LEMMA LeastNumber ==
  ASSUME NEW S \in SUBSET Nat, S # {}
  PROVE  \E x \in S : \A y \in S : x <= y
<1> DEFINE less == {ss \in Nat \X Nat : ss[1] < ss[2]}
<1>1. WFI!IsWellFoundedOn(less, Nat)
  BY WFI!NatLessThanWellFounded DEF WFI!OpToRel
<1> HIDE DEF less
<1>2. PICK x \in S : \A y \in S : ~ (<<y, x>> \in less)
  BY <1>1, WFI!WFMin, Zenon
<1>3. ASSUME NEW y \in S PROVE x <= y
  <2>1. x \in Nat /\ y \in Nat /\ ~ (<<y, x>> \in less)
    BY <1>2
  <2>2. y < x => <<y, x>> \in less
    BY <2>1 DEF less
  <2> QED
    BY <2>1, <2>2
<1> QED
  BY <1>3

(* The processes at a buffer can be counted: there are finitely many.      *)
LEMMA CanCount == Counting
<1>1. ASSUME NEW S \in SUBSET Procs
      PROVE  /\ FST!IsFiniteSet(S) /\ Cardinality(S) \in Nat
             /\ Cardinality(S) = 0 <=> S = {}
  <2>1. FST!IsFiniteSet(Procs)
    BY BufAssumption, LibraryFinite
  <2>2. FST!IsFiniteSet(S)
    BY <2>1, FST!FS_Subset
  <2> QED
    BY <2>2, FST!FS_CardinalityType, FST!FS_EmptySet, LibraryCardinality
<1>2. ASSUME NEW S \in SUBSET Procs, NEW p \in Procs \ S
      PROVE  Cardinality(S \cup {p}) = Cardinality(S) + 1
  BY <1>1, FST!FS_AddElement, LibraryCardinality
<1> QED
  BY <1>1, <1>2, LeastNumber DEF Counting

(* Every buffer is in L, or in P, or g[p] of a process in W, and the h[b] *)
(* of the buffers in P are all of K, each once.                            *)
Fills(L, P, W, K, g, h) ==
  /\ L \in SUBSET Bufs /\ P \in SUBSET Bufs /\ W \in SUBSET Procs
  /\ g \in [W -> 0 .. NBUF] /\ h \in [P -> K]
  /\ \A k \in K : \E b \in P : h[b] = k
  /\ \A b, c \in P : h[b] = h[c] => b = c
  /\ \A b \in Bufs : b \in L \/ b \in P \/ \E p \in W : g[p] = b

(* Then K, L and W have at least NBUF members together.                    *)
LEMMA CountFull ==
  ASSUME NEW L, NEW P, NEW W, NEW K, NEW g, NEW h, Fills(L, P, W, K, g, h)
  PROVE  Cardinality(K) + Cardinality(L) + Cardinality(W) >= NBUF
<1> USE DEF Fills
<1> DEFINE G == {g[p] : p \in W}
<1>1. NBUF \in Nat /\ FST!IsFiniteSet(Procs)
  BY BufAssumption, LibraryFinite, Zenon
<1>2. FST!IsFiniteSet(Bufs) /\ FST!Cardinality(Bufs) = NBUF
  BY <1>1, FST!FS_Interval DEF Bufs
<1>3. FST!IsFiniteSet(L) /\ FST!IsFiniteSet(P) /\ FST!IsFiniteSet(W)
  BY <1>1, <1>2, FST!FS_Subset
<1>4. FST!IsFiniteSet(K) /\ FST!Cardinality(K) = FST!Cardinality(P)
  <2>1. h \in FST!Surjection(P, K) /\ h \in FST!Injection(P, K)
    BY Zenon DEF FST!Surjection, FST!Injection, FST!IsInjective
  <2> QED
    BY <1>3, <2>1, FST!FS_Surjection
<1>5. FST!IsFiniteSet(G) /\ FST!Cardinality(G) <= FST!Cardinality(W)
  <2>1. g \in FST!Surjection(W, G)
    BY Zenon DEF FST!Surjection
  <2> QED
    BY <1>3, <2>1, FST!FS_Surjection, Zenon
<1> HIDE DEF G
<1>6a. FST!IsFiniteSet(L \cap P)
  BY <1>3, FST!FS_Intersection, Zenon
<1>6. /\ FST!IsFiniteSet(L \cup P)
      /\ FST!Cardinality(L \cup P) = FST!Cardinality(L) + FST!Cardinality(P) - FST!Cardinality(L \cap P)
  BY <1>3, FST!FS_Union, Zenon
<1>7a. FST!IsFiniteSet((L \cup P) \cap G)
  BY <1>5, <1>6, FST!FS_Intersection, Zenon
<1>7. /\ FST!IsFiniteSet((L \cup P) \cup G)
      /\ FST!Cardinality((L \cup P) \cup G)
           = FST!Cardinality(L \cup P) + FST!Cardinality(G) - FST!Cardinality((L \cup P) \cap G)
  BY <1>5, <1>6, FST!FS_Union, Zenon
<1>8. Bufs \in SUBSET ((L \cup P) \cup G)
  BY DEF G
<1>9. FST!Cardinality(Bufs) <= FST!Cardinality((L \cup P) \cup G)
  BY <1>7, <1>8, FST!FS_Subset, Zenon
<1>10. /\ FST!Cardinality(L) \in Nat /\ FST!Cardinality(P) \in Nat /\ FST!Cardinality(W) \in Nat
       /\ FST!Cardinality(G) \in Nat /\ FST!Cardinality(L \cap P) \in Nat
       /\ FST!Cardinality((L \cup P) \cap G) \in Nat /\ FST!Cardinality(K) \in Nat
       /\ FST!Cardinality(L \cup P) \in Nat /\ FST!Cardinality((L \cup P) \cup G) \in Nat
  BY <1>3, <1>4, <1>5, <1>6, <1>6a, <1>7, <1>7a, FST!FS_CardinalityType, Zenon
<1>11. FST!Cardinality(K) + FST!Cardinality(L) + FST!Cardinality(W) >= NBUF
  BY ONLY <1>1, <1>2, <1>4, <1>5, <1>6, <1>7, <1>9, <1>10
<1> QED
  BY <1>11, LibraryCardinality, Zenon

(* The invariant holds in every reachable state, for any number of         *)
(* processes, buffers and blocks.                                          *)
THEOREM Invariance == Spec => []BInv
<1>1. Init => BInv
  BY CanCount, InitInv
<1>2. BInv /\ [Next]_vars => BInv'
  BY CanCount, StepInv
<1> QED
  BY <1>1, <1>2, PTL DEF Spec

(* refcnt counts the holder, the processes between bget() and the lock or  *)
(* between unlock and the end of brelse(), and the pin; and a process gets *)
(* the buffer of the block it asked for, also when it waited for the lock. *)
THEOREM ReferencesAreCounted == Spec => []RefCounts
<1>1. BInv => RefCounts
  BY CanCount, RefsCounted
<1> QED
  BY Invariance, <1>1, PTL

(* The cache implements BlockStore: a block has one value and one holder,  *)
(* acquiresleep() takes it, the holder changes it, releasesleep() gives it *)
(* back, and hits, recycling, reads, pins and write back are not visible.  *)
THEOREM CacheIsCoherent == Spec => Coherent
<1>1. Init => BS!Init
  BY DEF Init, BS!Init, Current, Owner, Cached
<1>2. BInv /\ View /\ BInv' /\ View' /\ [Next]_vars => [BS!Next]_(BS!vars)
  BY CanCount, CoherentStep
<1> QED
  BY Invariance, ViewHolds, <1>1, <1>2, PTL DEF Spec, Coherent, BS!Spec

(* The list is one ring that links both ways and misses no buffer, and a   *)
(* block is in at most one buffer: whatever processes miss at the same     *)
(* time, recycle and release, bget() finds a cached block and every free   *)
(* buffer.                                                                 *)
THEOREM RingStaysWhole == Spec => []RingWhole
<1>1. Init => ListInv
  BY CanCount, ListInit
<1>2. BInv /\ ListInv /\ [Next]_vars => ListInv'
  BY ListStep
<1>3. BInv /\ ListInv => RingWhole
  BY CanCount, ListWhole, Zenon DEF RingWhole, BInv, UniqueInv
<1> QED
  BY Invariance, <1>1, <1>2, <1>3, PTL DEF Spec

(* bget() panics only when pins, locks and processes on the way to a       *)
(* buffer or out of it take up all NBUF buffers.                           *)
THEOREM PanicsOnlyWhenFull == Spec => PanicOnlyWhenFull
<1> DEFINE W == {p \in Procs : pc[p] \in {"lock", "unref"}}
           L == {b \in Bufs : locked[b] # NoProc}
           Full == Cardinality(logged) + Cardinality(L) + Cardinality(W) >= NBUF
           Panics == (\E p \in Procs : pc'[p] = "panic" /\ pc[p] # "panic") => Full
<1>1. BInv /\ ListInv /\ [Next]_vars => [Panics]_vars
  <2> SUFFICES ASSUME BInv, ListInv, [Next]_vars, NEW q \in Procs,
                      pc'[q] = "panic", pc[q] # "panic"
               PROVE  Full
    BY Zenon
  <2>1. Unreferenced = {}
    BY PanicStep, Zenon
  <2> DEFINE P == {b \in Bufs : blockno[b] \in logged}
             g == [p \in W |-> got[p]]
             h == [b \in P |-> blockno[b]]
  <2>2. g \in [W -> 0 .. NBUF] /\ h \in [P -> logged]
    BY Zenon DEF BInv, TypeOK
  <2>3. \A k \in logged : \E b \in P : h[b] = k
    BY Zenon DEF BInv, DataInv, Cached
  <2>4. \A b, c \in P : h[b] = h[c] => b = c
    <3>1. NoBlock \notin logged
      BY BufAssumption, Zenon DEF BInv, TypeOK
    <3> QED
      BY <3>1, Zenon DEF BInv, UniqueInv
  <2>5. \A b \in Bufs : b \in L \/ b \in P \/ \E p \in W : g[p] = b
    <3> SUFFICES ASSUME NEW b \in Bufs PROVE b \in L \/ b \in P \/ \E p \in W : g[p] = b
      BY Zenon
    <3>1. locked[b] # NoProc \/ Waiting(b) # {} \/ blockno[b] \in logged
      BY CanCount, <2>1, NoneIdle, Zenon
    <3> QED
      BY <3>1, Zenon DEF Waiting
  <2>6. L \in SUBSET Bufs /\ P \in SUBSET Bufs /\ W \in SUBSET Procs
    BY Zenon
  <2> HIDE DEF g, h, P, L, W
  <2>7. Fills(L, P, W, logged, g, h)
    BY <2>2, <2>3, <2>4, <2>5, <2>6, Zenon DEF Fills
  <2> QED
    BY <2>7, CountFull, Zenon
<1>2. Init => ListInv
  BY CanCount, ListInit
<1>3. BInv /\ ListInv /\ [Next]_vars => ListInv'
  BY ListStep
<1>4. PanicOnlyWhenFull <=> [][Panics]_vars
  BY PTL DEF PanicOnlyWhenFull
<1> QED
  BY Invariance, <1>1, <1>2, <1>3, <1>4, PTL DEF Spec
=============================================================================
