---------------------------- MODULE VirtioProofs ----------------------------
(***************************************************************************)
(* Proofs about Virtio: its inductive invariant, and the properties that   *)
(* follow from it, for any number of processes and descriptors and any     *)
(* width of the ring indices.                                              *)
(***************************************************************************)
EXTENDS VirtioInv, TLAPS

(* A multiple of n between -n and n is zero.                               *)
LEMMA SmallMultiple ==
  ASSUME NEW n \in Nat \ {0}, NEW q \in Int, n * q < n, 0 - n < n * q
  PROVE  q = 0
<1>1. CASE q >= 1
  <2>1. n * q = n + n * (q - 1) /\ n * (q - 1) >= 0
    BY <1>1
  <2> QED
    BY <2>1
<1>2. CASE q <= 0 - 1
  <2>1. n * q = n * (q + 1) - n /\ n * (q + 1) <= 0
    BY <1>2
  <2> QED
    BY <2>1
<1> QED
  BY <1>1, <1>2

(* Quotient and remainder.                                                 *)
LEMMA Division ==
  ASSUME NEW n \in Nat \ {0}, NEW x \in Int
  PROVE  x % n \in 0 .. n - 1 /\ x \div n \in Int /\ x = n * (x \div n) + (x % n)
  OBVIOUS

(* The remainder is the only one.                                          *)
LEMMA Remainder ==
  ASSUME NEW n \in Nat \ {0}, NEW q \in Int, NEW r \in 0 .. n - 1
  PROVE  (n * q + r) % n = r
<1> DEFINE x == n * q + r
           k == q - x \div n
<1>1. x \in Int
  OBVIOUS
<1>2. x % n \in 0 .. n - 1 /\ x \div n \in Int /\ x = n * (x \div n) + (x % n)
  BY <1>1, Division
<1>3. k \in Int /\ n * k = (x % n) - r
  BY <1>2
<1>4. k = 0
  BY <1>2, <1>3, SmallMultiple
<1> QED
  BY <1>2, <1>3, <1>4

(* The distance between two uint16 indices.                                *)
LEMMA Distance ==
  ASSUME NEW a \in Idx, NEW b \in Idx
  PROVE  Between(a, b) = IF a <= b THEN b - a ELSE b - a + IdxMod
<1>1. IdxMod \in Nat \ {0} /\ a \in 0 .. IdxMod - 1 /\ b \in 0 .. IdxMod - 1
  BY VirtioAssumption DEF Idx
<1>2. CASE a <= b
  <2>1. b - a \in 0 .. IdxMod - 1 /\ IdxMod * 0 + (b - a) = b - a
    BY <1>1, <1>2
  <2>2. (IdxMod * 0 + (b - a)) % IdxMod = b - a
    BY ONLY <1>1, <2>1, Remainder
  <2> QED
    BY <1>2, <2>1, <2>2 DEF Between
<1>3. CASE ~(a <= b)
  <2>1. /\ b - a + IdxMod \in 0 .. IdxMod - 1 /\ 0 - 1 \in Int
        /\ IdxMod * (0 - 1) + (b - a + IdxMod) = b - a
    BY <1>1, <1>3
  <2>2. (IdxMod * (0 - 1) + (b - a + IdxMod)) % IdxMod = b - a + IdxMod
    BY ONLY <1>1, <2>1, Remainder, Zenon
  <2> QED
    BY ONLY <1>3, <2>1, <2>2 DEF Between
<1> QED
  BY <1>2, <1>3

(* The next uint16 index.                                                  *)
LEMMA Increment ==
  ASSUME NEW a \in Idx
  PROVE  /\ (a + 1) % IdxMod \in Idx
         /\ (a + 1) % IdxMod = IF a + 1 = IdxMod THEN 0 ELSE a + 1
<1>1. IdxMod \in Nat \ {0} /\ a \in 0 .. IdxMod - 1
  BY VirtioAssumption DEF Idx
<1>2. CASE a + 1 = IdxMod
  <2>1. 0 \in 0 .. IdxMod - 1 /\ 1 \in Int /\ IdxMod * 1 + 0 = a + 1
    BY ONLY <1>1, <1>2
  <2>2. (IdxMod * 1 + 0) % IdxMod = 0
    BY ONLY <1>1, <2>1, Remainder
  <2>3. (a + 1) % IdxMod = 0
    BY <2>1, <2>2, Zenon
  <2> QED
    BY <1>2, <2>1, <2>3, Zenon DEF Idx
<1>3. CASE a + 1 # IdxMod
  <2>1. a + 1 \in 0 .. IdxMod - 1 /\ 0 \in Int /\ IdxMod * 0 + (a + 1) = a + 1
    BY <1>1, <1>3
  <2>2. (IdxMod * 0 + (a + 1)) % IdxMod = a + 1
    BY ONLY <1>1, <2>1, Remainder
  <2> QED
    BY <1>3, <2>1, <2>2 DEF Idx
<1> QED
  BY <1>2, <1>3

(* The rings fit into the indices.                                         *)
LEMMA RingSize ==
  /\ NUM \in Nat \ {0} /\ NUM <= IdxMod
  /\ IdxMod \div NUM \in Int /\ IdxMod = NUM * (IdxMod \div NUM)
<1>1. NUM \in Nat \ {0} /\ IdxMod \in Nat \ {0} /\ IdxMod % NUM = 0
  BY VirtioAssumption
<1>2. IdxMod \div NUM \in Int /\ IdxMod = NUM * (IdxMod \div NUM)
  BY <1>1, Division
<1>3. ASSUME IdxMod < NUM PROVE FALSE
  <2>1. IdxMod \div NUM = 0
    BY <1>1, <1>2, <1>3, SmallMultiple
  <2> QED
    BY <1>1, <1>2, <2>1
<1> QED
  BY <1>1, <1>2, <1>3

(* Indices that differ by less than NUM have different entries.            *)
LEMMA Slots ==
  ASSUME NEW a \in Idx, NEW m \in Idx, NEW n \in Idx, Between(a, m) < NUM, Between(a, n) < NUM,
         m % NUM = n % NUM
  PROVE  m = n
<1> DEFINE K == IdxMod \div NUM
           i == Between(a, m)
           j == Between(a, n)
           x == (m \div NUM) - (n \div NUM)
<1>1. /\ NUM \in Nat \ {0} /\ K \in Int /\ IdxMod = NUM * K
      /\ IdxMod \in Nat \ {0}
      /\ a \in 0 .. IdxMod - 1 /\ m \in 0 .. IdxMod - 1 /\ n \in 0 .. IdxMod - 1
  <2>1. IdxMod \in Nat \ {0} /\ Idx = 0 .. IdxMod - 1
    BY VirtioAssumption, Zenon DEF Idx
  <2> QED
    BY RingSize, <2>1, Zenon
<1>2. /\ i = IF a <= m THEN m - a ELSE m - a + IdxMod
      /\ j = IF a <= n THEN n - a ELSE n - a + IdxMod
  BY Distance
<1>3. x \in Int /\ m - n = NUM * x
  <2>1. m \in Int /\ n \in Int
    BY ONLY <1>1
  <2>2. m \div NUM \in Int /\ m = NUM * (m \div NUM) + (m % NUM)
    BY ONLY <1>1, <2>1, Division
  <2>3. n \div NUM \in Int /\ n = NUM * (n \div NUM) + (n % NUM) /\ n % NUM \in 0 .. NUM - 1
    BY ONLY <1>1, <2>1, Division
  <2>4. ASSUME NEW c \in Int, NEW d \in Int, NEW r \in Int, m = NUM * c + r, n = NUM * d + r
        PROVE  m - n = NUM * (c - d)
    BY ONLY <1>1, <2>1, <2>4
  <2> QED
    BY <1>1, <2>2, <2>3, <2>4
<1> HIDE DEF K, i, j, x
<1>4. i < NUM /\ j < NUM
  BY DEF i, j
<1>5. CASE (a <= m) = (a <= n)
  <2>1. NUM * x < NUM /\ 0 - NUM < NUM * x
    BY ONLY <1>1, <1>2, <1>3, <1>4, <1>5
  <2>2. x = 0
    BY ONLY <1>1, <1>3, <2>1, SmallMultiple
  <2> QED
    BY <1>1, <1>3, <2>2
<1>6. CASE a <= m /\ ~(a <= n)
  <2>1. m - n - IdxMod = NUM * (x - K) /\ x - K \in Int
    BY ONLY <1>1, <1>3
  <2>2. NUM * (x - K) < NUM /\ 0 - NUM < NUM * (x - K)
    BY ONLY <1>1, <1>2, <2>1, <1>4, <1>6
  <2>3. x - K = 0
    BY ONLY <1>1, <2>1, <2>2, SmallMultiple
  <2> QED
    BY <1>1, <2>1, <2>3
<1>7. CASE ~(a <= m) /\ a <= n
  <2>1. m - n + IdxMod = NUM * (x + K) /\ x + K \in Int
    BY ONLY <1>1, <1>3
  <2>2. NUM * (x + K) < NUM /\ 0 - NUM < NUM * (x + K)
    BY ONLY <1>1, <1>2, <2>1, <1>4, <1>7
  <2>3. x + K = 0
    BY ONLY <1>1, <2>1, <2>2, SmallMultiple
  <2> QED
    BY <1>1, <2>1, <2>3
<1> QED
  BY <1>1, <1>5, <1>6, <1>7

(* A window grows by the index after it ...                                *)
LEMMA WinGrows ==
  ASSUME NEW a \in Idx, NEW b \in Idx, Between(a, b) + 1 < IdxMod
  PROVE  /\ Between(a, b) \in Nat
         /\ Between(a, (b + 1) % IdxMod) = Between(a, b) + 1
         /\ b \notin Win(a, b)
         /\ Win(a, (b + 1) % IdxMod) = Win(a, b) \cup {b}
<1> DEFINE c == (b + 1) % IdxMod
<1>1. IdxMod \in Nat \ {0} /\ a \in 0 .. IdxMod - 1 /\ b \in 0 .. IdxMod - 1
  BY VirtioAssumption DEF Idx
<1>2. c \in Idx /\ c = IF b + 1 = IdxMod THEN 0 ELSE b + 1
  BY Increment
<1> HIDE DEF c
<1>3. /\ Between(a, b) = IF a <= b THEN b - a ELSE b - a + IdxMod
      /\ Between(a, c) = IF a <= c THEN c - a ELSE c - a + IdxMod
  BY <1>2, Distance
<1>4. Between(a, b) \in Nat /\ Between(a, c) = Between(a, b) + 1
  BY ONLY <1>1, <1>2, <1>3, Between(a, b) + 1 < IdxMod
<1>5. ASSUME NEW n \in Idx
      PROVE  (Between(a, n) < Between(a, c)) <=> (Between(a, n) < Between(a, b) \/ n = b)
  <2>1. n \in 0 .. IdxMod - 1
    BY DEF Idx
  <2>2. Between(a, n) = IF a <= n THEN n - a ELSE n - a + IdxMod
    BY Distance
  <2> QED
    BY ONLY <1>1, <1>3, <1>4, <2>1, <2>2
<1>6. ~(Between(a, b) < Between(a, b))
  BY <1>4
<1>7. Win(a, c) = Win(a, b) \cup {b}
  BY <1>5, Zenon DEF Win
<1> QED
  BY <1>4, <1>6, <1>7, Zenon DEF Win, c

(* ... and loses the index at its start.                                   *)
LEMMA WinShrinks ==
  ASSUME NEW a \in Idx, NEW b \in Idx, a # b
  PROVE  /\ Between(a, b) \in Nat \ {0}
         /\ Between((a + 1) % IdxMod, b) = Between(a, b) - 1
         /\ a \in Win(a, b)
         /\ Win((a + 1) % IdxMod, b) = Win(a, b) \ {a}
<1> DEFINE c == (a + 1) % IdxMod
<1>1. IdxMod \in Nat \ {0} /\ a \in 0 .. IdxMod - 1 /\ b \in 0 .. IdxMod - 1
  BY VirtioAssumption DEF Idx
<1>2. c \in Idx /\ c = IF a + 1 = IdxMod THEN 0 ELSE a + 1
  BY Increment
<1> HIDE DEF c
<1>3. /\ Between(a, b) = IF a <= b THEN b - a ELSE b - a + IdxMod
      /\ Between(c, b) = IF c <= b THEN b - c ELSE b - c + IdxMod
      /\ Between(a, a) = IF a <= a THEN a - a ELSE a - a + IdxMod
  BY <1>2, Distance
<1>4. /\ Between(a, b) \in Nat \ {0} /\ Between(c, b) = Between(a, b) - 1
      /\ Between(a, a) < Between(a, b)
  BY ONLY <1>1, <1>2, <1>3, a # b
<1>5. ASSUME NEW n \in Idx
      PROVE  (Between(c, n) < Between(c, b)) <=> (Between(a, n) < Between(a, b) /\ n # a)
  <2>1. n \in 0 .. IdxMod - 1
    BY DEF Idx
  <2>2. /\ Between(a, n) = IF a <= n THEN n - a ELSE n - a + IdxMod
        /\ Between(c, n) = IF c <= n THEN n - c ELSE n - c + IdxMod
    BY <1>2, Distance
  <2> QED
    BY ONLY <1>1, <1>2, <1>3, <1>4, <2>1, <2>2
<1>6. Win(c, b) = Win(a, b) \ {a}
  BY <1>5, Zenon DEF Win
<1> QED
  BY <1>4, <1>6, Zenon DEF Win, c

(* The entries of a window of at most NUM indices are different.           *)
LEMMA WinSlots ==
  ASSUME NEW a \in Idx, NEW b \in Idx, Between(a, b) <= NUM,
         NEW m \in Win(a, b), NEW n \in Win(a, b), m % NUM = n % NUM
  PROVE  m = n
<1>1. m \in Idx /\ n \in Idx /\ Between(a, m) < Between(a, b) /\ Between(a, n) < Between(a, b)
  BY Zenon DEF Win
<1>2. Between(a, m) \in Int /\ Between(a, n) \in Int /\ Between(a, b) \in Int /\ NUM \in Int
  <2>1. ASSUME NEW c \in Idx PROVE Between(a, c) \in Int
    BY VirtioAssumption, Distance DEF Idx
  <2> QED
    BY <1>1, <2>1, RingSize
<1>3. Between(a, m) < NUM /\ Between(a, n) < NUM
  BY ONLY <1>1, <1>2, Between(a, b) <= NUM
<1> QED
  BY <1>1, <1>3, Slots, Zenon

(* Index n has an entry of the ring.                                       *)
LEMMA Slot ==
  ASSUME NEW n \in Idx
  PROVE  n % NUM \in Descs
<1>1. n \in Int /\ NUM \in Nat \ {0}
  BY VirtioAssumption DEF Idx
<1> QED
  BY <1>1, Division DEF Descs

-----------------------------------------------------------------------------
(* The rings                                                               *)

(* x can be put at the end of a ring from a up to b.                       *)
CanPush(ring, a, b, x) ==
  /\ ring \in [Descs -> Descs] /\ a \in Idx /\ b \in Idx /\ x \in Descs
  /\ Between(a, b) < NUM /\ Between(a, b) + 1 < IdxMod
  /\ Once(ring, a, b) /\ x \notin Entries(ring, a, b)

(* A new entry at the end of a ring overwrites none.                       *)
LEMMA RingPush ==
  ASSUME NEW ring, NEW a, NEW b, NEW x, CanPush(ring, a, b, x)
  PROVE  /\ Entries([ring EXCEPT ![b % NUM] = x], a, (b + 1) % IdxMod) = Entries(ring, a, b) \cup {x}
         /\ Once([ring EXCEPT ![b % NUM] = x], a, (b + 1) % IdxMod)
<1> USE DEF CanPush
<1> DEFINE r == [ring EXCEPT ![b % NUM] = x]
           c == (b + 1) % IdxMod
<1>1. /\ Between(a, b) \in Nat /\ Between(a, c) = Between(a, b) + 1
      /\ b \notin Win(a, b) /\ Win(a, c) = Win(a, b) \cup {b}
  BY WinGrows, Zenon
<1>2. c \in Idx
  BY Increment, Zenon
<1>3. Between(a, c) <= NUM
  BY ONLY <1>1, CanPush(ring, a, b, x), RingSize
<1>4. b % NUM \in Descs /\ r[b % NUM] = x
  BY Slot, Zenon
<1>5. ASSUME NEW n \in Win(a, b) PROVE n % NUM \in Descs /\ r[n % NUM] = ring[n % NUM]
  <2>1. n \in Idx /\ n \in Win(a, c) /\ b \in Win(a, c) /\ n # b
    BY <1>1, Zenon DEF Win
  <2>2. n % NUM # b % NUM
    BY <1>2, <1>3, <2>1, WinSlots, Zenon
  <2>3. n % NUM \in Descs
    BY <2>1, Slot, Zenon
  <2> QED
    BY <1>4, <2>2, <2>3, Zenon
<1> HIDE DEF r, c
<1>6. Entries(r, a, c) = Entries(ring, a, b) \cup {x}
  BY <1>1, <1>4, <1>5, Zenon DEF Entries
<1>7. Once(r, a, c)
  <2>1. \A n \in Win(a, b) : r[n % NUM] # x
    BY <1>5, Zenon DEF Entries
  <2>2. \A m, n \in Win(a, b) : r[m % NUM] = r[n % NUM] => m = n
    BY <1>5, Zenon DEF Once
  <2> QED
    BY <1>1, <1>4, <2>1, <2>2, Zenon DEF Once
<1> QED
  BY <1>6, <1>7, Zenon DEF r, c

(* The first entry of a ring is read, and set to 0.                        *)
LEMMA RingPop ==
  ASSUME NEW ring \in [Descs -> Descs], NEW a \in Idx, NEW b \in Idx,
         a # b, Between(a, b) <= NUM, Once(ring, a, b)
  PROVE  LET r == [ring EXCEPT ![a % NUM] = 0]
             c == (a + 1) % IdxMod IN
         /\ ring[a % NUM] \in Entries(ring, a, b)
         /\ Entries(r, c, b) = Entries(ring, a, b) \ {ring[a % NUM]}
         /\ Once(r, c, b)
<1> DEFINE r == [ring EXCEPT ![a % NUM] = 0]
           c == (a + 1) % IdxMod
<1>1. a \in Win(a, b) /\ Win(c, b) = Win(a, b) \ {a}
  BY WinShrinks, Zenon
<1>2. ASSUME NEW n \in Win(a, b), n # a PROVE r[n % NUM] = ring[n % NUM]
  <2>1. n \in Idx
    BY Zenon DEF Win
  <2>2. n % NUM # a % NUM
    BY <1>1, <1>2, WinSlots, Zenon
  <2>3. n % NUM \in Descs
    BY <2>1, Slot, Zenon
  <2> QED
    BY <2>2, <2>3, Zenon
<1> HIDE DEF r, c
<1>3. \A m, n \in Win(a, b) : ring[m % NUM] = ring[n % NUM] => m = n
  BY Zenon DEF Once
<1>4. Entries(r, c, b) = Entries(ring, a, b) \ {ring[a % NUM]}
  <2>1. ASSUME NEW x \in Entries(r, c, b) PROVE x \in Entries(ring, a, b) \ {ring[a % NUM]}
    <3>1. PICK n \in Win(c, b) : x = r[n % NUM]
      BY Zenon DEF Entries
    <3>2. n \in Win(a, b) /\ n # a
      BY <1>1, Zenon
    <3> QED
      BY <1>1, <1>2, <1>3, <3>1, <3>2, Zenon DEF Entries
  <2>2. ASSUME NEW x \in Entries(ring, a, b) \ {ring[a % NUM]} PROVE x \in Entries(r, c, b)
    <3>1. PICK n \in Win(a, b) : x = ring[n % NUM]
      BY Zenon DEF Entries
    <3>2. n \in Win(c, b) /\ r[n % NUM] = x
      BY <1>1, <1>2, <3>1, Zenon
    <3> QED
      BY <3>2, Zenon DEF Entries
  <2> QED
    BY <2>1, <2>2, Zenon
<1>5. Once(r, c, b)
  BY <1>1, <1>2, <1>3, Zenon DEF Once
<1>6. ring[a % NUM] \in Entries(ring, a, b)
  BY <1>1, Zenon DEF Entries
<1> QED
  BY <1>4, <1>5, <1>6, Zenon DEF r, c

-----------------------------------------------------------------------------
(* Counting                                                                *)

(* What the proofs use about finite sets: one more or one less member,     *)
(* subsets, the descriptors, and the least descriptor of a set.            *)
AddFact ==
  \A S, x : IsFiniteSet(S) /\ x \notin S =>
    IsFiniteSet(S \cup {x}) /\ Cardinality(S \cup {x}) = Cardinality(S) + 1
RemoveFact ==
  \A S, x : IsFiniteSet(S) /\ x \in S =>
    IsFiniteSet(S \ {x}) /\ Cardinality(S \ {x}) = Cardinality(S) - 1
SubsetFact ==
  \A S, T : IsFiniteSet(T) /\ S \subseteq T =>
    IsFiniteSet(S) /\ Cardinality(S) <= Cardinality(T)
NumberFact == \A S : IsFiniteSet(S) => Cardinality(S) \in Nat
EmptyFact == IsFiniteSet({}) /\ Cardinality({}) = 0
DescsFact == IsFiniteSet(Descs) /\ Cardinality(Descs) = NUM
LeastFact == \A S \in SUBSET Nat : S # {} => \E x \in S : \A y \in S : x <= y

Counting ==
  /\ AddFact /\ RemoveFact /\ SubsetFact /\ NumberFact
  /\ EmptyFact /\ DescsFact /\ LeastFact

(* x, y and z are three members that S does not have.                      *)
Fresh(S, x, y, z) ==
  /\ IsFiniteSet(S) /\ x # y /\ x # z /\ y # z
  /\ x \notin S /\ y \notin S /\ z \notin S

(* Three more descriptors are three more.                                  *)
LEMMA ThreeMore ==
  ASSUME Counting, NEW S, NEW x, NEW y, NEW z, Fresh(S, x, y, z)
  PROVE  /\ IsFiniteSet(S \cup {x, y, z})
         /\ Cardinality(S \cup {x, y, z}) = Cardinality(S) + 3
<1> USE DEF Fresh
<1> DEFINE A == S \cup {x}
           B == A \cup {y}
           C == B \cup {z}
<1>1. IsFiniteSet(A) /\ Cardinality(A) = Cardinality(S) + 1
  BY Zenon DEF Counting, AddFact
<1>2. IsFiniteSet(B) /\ Cardinality(B) = Cardinality(A) + 1
  <2>1. y \notin A
    BY Zenon
  <2> QED
    BY <1>1, <2>1, Zenon DEF Counting, AddFact
<1>3. IsFiniteSet(C) /\ Cardinality(C) = Cardinality(B) + 1
  <2>1. z \notin B
    BY Zenon
  <2> QED
    BY <1>2, <2>1, Zenon DEF Counting, AddFact
<1>4. S \cup {x, y, z} = C
  BY Zenon
<1>5. Cardinality(S) \in Nat
  BY Zenon DEF Counting, NumberFact
<1> HIDE DEF A, B, C
<1>6. Cardinality(C) = Cardinality(S) + 3
  BY ONLY <1>1, <1>2, <1>3, <1>5
<1> QED
  BY <1>3, <1>4, <1>6, Zenon

(* So a chain has three members.                                           *)
LEMMA Triple ==
  ASSUME Counting, NEW x, NEW y, NEW z, x # y, x # z, y # z
  PROVE  Cardinality({x, y, z}) = 3
<1>1. PICK S : S = {}
  BY Zenon
<1>a. Fresh(S, x, y, z)
  BY <1>1, Zenon DEF Counting, EmptyFact, Fresh
<1>2. Cardinality(S) = 0
  BY <1>1, Zenon DEF Counting, EmptyFact
<1>3. Cardinality(S \cup {x, y, z}) = Cardinality(S) + 3
  BY <1>a, ThreeMore, Zenon
<1>4. S \cup {x, y, z} = {x, y, z}
  BY <1>1, Zenon
<1>5. Cardinality({x, y, z}) = Cardinality(S) + 3
  BY <1>3, <1>4, Zenon
<1> QED
  BY ONLY <1>2, <1>5

(* alloc_desc() finds the lowest free descriptor, if there is one.         *)
LEMMA LeastDesc ==
  ASSUME Counting, NEW S \in SUBSET Descs, Cardinality(S) >= 1
  PROVE  /\ alloc_desc(S) \in S
         /\ IsFiniteSet(S \ {alloc_desc(S)})
         /\ Cardinality(S \ {alloc_desc(S)}) = Cardinality(S) - 1
<1>1. IsFiniteSet(S)
  BY Zenon DEF Counting, SubsetFact, DescsFact
<1>2. S # {}
  BY DEF Counting, EmptyFact
<1>3. S \in SUBSET Nat
  BY RingSize DEF Descs
<1>4. \E x \in S : \A y \in S : x <= y
  BY <1>2, <1>3, Zenon DEF Counting, LeastFact
<1>5. alloc_desc(S) \in S
  BY <1>4, Zenon DEF alloc_desc, Min
<1> QED
  BY <1>1, <1>5, Zenon DEF Counting, RemoveFact

(* alloc3_desc() takes three different descriptors from the free ones.     *)
LEMMA TakesThree ==
  ASSUME Counting, free \in SUBSET Descs, Cardinality(free) >= 3
  PROVE  /\ First \in free /\ Second \in free /\ Third \in free
         /\ First # Second /\ First # Third /\ Second # Third
         /\ Cardinality(free \ Taken) = Cardinality(free) - 3
<1> DEFINE F == free \ {First}
           G == F \ {Second}
<1>1. Cardinality(free) \in Nat
  BY Zenon DEF Counting, SubsetFact, DescsFact, NumberFact
<1>2. First \in free /\ Cardinality(F) = Cardinality(free) - 1
  <2>1. Cardinality(free) >= 1
    BY <1>1
  <2> QED
    BY <2>1, LeastDesc, Zenon DEF First
<1>3. Second \in F /\ Cardinality(G) = Cardinality(F) - 1
  <2>1. Cardinality(F) >= 1
    BY <1>1, <1>2
  <2>2. F \in SUBSET Descs
    BY Zenon
  <2> QED
    BY <2>1, <2>2, LeastDesc, Zenon DEF Second
<1>4. G = free \ {First, Second}
  BY Zenon
<1>5. Third \in G /\ Cardinality(G \ {Third}) = Cardinality(G) - 1
  <2>1. Cardinality(G) >= 1
    BY <1>1, <1>2, <1>3
  <2>2. G \in SUBSET Descs
    BY Zenon
  <2> QED
    BY <1>4, <2>1, <2>2, LeastDesc, Zenon DEF Third
<1>6. free \ Taken = G \ {Third}
  BY Zenon DEF Taken
<1>7. Cardinality(free \ Taken) = Cardinality(free) - 3
  <2>1. Cardinality(free \ Taken) = Cardinality(G) - 1
    BY <1>5, <1>6, Zenon
  <2> HIDE DEF F, G
  <2> QED
    BY ONLY <1>1, <1>2, <1>3, <2>1
<1> QED
  BY <1>2, <1>3, <1>5, <1>7, Zenon

-----------------------------------------------------------------------------
(* Every step preserves the invariant                                      *)

(* Every request in a ring or with the device is that of a buffer with     *)
(* b->disk = 1.                                                            *)
LEMMA Claimed ==
  ASSUME VInv
  PROVE  \A i \in Offered \cup Working \cup Reported :
           InFlight(i) /\ info[i] \in Waiting /\ i \in Chain(i) /\ i \notin free
<1>1. \A i \in Offered \cup Working \cup Reported : InFlight(i) /\ info[i] \in Waiting
  <2>1. \A w \in work : info[w.head] = w.buf /\ w.buf \in bdisk /\ head[w.buf] = w.head
    BY Zenon DEF VInv, FlightInv, ChainInv
  <2>2. \A i \in Working : InFlight(i)
    BY <2>1, Zenon DEF InFlight, Working
  <2>3. \A i \in Offered \cup Reported : InFlight(i)
    BY Zenon DEF VInv, FlightInv
  <2> QED
    BY <2>2, <2>3, Zenon DEF VInv, FlightInv, InFlight
<1> QED
  BY <1>1, Zenon DEF VInv, ChainInv, InFlight, Chain

(* The rings never hold more than the requests there are descriptors for.  *)
LEMMA Room ==
  ASSUME Counting, VInv
  PROVE  /\ Between(seen, availIdx) \in Nat /\ Between(used_idx, usedIdx) \in Nat
         /\ Cardinality(work) \in Nat /\ Cardinality(free) \in Nat /\ Cardinality(Waiting) \in Nat
         /\ Cardinality(bdisk) \in Nat /\ Cardinality(bdisk) <= Cardinality(Waiting)
         /\ IsFiniteSet(free) /\ IsFiniteSet(Waiting) /\ IsFiniteSet(bdisk)
         /\ Between(seen, availIdx) < NUM /\ Between(used_idx, usedIdx) < NUM
         /\ Cardinality(free) >= 3 => Between(seen, availIdx) + 1 < IdxMod
         /\ work # {} => Between(used_idx, usedIdx) + 1 < IdxMod
<1>1. IsFiniteSet(free) /\ IsFiniteSet(Waiting) /\ IsFiniteSet(bdisk) /\ IsFiniteSet(work)
  <2>1. Waiting \subseteq Procs /\ bdisk \subseteq Procs /\ free \subseteq Descs /\ IsFiniteSet(work)
    BY Zenon DEF VInv, TypeOK, Waiting, CountInv
  <2> QED
    BY <2>1, VirtioAssumption, Zenon DEF Counting, SubsetFact, DescsFact
<1>2. /\ Cardinality(work) \in Nat /\ Cardinality(free) \in Nat /\ Cardinality(Waiting) \in Nat
      /\ Cardinality(bdisk) \in Nat
  BY <1>1, Zenon DEF Counting, NumberFact
<1>3. Cardinality(bdisk) <= Cardinality(Waiting)
  BY <1>1, Zenon DEF VInv, FlightInv, Counting, SubsetFact
<1>4. Between(seen, availIdx) \in Nat /\ Between(used_idx, usedIdx) \in Nat
  <2>1. ASSUME NEW a \in Idx, NEW b \in Idx PROVE Between(a, b) \in Nat
    BY VirtioAssumption, Distance DEF Idx
  <2> QED
    BY <2>1, Zenon DEF VInv, TypeOK
<1>5. /\ Between(seen, availIdx) + Cardinality(work) + Between(used_idx, usedIdx)
           = Cardinality(bdisk)
      /\ Cardinality(free) + 3 * Cardinality(Waiting) = NUM
  BY Zenon DEF VInv, CountInv, ChainInv
<1>6. work # {} => Cardinality(work) >= 1
  <2>1. ASSUME work # {}, Cardinality(work) = 0 PROVE FALSE
    <3>1. PICK w \in work : TRUE
      BY <2>1, Zenon
    <3>2. IsFiniteSet(work \ {w}) /\ Cardinality(work \ {w}) = Cardinality(work) - 1
      BY <1>1, Zenon DEF Counting, RemoveFact
    <3>3. Cardinality(work \ {w}) \in Nat
      BY <3>2, Zenon DEF Counting, NumberFact
    <3> QED
      BY <2>1, <3>2, <3>3
  <2> QED
    BY <1>2, <2>1
<1>7. /\ Between(seen, availIdx) < NUM /\ Between(used_idx, usedIdx) < NUM
      /\ Cardinality(free) >= 3 => Between(seen, availIdx) + 1 < IdxMod
      /\ work # {} => Between(used_idx, usedIdx) + 1 < IdxMod
  BY ONLY <1>2, <1>3, <1>4, <1>5, <1>6, RingSize, VirtioAssumption
<1> QED
  BY <1>1, <1>2, <1>3, <1>4, <1>7, Zenon

(* The invariant says nothing about who sleeps and about the interrupt.    *)
LEMMA QuietInv ==
  ASSUME VInv, TypeOK',
         UNCHANGED <<free, link, info, rings, bdisk, seen, work, pc, head, moved>>
  PROVE  VInv'
<1>1. /\ free' = free /\ link' = link /\ info' = info /\ avail' = avail
      /\ availIdx' = availIdx /\ used' = used /\ usedIdx' = usedIdx /\ used_idx' = used_idx
      /\ bdisk' = bdisk /\ seen' = seen /\ work' = work /\ pc' = pc /\ head' = head
      /\ moved' = moved
  BY DEF rings
<1>2. Waiting' = Waiting /\ Offered' = Offered /\ Reported' = Reported /\ Working' = Working
  BY <1>1, Zenon DEF Waiting, Offered, Reported, Working
<1>3. ChainInv'
  BY <1>1, <1>2, Zenon DEF VInv, ChainInv, Chain
<1>4. FlightInv'
  BY <1>1, <1>2, Zenon DEF VInv, FlightInv, InFlight
<1>5. CountInv'
  BY <1>1, Zenon DEF VInv, CountInv
<1> QED
  BY <1>3, <1>4, <1>5, Zenon DEF VInv

(* A process calls virtio_disk_rw().                                       *)
LEMMA CallInv ==
  ASSUME VInv, NEW p \in Procs, Call(p)
  PROVE  VInv'
<1>1. /\ free' = free /\ link' = link /\ info' = info /\ avail' = avail
      /\ availIdx' = availIdx /\ used' = used /\ usedIdx' = usedIdx /\ used_idx' = used_idx
      /\ bdisk' = bdisk /\ seen' = seen /\ work' = work /\ irq' = irq /\ intr' = intr
      /\ asleep' = asleep /\ head' = head
  BY DEF Call, rings, device
<1>2. pc[p] = "idle" /\ pc' = [pc EXCEPT ![p] = "alloc"] /\ moved' = moved \ {p}
  BY Zenon DEF Call, Go
<1>3. TypeOK'
  BY <1>1, <1>2, Zenon DEF VInv, TypeOK
<1>4. Waiting' = Waiting /\ p \notin Waiting /\ \A q \in Procs : pc'[q] # "panic"
  BY <1>2, Zenon DEF VInv, TypeOK, ChainInv, Waiting
<1>5. Offered' = Offered /\ Reported' = Reported /\ Working' = Working
  BY <1>1, Zenon DEF Offered, Reported, Working
<1>6. ChainInv'
  <2>1. \A h : Chain(h)' = Chain(h)
    BY <1>1, Zenon DEF Chain
  <2>2. ChainInv
    BY Zenon DEF VInv
  <2> QED
    BY ONLY <1>1, <1>4, <2>1, <2>2, Zenon DEF ChainInv
<1>7. \A i \in Reported : info[i] # p
  BY <1>4, Claimed, Zenon
<1>8. FlightInv'
  BY <1>1, <1>2, <1>4, <1>5, <1>7, Zenon DEF VInv, FlightInv, InFlight
<1>9. CountInv'
  BY <1>1, Zenon DEF VInv, CountInv
<1> QED
  BY <1>3, <1>6, <1>8, <1>9, Zenon DEF VInv

(* The device fetches a chain from the avail ring.                         *)
LEMMA FetchInv ==
  ASSUME Counting, VInv, Fetch
  PROVE  VInv'
<1> DEFINE i == avail[seen % NUM]
           w == [head |-> i, buf |-> info[i]]
<1>1. /\ free' = free /\ link' = link /\ info' = info /\ used' = used
      /\ availIdx' = availIdx /\ usedIdx' = usedIdx /\ used_idx' = used_idx
      /\ bdisk' = bdisk /\ irq' = irq /\ intr' = intr /\ pc' = pc
      /\ asleep' = asleep /\ head' = head /\ moved' = moved
      /\ seen # availIdx /\ seen' = (seen + 1) % IdxMod /\ work' = work \cup {w}
      /\ avail' = [avail EXCEPT ![seen % NUM] = 0]
  BY Zenon DEF Fetch
<1>2. /\ avail \in [Descs -> Descs] /\ seen \in Idx /\ availIdx \in Idx
      /\ Once(avail, seen, availIdx)
  BY Zenon DEF VInv, TypeOK, FlightInv
<1>3. Between(seen, availIdx) <= NUM
  <2>1. Between(seen, availIdx) \in Nat /\ Between(seen, availIdx) < NUM
    BY Room, Zenon
  <2> QED
    BY ONLY <2>1, RingSize
<1>4. i \in Offered /\ Offered' = Offered \ {i} /\ Once(avail', seen', availIdx')
  BY <1>1, <1>2, <1>3, RingPop, Zenon DEF Offered
<1>5. /\ Between(seen, availIdx) \in Nat \ {0}
      /\ Between(seen', availIdx') = Between(seen, availIdx) - 1
  BY <1>1, <1>2, WinShrinks, Zenon
<1>6. InFlight(i) /\ i \in Descs /\ info[i] \in bdisk /\ info[i] \in Procs
  <2>1. seen % NUM \in Descs
    BY <1>2, Slot, Zenon
  <2> QED
    BY <1>2, <1>4, <2>1, Claimed, Zenon DEF InFlight, VInv, TypeOK
<1>7. w.head = i /\ w.buf = info[i] /\ w \in [head : Descs, buf : Procs]
  BY <1>6, Zenon
<1>8. Waiting' = Waiting /\ Reported' = Reported /\ Working' = Working \cup {i}
  BY <1>1, <1>7, Zenon DEF Waiting, Reported, Working
<1>9. w \notin work
  BY <1>4, <1>7, Zenon DEF VInv, FlightInv, Working
<1> HIDE DEF i, w
<1>10. TypeOK'
  <2>1. seen' \in Idx
    BY <1>1, <1>2, Increment, Zenon
  <2>2. avail' \in [Descs -> Descs]
    <3>1. 0 \in Descs
      BY RingSize DEF Descs
    <3> QED
      BY <1>1, <1>2, <3>1, Zenon
  <2>3. work' \subseteq [head : Descs, buf : Procs]
    BY <1>1, <1>7, Zenon DEF VInv, TypeOK
  <2> QED
    BY <1>1, <2>1, <2>2, <2>3, Zenon DEF VInv, TypeOK
<1>11. ChainInv'
  BY <1>1, <1>8, Zenon DEF VInv, ChainInv, Chain
<1>12. FlightInv'
  <2>1. \A x \in work' : x.buf \in bdisk /\ head[x.buf] = x.head
    BY <1>1, <1>6, <1>7, Zenon DEF VInv, FlightInv, InFlight
  <2>2. \A j \in Offered' \cup Reported' : InFlight(j)'
    BY <1>1, <1>4, <1>8, Zenon DEF VInv, FlightInv, InFlight
  <2>3. /\ Offered' \cap Working' = {} /\ Offered' \cap Reported' = {}
        /\ Working' \cap Reported' = {}
    BY <1>4, <1>8, Zenon DEF VInv, FlightInv
  <2> QED
    BY <1>1, <1>4, <1>8, <2>1, <2>2, <2>3, Zenon DEF VInv, FlightInv
<1>13. CountInv'
  <2>1. IsFiniteSet(work') /\ Cardinality(work') = Cardinality(work) + 1
    BY <1>1, <1>9, Zenon DEF VInv, CountInv, Counting, AddFact
  <2>2. /\ Between(seen, availIdx) + Cardinality(work) + Between(used_idx, usedIdx)
             = Cardinality(bdisk)
        /\ Between(used_idx, usedIdx)' = Between(used_idx, usedIdx)
        /\ Cardinality(bdisk') = Cardinality(bdisk)
    BY <1>1, Zenon DEF VInv, CountInv
  <2>3. Cardinality(work) \in Nat /\ Between(used_idx, usedIdx) \in Nat
    BY Room, Zenon
  <2>4. Between(seen', availIdx') + Cardinality(work') + Between(used_idx, usedIdx)
          = Cardinality(bdisk)
    BY ONLY <1>5, <2>1, <2>2, <2>3
  <2> QED
    BY <2>1, <2>2, <2>4, Zenon DEF CountInv
<1> QED
  BY <1>10, <1>11, <1>12, <1>13, Zenon DEF VInv

(* The device has transferred the data of a chain and reports it.          *)
LEMMA CompleteInv ==
  ASSUME Counting, VInv, NEW w \in work, Complete(w)
  PROVE  VInv'
<1>1. /\ free' = free /\ link' = link /\ info' = info /\ avail' = avail
      /\ availIdx' = availIdx /\ used_idx' = used_idx /\ bdisk' = bdisk /\ seen' = seen
      /\ intr' = intr /\ pc' = pc /\ asleep' = asleep /\ head' = head
      /\ irq' = TRUE /\ work' = work \ {w} /\ moved' = moved \cup {w.buf}
      /\ usedIdx' = (usedIdx + 1) % IdxMod /\ used' = [used EXCEPT ![usedIdx % NUM] = w.head]
  BY DEF Complete
<1>2. /\ used \in [Descs -> Descs] /\ used_idx \in Idx /\ usedIdx \in Idx
      /\ Once(used, used_idx, usedIdx)
  BY Zenon DEF VInv, TypeOK, FlightInv
<1>3. w.head \in Descs /\ w.buf \in Procs
  <2>1. w \in [head : Descs, buf : Procs]
    BY Zenon DEF VInv, TypeOK
  <2> QED
    BY ONLY <2>1
<1>4. w.head \in Working /\ w.head \notin Reported /\ w.head \notin Offered
  BY Zenon DEF VInv, FlightInv, Working
<1>5. Between(used_idx, usedIdx) < NUM /\ Between(used_idx, usedIdx) + 1 < IdxMod
  BY Room, Zenon
<1>6. Reported' = Reported \cup {w.head} /\ Once(used', used_idx', usedIdx')
  <2> DEFINE h == w.head
  <2>1. h \in Descs /\ h \notin Entries(used, used_idx, usedIdx)
        /\ used' = [used EXCEPT ![usedIdx % NUM] = h]
    BY <1>1, <1>3, <1>4, Zenon DEF Reported
  <2> HIDE DEF h
  <2> DEFINE r == [used EXCEPT ![usedIdx % NUM] = h]
             c == (usedIdx + 1) % IdxMod
  <2>2. CanPush(used, used_idx, usedIdx, h)
    BY <1>2, <1>5, <2>1, Zenon DEF CanPush
  <2>3. Entries(r, used_idx, c) = Entries(used, used_idx, usedIdx) \cup {h} /\ Once(r, used_idx, c)
    BY <2>2, RingPush, Zenon
  <2> QED
    BY <1>1, <2>1, <2>3, Zenon DEF Reported, h
<1>7. Between(used_idx', usedIdx') = Between(used_idx, usedIdx) + 1
  BY <1>1, <1>2, <1>5, WinGrows, Zenon
<1>8. InFlight(w.head) /\ info[w.head] = w.buf /\ w.buf \in bdisk
  <2>1. info[w.head] = w.buf /\ w.buf \in bdisk /\ head[w.buf] = w.head
    BY Zenon DEF VInv, FlightInv, ChainInv
  <2> QED
    BY <2>1, Zenon DEF InFlight
<1>9. Waiting' = Waiting /\ Offered' = Offered
  BY <1>1, Zenon DEF Waiting, Offered
<1>10. Working' = Working \ {w.head}
  <2>1. ASSUME NEW x \in work, x.head = w.head PROVE x = w
    <3>a. \A y \in work : info[y.head] = y.buf
      BY Zenon DEF VInv, FlightInv, ChainInv
    <3>1. x.buf = w.buf
      BY <2>1, <3>a, Zenon
    <3>2. x \in [head : Descs, buf : Procs] /\ w \in [head : Descs, buf : Procs]
      BY Zenon DEF VInv, TypeOK
    <3>3. x = [head |-> x.head, buf |-> x.buf] /\ w = [head |-> w.head, buf |-> w.buf]
      BY ONLY <3>2
    <3> QED
      BY <2>1, <3>1, <3>3, Zenon
  <2> QED
    BY <1>1, <2>1, Zenon DEF Working
<1>11. TypeOK'
  <2>1. usedIdx' \in Idx
    BY <1>1, <1>2, Increment, Zenon
  <2>2. used' \in [Descs -> Descs]
    BY <1>1, <1>2, <1>3, Zenon
  <2>3. work' \subseteq [head : Descs, buf : Procs]
    BY <1>1, Zenon DEF VInv, TypeOK
  <2> QED
    BY <1>1, <1>3, <2>1, <2>2, <2>3, Zenon DEF VInv, TypeOK
<1>12. ChainInv'
  BY <1>1, <1>9, Zenon DEF VInv, ChainInv, Chain
<1>13. FlightInv'
  <2>1. \A x \in work' : x.buf \in bdisk /\ head[x.buf] = x.head
    BY <1>1, Zenon DEF VInv, FlightInv
  <2>2. \A j \in Offered' \cup Reported' : InFlight(j)'
    BY <1>1, <1>6, <1>8, <1>9, Zenon DEF VInv, FlightInv, InFlight
  <2>3. /\ Offered' \cap Working' = {} /\ Offered' \cap Reported' = {}
        /\ Working' \cap Reported' = {}
    BY <1>4, <1>6, <1>9, <1>10, Zenon DEF VInv, FlightInv
  <2>4. \A j \in Reported' : info[j] \in moved'
    BY <1>1, <1>6, <1>8, Zenon DEF VInv, FlightInv
  <2> QED
    BY <1>1, <1>6, <1>9, <2>1, <2>2, <2>3, <2>4, Zenon DEF VInv, FlightInv
<1>14. CountInv'
  <2>1. IsFiniteSet(work') /\ Cardinality(work') = Cardinality(work) - 1
    BY <1>1, Zenon DEF VInv, CountInv, Counting, RemoveFact
  <2>2. /\ Between(seen, availIdx) + Cardinality(work) + Between(used_idx, usedIdx)
             = Cardinality(bdisk)
        /\ Between(seen, availIdx)' = Between(seen, availIdx)
        /\ Cardinality(bdisk') = Cardinality(bdisk)
    BY <1>1, Zenon DEF VInv, CountInv
  <2>3. /\ Cardinality(work) \in Nat /\ Between(used_idx, usedIdx) \in Nat
        /\ Between(seen, availIdx) \in Nat
    BY Room, Zenon
  <2>4. Between(seen, availIdx) + Cardinality(work') + Between(used_idx', usedIdx')
          = Cardinality(bdisk)
    BY ONLY <1>7, <2>1, <2>2, <2>3
  <2> QED
    BY <2>1, <2>2, <2>4, Zenon DEF CountInv
<1> QED
  BY <1>11, <1>12, <1>13, <1>14, Zenon DEF VInv

(* virtio_disk_intr() takes an entry from the used ring.                   *)
LEMMA IntrOneInv ==
  ASSUME Counting, VInv, IntrOne
  PROVE  VInv'
<1> DEFINE i == used[used_idx % NUM]
           p == info[i]
<1>1. /\ free' = free /\ link' = link /\ info' = info /\ avail' = avail
      /\ availIdx' = availIdx /\ usedIdx' = usedIdx /\ seen' = seen /\ work' = work
      /\ irq' = irq /\ intr' = intr /\ pc' = pc /\ head' = head /\ moved' = moved
      /\ used_idx # usedIdx /\ bdisk' = bdisk \ {p}
      /\ asleep' = {q \in asleep : ~(q = p /\ pc[q] = "wait")}
      /\ used' = [used EXCEPT ![used_idx % NUM] = 0] /\ used_idx' = (used_idx + 1) % IdxMod
  BY Zenon DEF IntrOne, MoreUsed, UsedAdvances, device
<1>2. /\ used \in [Descs -> Descs] /\ used_idx \in Idx /\ usedIdx \in Idx
      /\ Once(used, used_idx, usedIdx)
  BY Zenon DEF VInv, TypeOK, FlightInv
<1>3. Between(used_idx, usedIdx) <= NUM
  <2>1. Between(used_idx, usedIdx) \in Nat /\ Between(used_idx, usedIdx) < NUM
    BY Room, Zenon
  <2> QED
    BY ONLY <2>1, RingSize
<1>4. i \in Reported /\ Reported' = Reported \ {i} /\ Once(used', used_idx', usedIdx')
  BY <1>1, <1>2, <1>3, RingPop, Zenon DEF Reported
<1>5. /\ Between(used_idx, usedIdx) \in Nat \ {0}
      /\ Between(used_idx', usedIdx') = Between(used_idx, usedIdx) - 1
  BY <1>1, <1>2, WinShrinks, Zenon
<1>6. p \in bdisk /\ head[p] = i /\ p \in moved
  <2>1. InFlight(i) /\ info[i] \in moved
    BY <1>4, Claimed, Zenon DEF VInv, FlightInv
  <2> QED
    BY <2>1, Zenon DEF InFlight
<1> HIDE DEF i, p
<1>7. Waiting' = Waiting /\ Offered' = Offered /\ Working' = Working
  BY <1>1, Zenon DEF Waiting, Offered, Working
<1>8. TypeOK'
  <2>1. used_idx' \in Idx
    BY <1>1, <1>2, Increment, Zenon
  <2>2. used' \in [Descs -> Descs]
    <3>1. 0 \in Descs
      BY RingSize DEF Descs
    <3> QED
      BY <1>1, <1>2, <3>1, Zenon
  <2>3. asleep' \subseteq Procs /\ bdisk' \subseteq Procs
    BY <1>1, Zenon DEF VInv, TypeOK
  <2> QED
    BY <1>1, <2>1, <2>2, <2>3, Zenon DEF VInv, TypeOK
<1>9. ChainInv'
  BY <1>1, <1>7, Zenon DEF VInv, ChainInv, Chain
<1>10. FlightInv'
  <2>1. \A j \in Offered \cup Working \cup Reported : j # i => info[j] # p /\ InFlight(j)
    BY <1>6, Claimed, Zenon DEF InFlight
  <2>2. \A w \in work : w.buf \in bdisk' /\ head[w.buf] = w.head
    <3>1. ASSUME NEW w \in work PROVE w.buf # p
      <4>1. w.head \in Working /\ head[w.buf] = w.head
        BY Zenon DEF Working, VInv, FlightInv
      <4>2. w.head # i
        BY <1>4, <4>1, Zenon DEF VInv, FlightInv
      <4> QED
        BY <1>6, <4>1, <4>2, Zenon
    <3> QED
      BY <1>1, <3>1, Zenon DEF VInv, FlightInv
  <2>3. \A j \in Offered' \cup Reported' : InFlight(j)'
    <3>1. i \notin Offered
      BY <1>4, Zenon DEF VInv, FlightInv
    <3> QED
      BY <1>1, <1>4, <1>7, <2>1, <3>1, Zenon DEF InFlight
  <2>4. /\ Offered' \cap Working' = {} /\ Offered' \cap Reported' = {}
        /\ Working' \cap Reported' = {}
    BY <1>4, <1>7, Zenon DEF VInv, FlightInv
  <2> QED
    BY <1>1, <1>4, <1>6, <1>7, <2>2, <2>3, <2>4, Zenon DEF VInv, FlightInv
<1>11. CountInv'
  <2>1. Cardinality(bdisk') = Cardinality(bdisk) - 1
    BY <1>1, <1>6, Room, Zenon DEF Counting, RemoveFact
  <2>2. /\ Between(seen, availIdx) + Cardinality(work) + Between(used_idx, usedIdx)
             = Cardinality(bdisk)
        /\ Between(seen, availIdx)' = Between(seen, availIdx) /\ IsFiniteSet(work')
        /\ Cardinality(work') = Cardinality(work)
    BY <1>1, Zenon DEF VInv, CountInv
  <2>3. /\ Cardinality(work) \in Nat /\ Cardinality(bdisk) \in Nat
        /\ Between(seen, availIdx) \in Nat
    BY Room, Zenon
  <2>4. Between(seen, availIdx) + Cardinality(work) + Between(used_idx', usedIdx')
          = Cardinality(bdisk')
    BY ONLY <1>5, <2>1, <2>2, <2>3
  <2> QED
    BY <2>2, <2>4, Zenon DEF CountInv
<1> QED
  BY <1>8, <1>9, <1>10, <1>11, Zenon DEF VInv

(* virtio_disk_rw() submits a request.                                     *)
LEMMA SubmitInv ==
  ASSUME Counting, VInv, NEW p \in Procs, Submit(p)
  PROVE  VInv'
<1>a. PICK f, s, t : f = First /\ s = Second /\ t = Third
  BY Zenon
<1>1. /\ used' = used /\ usedIdx' = usedIdx /\ used_idx' = used_idx /\ seen' = seen
      /\ work' = work /\ irq' = irq /\ intr' = intr /\ moved' = moved
      /\ pc[p] = "alloc" /\ pc' = [pc EXCEPT ![p] = "wait"] /\ Cardinality(free) >= 3
      /\ free' = free \ {f, s, t} /\ bdisk' = bdisk \cup {p}
      /\ link' = [link EXCEPT ![f] = s, ![s] = t, ![t] = t]
      /\ info' = [info EXCEPT ![f] = p] /\ head' = [head EXCEPT ![p] = f]
      /\ avail' = [avail EXCEPT ![availIdx % NUM] = f] /\ availIdx' = (availIdx + 1) % IdxMod
      /\ asleep' = asleep \cup {p}
  BY <1>a, Zenon DEF Submit, Go, device, AvailAdvances, Taken
<1>2. /\ f \in free /\ s \in free /\ t \in free /\ f # s /\ f # t /\ s # t
      /\ Cardinality(free') = Cardinality(free) - 3
  <2>1. free \in SUBSET Descs /\ free' = free \ Taken
    BY Zenon DEF VInv, TypeOK, Submit
  <2> QED
    BY <1>a, <1>1, <2>1, TakesThree, Zenon
<1>3. /\ f \in Descs /\ s \in Descs /\ t \in Descs /\ link \in [Descs -> Descs]
      /\ info \in [Descs -> Procs \cup {NoProc}] /\ head \in [Procs -> Descs]
      /\ avail \in [Descs -> Descs] /\ availIdx \in Idx /\ seen \in Idx
      /\ pc \in [Procs -> {"idle", "alloc", "wait", "panic"}]
  BY <1>2, Zenon DEF VInv, TypeOK
<1>4. Waiting' = Waiting \cup {p} /\ p \notin Waiting
  BY <1>1, <1>3, Zenon DEF Waiting
<1>5. /\ link'[f] = s /\ link'[s] = t /\ link'[t] = t
      /\ \A x \in Descs : x \notin {f, s, t} => link'[x] = link[x]
  BY <1>1, <1>2, <1>3, Zenon
<1>6. /\ info'[f] = p /\ \A x \in Descs : x # f => info'[x] = info[x]
      /\ head'[p] = f /\ \A q \in Procs : q # p => head'[q] = head[q]
  BY <1>1, <1>3, Zenon
<1>7. ASSUME NEW q \in Waiting
      PROVE  /\ q # p /\ head'[q] = head[q] /\ head[q] \in Descs
             /\ link'[head[q]] = link[head[q]] /\ link'[link[head[q]]] = link[link[head[q]]]
             /\ f \notin Chain(head[q]) /\ s \notin Chain(head[q]) /\ t \notin Chain(head[q])
  <2>1. q \in Procs /\ q # p
    BY <1>4, Zenon DEF Waiting
  <2>2. Chain(head[q]) \cap free = {}
    BY Zenon DEF VInv, ChainInv
  <2>3. head[q] \in Descs /\ link[head[q]] \in Descs
    BY <1>3, <2>1, Zenon
  <2>4. head[q] \notin {f, s, t} /\ link[head[q]] \notin {f, s, t}
    BY <1>2, <2>2, Zenon DEF Chain
  <2> QED
    BY <1>2, <1>5, <1>6, <2>1, <2>2, <2>3, <2>4, Zenon
<1>8. ASSUME NEW q \in Waiting PROVE Chain(head[q])' = Chain(head[q])
  BY <1>7, Zenon DEF Chain
<1>9. Chain(head[p])' = {f, s, t}
  BY <1>5, <1>6, Zenon DEF Chain
<1>10. TypeOK'
  <2>1. availIdx' \in Idx
    BY <1>1, <1>3, Increment, Zenon
  <2>2. link' \in [Descs -> Descs]
    BY <1>1, <1>3, Zenon
  <2>3. /\ info' \in [Descs -> Procs \cup {NoProc}] /\ head' \in [Procs -> Descs]
        /\ avail' \in [Descs -> Descs] /\ pc' \in [Procs -> {"idle", "alloc", "wait", "panic"}]
    BY <1>1, <1>3, Zenon
  <2>4. free' \subseteq Descs /\ bdisk' \subseteq Procs /\ asleep' \subseteq Procs
    BY <1>1, Zenon DEF VInv, TypeOK
  <2> QED
    BY <1>1, <2>1, <2>2, <2>3, <2>4, Zenon DEF VInv, TypeOK
<1>11. ChainInv'
  <2>1. \A q \in Procs : pc'[q] # "panic"
    BY <1>1, <1>3, Zenon DEF VInv, ChainInv
  <2>2. ASSUME NEW q \in Waiting'
        PROVE  LET h == head'[q] IN
               /\ h # link'[h] /\ h # link'[link'[h]] /\ link'[h] # link'[link'[h]]
               /\ Chain(head[q])' \cap free' = {} /\ info'[h] = q
    <3>1. CASE q = p
      BY <1>1, <1>2, <1>5, <1>6, <1>9, <3>1, Zenon
    <3>2. CASE q \in Waiting
      <4>1. head[q] # f /\ Chain(head[q]) \cap free = {} /\ info[head[q]] = q
        BY <1>7, <3>2, Zenon DEF Chain, VInv, ChainInv
      <4>2. info'[head'[q]] = q
        BY <1>6, <1>7, <3>2, <4>1, Zenon
      <4>3. Chain(head[q])' \cap free' = {}
        BY <1>1, <1>8, <3>2, <4>1, Zenon
      <4>4. LET h == head[q] IN h # link[h] /\ h # link[link[h]] /\ link[h] # link[link[h]]
        BY <3>2, Zenon DEF VInv, ChainInv
      <4> QED
        BY <1>7, <3>2, <4>2, <4>3, <4>4, Zenon
    <3> QED
      BY <1>4, <3>1, <3>2, Zenon
  <2>3. ASSUME NEW q \in Waiting', NEW r \in Waiting', q # r
        PROVE  Chain(head[q])' \cap Chain(head[r])' = {}
    <3>1. CASE q \in Waiting /\ r \in Waiting
      <4>1. Chain(head[q]) \cap Chain(head[r]) = {}
        BY <2>3, <3>1, Zenon DEF VInv, ChainInv
      <4> QED
        BY <1>8, <3>1, <4>1, Zenon
    <3>2. CASE q = p /\ r \in Waiting
      BY <1>7, <1>8, <1>9, <3>2, Zenon
    <3>3. CASE r = p /\ q \in Waiting
      BY <1>7, <1>8, <1>9, <3>3, Zenon
    <3> QED
      BY <1>4, <2>3, <3>1, <3>2, <3>3, Zenon
  <2>4. Cardinality(free') + 3 * Cardinality(Waiting') = NUM
    <3>1. /\ Cardinality(free) + 3 * Cardinality(Waiting) = NUM
          /\ Cardinality(free) \in Nat /\ Cardinality(Waiting) \in Nat /\ IsFiniteSet(Waiting)
      BY Room, Zenon DEF VInv, ChainInv
    <3>2. Cardinality(Waiting') = Cardinality(Waiting) + 1
      BY <1>4, <3>1, Zenon DEF Counting, AddFact
    <3> QED
      BY ONLY <1>2, <3>1, <3>2
  <2> QED
    BY <2>1, <2>2, <2>3, <2>4, Zenon DEF ChainInv
<1>12. f \notin Offered /\ f \notin Working /\ f \notin Reported
  BY <1>2, Claimed, Zenon
<1>13. CanPush(avail, seen, availIdx, f)
  <2>1. Between(seen, availIdx) < NUM /\ Between(seen, availIdx) + 1 < IdxMod
    BY <1>1, Room, Zenon
  <2> QED
    BY <1>3, <1>12, <2>1, Zenon DEF CanPush, VInv, FlightInv, Offered
<1>14. Offered' = Offered \cup {f} /\ Once(avail', seen', availIdx')
  <2>1. /\ Entries([avail EXCEPT ![availIdx % NUM] = f], seen, (availIdx + 1) % IdxMod)
             = Entries(avail, seen, availIdx) \cup {f}
        /\ Once([avail EXCEPT ![availIdx % NUM] = f], seen, (availIdx + 1) % IdxMod)
    BY <1>13, RingPush, Zenon
  <2>2. seen' = seen /\ avail' = [avail EXCEPT ![availIdx % NUM] = f] /\ availIdx' = (availIdx + 1) % IdxMod
    BY <1>1, Zenon
  <2> QED
    BY <2>1, <2>2, Zenon DEF Offered
<1>15. Reported' = Reported /\ Working' = Working
  BY <1>1, Zenon DEF Reported, Working
<1>16. FlightInv'
  <2>1. bdisk' \subseteq Waiting'
    BY <1>1, <1>4, Zenon DEF VInv, FlightInv
  <2>2. \A w \in work' : w.buf \in bdisk' /\ head'[w.buf] = w.head
    BY <1>1, <1>7, Zenon DEF VInv, FlightInv
  <2>a. bdisk' = bdisk \cup {p} /\ moved' = moved
    BY <1>1, Zenon
  <2>3. ASSUME NEW i \in Offered \cup Reported PROVE info'[i] = info[i] /\ InFlight(i)'
    <3>1. InFlight(i) /\ info[i] \in Waiting
      BY Claimed, Zenon
    <3>2. i # f /\ i \in Descs /\ head'[info[i]] = i
      BY <1>7, <1>12, <3>1, Zenon DEF InFlight
    <3> QED
      BY <2>a, <1>6, <3>1, <3>2, Zenon DEF InFlight
  <2>4. InFlight(f)'
    BY <2>a, <1>6, Zenon DEF InFlight
  <2>5. \A i \in Offered' \cup Reported' : InFlight(i)'
    BY <1>14, <1>15, <2>3, <2>4, Zenon
  <2>6. /\ Offered' \cap Working' = {} /\ Offered' \cap Reported' = {}
        /\ Working' \cap Reported' = {}
    BY <1>12, <1>14, <1>15, Zenon DEF VInv, FlightInv
  <2>7. \A i \in Reported' : info'[i] \in moved'
    <3>1. \A i \in Reported : info[i] \in moved
      BY Zenon DEF VInv, FlightInv
    <3> QED
      BY <1>15, <2>a, <2>3, <3>1, Zenon
  <2>8. Waiting' \ bdisk' \subseteq moved'
    BY <1>1, <1>4, Zenon DEF VInv, FlightInv
  <2>9. Once(used', used_idx', usedIdx')
    BY <1>1, Zenon DEF VInv, FlightInv
  <2> QED
    BY <1>14, <2>1, <2>2, <2>5, <2>6, <2>7, <2>8, <2>9, Zenon DEF FlightInv
<1>17. CountInv'
  <2>1. /\ Between(seen, availIdx) \in Nat
        /\ Between(seen', availIdx') = Between(seen, availIdx) + 1
    BY <1>1, <1>13, WinGrows, Zenon DEF CanPush
  <2>2. Cardinality(bdisk') = Cardinality(bdisk) + 1
    <3>1. p \notin bdisk
      BY <1>4, Zenon DEF VInv, FlightInv
    <3> QED
      BY <1>1, <3>1, Room, Zenon DEF Counting, AddFact
  <2>3. /\ Between(seen, availIdx) + Cardinality(work) + Between(used_idx, usedIdx)
             = Cardinality(bdisk)
        /\ Between(used_idx, usedIdx)' = Between(used_idx, usedIdx) /\ IsFiniteSet(work')
        /\ Cardinality(work') = Cardinality(work)
    BY <1>1, Zenon DEF VInv, CountInv
  <2>4. /\ Cardinality(work) \in Nat /\ Cardinality(bdisk) \in Nat
        /\ Between(used_idx, usedIdx) \in Nat
    BY Room, Zenon
  <2>5. Between(seen', availIdx') + Cardinality(work) + Between(used_idx, usedIdx)
          = Cardinality(bdisk')
    BY ONLY <2>1, <2>2, <2>3, <2>4
  <2> QED
    BY <2>3, <2>5, Zenon DEF CountInv
<1> QED
  BY <1>10, <1>11, <1>16, <1>17, Zenon DEF VInv

(* virtio_disk_rw() frees its chain and returns.                           *)
LEMMA ReturnInv ==
  ASSUME Counting, VInv, NEW p \in Procs, Return(p)
  PROVE  VInv'
<1>a. PICK h, l, m : h = head[p] /\ l = link[h] /\ m = link[link[h]]
  BY Zenon
<1>b. Chain(head[p]) = {h, l, m}
  BY <1>a, Zenon DEF Chain
<1>1. /\ avail' = avail /\ availIdx' = availIdx /\ used' = used /\ usedIdx' = usedIdx
      /\ used_idx' = used_idx /\ seen' = seen /\ work' = work /\ irq' = irq
      /\ intr' = intr /\ bdisk' = bdisk /\ moved' = moved
      /\ pc[p] = "wait" /\ p \notin bdisk
      /\ free' = free \cup {h, l, m} /\ link' = [i \in Descs |-> IF i \in {h, l, m} THEN i ELSE link[i]]
      /\ info' = [info EXCEPT ![h] = NoProc] /\ head' = [head EXCEPT ![p] = 0]
      /\ asleep' = asleep \ AllocSleepers
  BY <1>a, <1>b, Zenon DEF Return, Finished, Freed, free_desc, rings, device
<1>2. /\ h # l /\ h # m /\ l # m /\ h \notin free /\ l \notin free /\ m \notin free
      /\ p \in Waiting
  <2>1. p \in Waiting
    BY <1>1, Zenon DEF Waiting
  <2>2. /\ head[p] # link[head[p]] /\ head[p] # link[link[head[p]]]
        /\ link[head[p]] # link[link[head[p]]] /\ Chain(head[p]) \cap free = {}
    BY <2>1, Zenon DEF VInv, ChainInv
  <2> QED
    BY <1>a, <1>b, <2>1, <2>2, Zenon
<1>3. pc' = [pc EXCEPT ![p] = "idle"]
  <2>1. Freed(p) \cap free = {}
    BY <1>b, <1>2, Zenon DEF Freed
  <2> QED
    BY <2>1, Zenon DEF Return, Go
<1>4. /\ h \in Descs /\ l \in Descs /\ m \in Descs /\ link \in [Descs -> Descs]
      /\ info \in [Descs -> Procs \cup {NoProc}] /\ head \in [Procs -> Descs]
      /\ pc \in [Procs -> {"idle", "alloc", "wait", "panic"}]
  <2>1. /\ link \in [Descs -> Descs] /\ head \in [Procs -> Descs]
        /\ info \in [Descs -> Procs \cup {NoProc}]
        /\ pc \in [Procs -> {"idle", "alloc", "wait", "panic"}]
    BY Zenon DEF VInv, TypeOK
  <2> QED
    BY <1>a, <2>1, Zenon
<1>5. Waiting' = Waiting \ {p}
  BY <1>3, <1>4, Zenon DEF Waiting
<1>6. /\ \A x \in Descs : x \notin {h, l, m} => link'[x] = link[x]
      /\ \A x \in Descs : x # h => info'[x] = info[x]
      /\ \A q \in Procs : q # p => head'[q] = head[q]
  <2>1. \A x \in Descs : x \notin {h, l, m} => link'[x] = link[x]
    BY <1>1, Zenon
  <2>2. info' = [info EXCEPT ![h] = NoProc] /\ head' = [head EXCEPT ![p] = 0]
    BY <1>1, Zenon
  <2> QED
    BY <1>4, <2>1, <2>2, Zenon
<1>7. ASSUME NEW q \in Waiting, q # p
      PROVE  /\ head'[q] = head[q] /\ head[q] \in Descs
             /\ link'[head[q]] = link[head[q]] /\ link'[link[head[q]]] = link[link[head[q]]]
             /\ h \notin Chain(head[q]) /\ l \notin Chain(head[q]) /\ m \notin Chain(head[q])
  <2>1. q \in Procs
    BY Zenon DEF Waiting
  <2>2. Chain(head[q]) \cap {h, l, m} = {}
    BY <1>b, <1>2, <1>7, Zenon DEF VInv, ChainInv
  <2>3. head[q] \in Descs /\ link[head[q]] \in Descs
    BY <1>4, <2>1, Zenon
  <2>4. head[q] \notin {h, l, m} /\ link[head[q]] \notin {h, l, m}
    BY <2>2, Zenon DEF Chain
  <2> QED
    BY <1>6, <1>7, <2>1, <2>2, <2>3, <2>4, Zenon
<1>8. ASSUME NEW q \in Waiting, q # p PROVE Chain(head[q])' = Chain(head[q])
  BY <1>7, <1>8, Zenon DEF Chain
<1>9. TypeOK'
  <2>1. link' \in [Descs -> Descs]
    BY <1>1, <1>4, Zenon
  <2>2. /\ info' \in [Descs -> Procs \cup {NoProc}] /\ head' \in [Procs -> Descs]
        /\ pc' \in [Procs -> {"idle", "alloc", "wait", "panic"}]
    <3>1. 0 \in Descs
      BY RingSize DEF Descs
    <3> QED
      BY <1>1, <1>3, <1>4, <3>1, Zenon
  <2>3. free' \subseteq Descs /\ asleep' \subseteq Procs
    BY <1>1, <1>4, Zenon DEF VInv, TypeOK
  <2> QED
    BY <1>1, <2>1, <2>2, <2>3, Zenon DEF VInv, TypeOK
<1>10. ChainInv'
  <2>1. \A q \in Procs : pc'[q] # "panic"
    BY <1>3, <1>4, Zenon DEF VInv, ChainInv
  <2>2. ASSUME NEW q \in Waiting'
        PROVE  /\ head'[q] # link'[head'[q]] /\ head'[q] # link'[link'[head'[q]]]
               /\ link'[head'[q]] # link'[link'[head'[q]]]
               /\ Chain(head[q])' \cap free' = {} /\ info'[head'[q]] = q
    <3>1. q \in Waiting /\ q # p
      BY <1>5, Zenon
    <3>2. /\ head[q] # link[head[q]] /\ head[q] # link[link[head[q]]]
          /\ link[head[q]] # link[link[head[q]]]
          /\ Chain(head[q]) \cap free = {} /\ info[head[q]] = q
      BY <3>1, Zenon DEF VInv, ChainInv
    <3>3. head[q] # h
      BY <1>7, <3>1, Zenon DEF Chain
    <3>4. free' = free \cup {h, l, m}
      BY <1>1, Zenon
    <3>5. Chain(head[q])' \cap free' = {}
      BY <1>7, <1>8, <3>1, <3>2, <3>4, Zenon
    <3> QED
      BY <1>6, <1>7, <3>1, <3>2, <3>3, <3>5, Zenon
  <2>3. ASSUME NEW q \in Waiting', NEW r \in Waiting', q # r
        PROVE  Chain(head[q])' \cap Chain(head[r])' = {}
    <3>1. q \in Waiting /\ r \in Waiting /\ q # p /\ r # p
      BY <1>5, Zenon
    <3>2. Chain(head[q]) \cap Chain(head[r]) = {}
      BY <2>3, <3>1, Zenon DEF VInv, ChainInv
    <3> QED
      BY <1>8, <3>1, <3>2, Zenon
  <2>4. Cardinality(free') + 3 * Cardinality(Waiting') = NUM
    <3>1. /\ Cardinality(free) + 3 * Cardinality(Waiting) = NUM
          /\ Cardinality(free) \in Nat /\ Cardinality(Waiting) \in Nat
          /\ IsFiniteSet(Waiting) /\ IsFiniteSet(free)
      BY Room, Zenon DEF VInv, ChainInv
    <3>2. Cardinality(Waiting') = Cardinality(Waiting) - 1
      BY <1>2, <1>5, <3>1, Zenon DEF Counting, RemoveFact
    <3>3. Cardinality(free') = Cardinality(free) + 3
      <4>1. Fresh(free, h, l, m)
        BY <1>2, <3>1, Zenon DEF Fresh
      <4> QED
        BY <1>1, <4>1, ThreeMore, Zenon
    <3> QED
      BY ONLY <3>1, <3>2, <3>3
  <2> QED
    BY <2>1, <2>2, <2>3, <2>4, Zenon DEF ChainInv
<1>11. Offered' = Offered /\ Reported' = Reported /\ Working' = Working
  BY <1>1, Zenon DEF Offered, Reported, Working
<1>12. FlightInv'
  <2>a. bdisk' = bdisk /\ moved' = moved /\ work' = work /\ p \notin bdisk
    BY <1>1, Zenon
  <2>b. \A q \in bdisk : q \in Waiting /\ q # p
    BY <2>a, Zenon DEF VInv, FlightInv
  <2>1. bdisk' \subseteq Waiting'
    BY <1>5, <2>a, <2>b, Zenon
  <2>2. \A w \in work' : w.buf \in bdisk' /\ head'[w.buf] = w.head
    BY <1>7, <2>a, <2>b, Zenon DEF VInv, FlightInv
  <2>3. ASSUME NEW i \in Offered \cup Reported PROVE info'[i] = info[i] /\ InFlight(i)'
    <3>1. InFlight(i) /\ info[i] \in bdisk /\ head[info[i]] = i
      BY Claimed, Zenon DEF InFlight
    <3>2. i # h /\ i \in Descs /\ head'[info[i]] = i
      BY <1>7, <2>b, <3>1, Zenon DEF Chain
    <3> QED
      BY <1>6, <2>a, <3>1, <3>2, Zenon DEF InFlight
  <2>4. \A i \in Offered' \cup Reported' : InFlight(i)'
    BY <1>11, <2>3, Zenon
  <2>5. /\ Offered' \cap Working' = {} /\ Offered' \cap Reported' = {}
        /\ Working' \cap Reported' = {}
    BY <1>11, Zenon DEF VInv, FlightInv
  <2>6. \A i \in Reported' : info'[i] \in moved'
    <3>1. \A i \in Reported : info[i] \in moved
      BY Zenon DEF VInv, FlightInv
    <3> QED
      BY <1>11, <2>a, <2>3, <3>1, Zenon
  <2>7. Waiting' \ bdisk' \subseteq moved'
    BY <1>5, <2>a, Zenon DEF VInv, FlightInv
  <2>8. Once(avail', seen', availIdx') /\ Once(used', used_idx', usedIdx')
    BY <1>1, Zenon DEF VInv, FlightInv
  <2> QED
    BY <2>1, <2>2, <2>4, <2>5, <2>6, <2>7, <2>8, Zenon DEF FlightInv
<1>13. CountInv'
  BY <1>1, Zenon DEF VInv, CountInv
<1> QED
  BY <1>9, <1>10, <1>12, <1>13, Zenon DEF VInv

(* Every step of the driver, the device and the interrupt handler          *)
(* preserves the invariant.                                                *)
LEMMA VInvNext ==
  ASSUME Counting, VInv, [Next]_vars
  PROVE  VInv'
<1>1. CASE UNCHANGED vars
  <2>1. /\ UNCHANGED <<free, link, info, rings, bdisk, seen, work, pc, head, moved>>
        /\ UNCHANGED <<irq, intr, asleep>>
    BY <1>1 DEF vars, device, rings
  <2>2. TypeOK'
    BY <2>1, Zenon DEF VInv, TypeOK, rings
  <2> QED
    BY <2>1, <2>2, QuietInv, Zenon
<1>2. CASE IntrEnter \/ IntrLeave
  <2>1. /\ UNCHANGED <<free, link, info, rings, bdisk, seen, work, pc, head, moved>>
        /\ asleep' = asleep
    BY <1>2 DEF IntrEnter, IntrLeave, device
  <2>2. irq' \in BOOLEAN /\ intr' \in BOOLEAN
    BY <1>2, Zenon DEF IntrEnter, IntrLeave, device, VInv, TypeOK
  <2>3. TypeOK'
    BY <2>1, <2>2, Zenon DEF VInv, TypeOK, rings
  <2> QED
    BY <2>1, <2>3, QuietInv, Zenon
<1>3. ASSUME NEW p \in Procs, AllocFails(p) \/ SleepAgain(p) \/ Kick(p) PROVE VInv'
  <2>1. /\ UNCHANGED <<free, link, info, rings, bdisk, seen, work, pc, head, moved>>
        /\ irq' = irq /\ intr' = intr
    BY <1>3, Zenon DEF AllocFails, SleepAgain, Kick, device
  <2>2. asleep' \subseteq Procs
    BY <1>3, Zenon DEF AllocFails, SleepAgain, Kick, VInv, TypeOK
  <2>3. TypeOK'
    BY <2>1, <2>2, Zenon DEF VInv, TypeOK, rings
  <2> QED
    BY <2>1, <2>3, QuietInv, Zenon
<1>4. CASE Next
  BY <1>2, <1>3, <1>4, IntrOneInv, FetchInv, CompleteInv, CallInv, SubmitInv, ReturnInv, Zenon
     DEF Next
<1> QED
  BY <1>1, <1>4, Zenon

(* The invariant holds after virtio_disk_init().                           *)
LEMMA VInvInit ==
  ASSUME Counting, Init
  PROVE  VInv
<1>1. 0 \in Descs /\ 0 \in Idx
  BY VirtioAssumption DEF Descs, Idx
<1>2. TypeOK
  <2>1. /\ free \subseteq Descs /\ bdisk \subseteq Procs /\ moved \subseteq Procs /\ asleep \subseteq Procs
        /\ work \subseteq [head : Descs, buf : Procs] /\ irq \in BOOLEAN /\ intr \in BOOLEAN
    BY Zenon DEF Init
  <2>2. link \in [Descs -> Descs] /\ info \in [Descs -> Procs \cup {NoProc}] /\ avail \in [Descs -> Descs]
        /\ used \in [Descs -> Descs] /\ head \in [Procs -> Descs]
        /\ pc \in [Procs -> {"idle", "alloc", "wait", "panic"}]
    BY <1>1, Zenon DEF Init
  <2> QED
    BY <1>1, <2>1, <2>2, Zenon DEF Init, TypeOK
<1>3. Waiting = {} /\ work = {} /\ bdisk = {}
  BY Zenon DEF Init, Waiting
<1>4. Between(0, 0) = 0
  <2>1. Between(0, 0) = IF 0 <= 0 THEN 0 - 0 ELSE 0 - 0 + IdxMod
    BY <1>1, Distance, Zenon
  <2> QED
    BY ONLY <2>1
<1>5. Offered = {} /\ Reported = {} /\ Win(0, 0) = {}
  <2>1. ASSUME NEW n \in Win(0, 0) PROVE FALSE
    <3>1. n \in Idx /\ Between(0, n) < Between(0, 0) /\ Between(0, n) = IF 0 <= n THEN n - 0 ELSE n - 0 + IdxMod
      BY <1>1, Distance, Zenon DEF Win
    <3> QED
      BY <1>4, <3>1, VirtioAssumption DEF Idx
  <2> QED
    BY <2>1, Zenon DEF Init, Offered, Reported, Entries
<1>6. ChainInv
  <2>1. Cardinality(free) = NUM /\ Cardinality(Waiting) = 0
    BY <1>3, Zenon DEF Init, Counting, DescsFact, EmptyFact
  <2>2. Cardinality(free) + 3 * Cardinality(Waiting) = NUM
    BY ONLY <2>1, RingSize
  <2> QED
    BY <1>3, <2>2, Zenon DEF Init, ChainInv
<1>7. FlightInv
  BY <1>3, <1>5, Zenon DEF Init, FlightInv, Working, Once
<1>8. CountInv
  <2>1. Cardinality(work) = 0 /\ Cardinality(bdisk) = 0 /\ IsFiniteSet(work)
    BY <1>3, Zenon DEF Counting, EmptyFact
  <2>2. Between(seen, availIdx) = 0 /\ Between(used_idx, usedIdx) = 0
    BY <1>4, Zenon DEF Init
  <2> QED
    BY <2>1, <2>2 DEF CountInv
<1> QED
  BY <1>2, <1>6, <1>7, <1>8, Zenon DEF VInv

(* What the invariant says about the chains, the device and the data.      *)
LEMMA VInvImplies ==
  ASSUME Counting, VInv
  PROVE  ChainsPartition /\ DeviceSafe /\ Transferred
<1>1. ChainsPartition
  <2>1. ASSUME NEW p \in Waiting PROVE Cardinality(Chain(head[p])) = 3
    <3>1. PICK h, l, m : h = head[p] /\ l = link[h] /\ m = link[link[h]]
      BY Zenon
    <3>2. h # l /\ h # m /\ l # m
      BY <3>1, Zenon DEF VInv, ChainInv
    <3>3. Cardinality({h, l, m}) = 3
      BY <3>2, Triple, Zenon
    <3>4. Chain(head[p]) = {h, l, m}
      BY <3>1, Zenon DEF Chain
    <3> QED
      BY <3>3, <3>4, Zenon
  <2> QED
    BY <2>1, Zenon DEF VInv, ChainInv, ChainsPartition
<1>2. DeviceSafe
  <2>1. \A w \in work : w.buf \in Waiting \cap bdisk /\ head[w.buf] = w.head
    BY Zenon DEF VInv, FlightInv
  <2>2. ASSUME NEW n \in Idx, Between(seen, n) < Between(seen, availIdx)
        PROVE  \E p \in Waiting \cap bdisk : head[p] = avail[n % NUM]
    <3>1. avail[n % NUM] \in Offered
      BY <2>2, Zenon DEF Offered, Entries, Win
    <3> QED
      BY <3>1, Claimed, Zenon DEF InFlight
  <2>3. ASSUME NEW n \in Idx, Between(used_idx, n) < Between(used_idx, usedIdx)
        PROVE  info[used[n % NUM]] \in bdisk
    <3>1. used[n % NUM] \in Reported
      BY <2>3, Zenon DEF Reported, Entries, Win
    <3> QED
      BY <3>1, Claimed, Zenon DEF InFlight
  <2> QED
    BY <2>1, <2>2, <2>3, Zenon DEF VInv, CountInv, DeviceSafe
<1>3. Transferred
  BY Zenon DEF VInv, FlightInv, Transferred
<1> QED
  BY <1>1, <1>2, <1>3

-----------------------------------------------------------------------------
(* The facts about finite sets, from the library; and the theorems.        *)

FST == INSTANCE FiniteSetTheorems
WFI == INSTANCE WellFoundedInduction

(* Finite is the same thing for the driver and for the library.            *)
LEMMA LibraryFinite == \A S : IsFiniteSet(S) = FST!IsFiniteSet(S)
  BY DEF IsFiniteSet, FST!IsFiniteSet

(* Both count alike.                                                       *)
LEMMA LibraryCardinality == \A S : Cardinality(S) = FST!Cardinality(S)
  BY Zenon DEF Cardinality, FST!Cardinality

(* A nonempty set of numbers has a least element: alloc_desc() stops at    *)
(* the first free descriptor.                                              *)
LEMMA LeastNumber ==
  ASSUME NEW S \in SUBSET Nat, S # {}
  PROVE  \E x \in S : \A y \in S : x <= y
<1> DEFINE less == {ss \in Nat \X Nat : ss[1] < ss[2]}
<1>1. WFI!IsWellFoundedOn(less, Nat)
  BY WFI!NatLessThanWellFounded DEF WFI!OpToRel
<1> HIDE DEF less
<1>2. PICK x \in S : \A y \in S : ~ (<<y, x>> \in less)
  BY <1>1, WFI!WFMin, Zenon
<1>3. ASSUME NEW y \in S PROVE x <= y
  <2>1. x \in Nat /\ y \in Nat /\ ~ (<<y, x>> \in less)
    BY <1>2
  <2>2. y < x => <<y, x>> \in less
    BY <2>1 DEF less
  <2> QED
    BY <2>1, <2>2
<1> QED
  BY <1>3

(* Descriptors and requests can be counted.                                *)
LEMMA CanCount == Counting
<1>1. AddFact
  BY FST!FS_AddElement, LibraryFinite, LibraryCardinality DEF AddFact
<1>2. RemoveFact
  BY FST!FS_RemoveElement, LibraryFinite, LibraryCardinality DEF RemoveFact
<1>3. SubsetFact
  BY FST!FS_Subset, LibraryFinite, LibraryCardinality DEF SubsetFact
<1>4. NumberFact /\ EmptyFact
  BY FST!FS_EmptySet, FST!FS_CardinalityType, LibraryFinite, LibraryCardinality
     DEF EmptyFact, NumberFact
<1>5. DescsFact
  <2>1. NUM \in Nat \ {0}
    BY RingSize
  <2> QED
    BY <2>1, FST!FS_Interval, LibraryFinite, LibraryCardinality DEF DescsFact, Descs
<1>6. LeastFact
  BY LeastNumber, Zenon DEF LeastFact
<1> QED
  BY <1>1, <1>2, <1>3, <1>4, <1>5, <1>6, Zenon DEF Counting

(* The invariant of the driver holds in every reachable state, for any     *)
(* number of processes and descriptors and any width of the indices.       *)
THEOREM Invariance == Spec => []VInv
<1>1. Init => VInv
  BY CanCount, VInvInit
<1>2. VInv /\ [Next]_vars => VInv'
  BY CanCount, VInvNext
<1> QED
  BY <1>1, <1>2, PTL DEF Spec

(* alloc3_desc() and free_chain() lose no descriptor and free none twice.  *)
THEOREM DescriptorsPartitioned == Spec => []ChainsPartition
<1>1. VInv => ChainsPartition
  BY CanCount, VInvImplies
<1> QED
  BY <1>1, Invariance, PTL

(* The device works only on requests that wait for it, the handler finds   *)
(* the buffer of every used entry, and the rings do not overflow, also     *)
(* while the indices wrap.                                                 *)
THEOREM DeviceStaysSafe == Spec => []DeviceSafe
<1>1. VInv => DeviceSafe
  BY CanCount, VInvImplies
<1> QED
  BY <1>1, Invariance, PTL

(* virtio_disk_rw() finds b->disk = 0 only when the data is transferred.   *)
THEOREM DataTransferred == Spec => []Transferred
<1>1. VInv => Transferred
  BY CanCount, VInvImplies
<1> QED
  BY <1>1, Invariance, PTL
=============================================================================
