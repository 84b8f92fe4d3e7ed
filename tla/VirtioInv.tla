----------------------------- MODULE VirtioInv -----------------------------
(***************************************************************************)
(* The inductive invariant of Virtio: where the descriptors are, and where *)
(* the request of each buffer with b->disk = 1 is.                         *)
(***************************************************************************)
EXTENDS Virtio

(* The indices from a up to b, and the entries of a ring there.            *)
Win(a, b) == {n \in Idx : Between(a, n) < Between(a, b)}
Entries(ring, a, b) == {ring[n % NUM] : n \in Win(a, b)}

(* No entry from a up to b is there twice.                                 *)
Once(ring, a, b) ==
  \A m, n \in Win(a, b) : ring[m % NUM] = ring[n % NUM] => m = n

(* The chains that the device will fetch, works on, and has finished.      *)
Offered == Entries(avail, seen, availIdx)
Working == {w.head : w \in work}
Reported == Entries(used, used_idx, usedIdx)

(* A waiting process has a chain of three descriptors of its own.          *)
ChainInv ==
  /\ \A p \in Procs : pc[p] # "panic"
  /\ \A p \in Waiting :
       LET h == head[p] IN
       /\ h # link[h] /\ h # link[link[h]] /\ link[h] # link[link[h]]
       /\ Chain(h) \cap free = {}
       /\ info[h] = p
  /\ \A p, q \in Waiting : p # q => Chain(head[p]) \cap Chain(head[q]) = {}
  /\ Cardinality(free) + 3 * Cardinality(Waiting) = NUM

(* Descriptor i is the head of the chain of a buffer with b->disk = 1.     *)
InFlight(i) == info[i] \in bdisk /\ head[info[i]] = i

(* The request of a buffer with b->disk = 1 is in one of the three places, *)
(* once; when it is reported, or b->disk is 0, the data is transferred.    *)
FlightInv ==
  /\ bdisk \subseteq Waiting
  /\ \A w \in work : w.buf \in bdisk /\ head[w.buf] = w.head
  /\ \A i \in Offered \cup Reported : InFlight(i)
  /\ Offered \cap Working = {} /\ Offered \cap Reported = {} /\ Working \cap Reported = {}
  /\ \A i \in Reported : info[i] \in moved
  /\ Waiting \ bdisk \subseteq moved
  /\ Once(avail, seen, availIdx) /\ Once(used, used_idx, usedIdx)

(* The three places hold as many requests as there are.                    *)
CountInv ==
  /\ IsFiniteSet(work)
  /\ Between(seen, availIdx) + Cardinality(work) + Between(used_idx, usedIdx)
       = Cardinality(bdisk)

VInv == TypeOK /\ ChainInv /\ FlightInv /\ CountInv
=============================================================================
