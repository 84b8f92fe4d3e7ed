------------------------------- MODULE Virtio -------------------------------
(***************************************************************************)
(* The disk driver of kernel/virtio_disk.c and the device it talks to.     *)
(*                                                                         *)
(* virtio_disk_rw() takes three descriptors, links them into a chain, puts *)
(* the head of the chain into the avail ring and sleeps until              *)
(* virtio_disk_intr() finds the head in the used ring.  The device runs    *)
(* beside both: it finishes chains in any order and raises an interrupt,   *)
(* also while the handler is at work.  The ring indices are uint16 and     *)
(* wrap; IdxMod stands for 2^16.                                           *)
(*                                                                         *)
(* Every caller holds the sleep lock of its buffer, so a buffer has one    *)
(* request at a time and the buffer of process p is named p.               *)
(***************************************************************************)
EXTENDS Integers, FiniteSets, FiniteSetsExt

CONSTANTS
  Procs, NoProc,  \* processes, each with its buffer; "no buffer"
  NUM,            \* descriptors, and entries of each ring
  IdxMod          \* ring indices count modulo IdxMod

ASSUME VirtioAssumption ==
  /\ NUM \in Nat /\ NUM >= 3
  /\ IdxMod \in Nat \ {0} /\ IdxMod % NUM = 0
  /\ NoProc \notin Procs /\ IsFiniteSet(Procs)

Descs == 0 .. NUM - 1
Idx == 0 .. IdxMod - 1

VARIABLES
  free,      \* disk.free: the free descriptors
  link,      \* desc[i].next for a descriptor with VRING_DESC_F_NEXT, else i
  info,      \* info[i].b
  avail,     \* avail->ring
  availIdx,  \* avail->idx
  used,      \* used->ring
  usedIdx,   \* used->idx, written by the device
  used_idx,  \* disk.used_idx, how far the handler has looked
  bdisk,     \* buffers with b->disk = 1
  seen,      \* device: how far it has read the avail ring
  work,      \* device: the chains it works on, each with its data buffer
  irq,       \* device: interrupt pending
  intr,      \* is virtio_disk_intr() running, with vdisk_lock?
  pc,        \* "idle", "alloc", "wait", "panic"
  asleep,    \* processes in sleep()
  head,      \* idx[0] of a process
  moved      \* history: buffers whose data the device has transferred

rings == <<avail, availIdx, used, usedIdx, used_idx>>
device == <<seen, work, irq>>
vars == <<free, link, info, rings, bdisk, device, intr, pc, asleep, head, moved>>

Init ==
  /\ free = Descs /\ link = [i \in Descs |-> i]
  /\ info = [i \in Descs |-> NoProc]
  /\ avail = [i \in Descs |-> 0] /\ availIdx = 0
  /\ used = [i \in Descs |-> 0] /\ usedIdx = 0 /\ used_idx = 0
  /\ bdisk = {}
  /\ seen = 0 /\ work = {} /\ irq = FALSE
  /\ intr = FALSE
  /\ pc = [p \in Procs |-> "idle"] /\ asleep = {} /\ head = [p \in Procs |-> 0]
  /\ moved = {}

Go(p, l) == pc' = [pc EXCEPT ![p] = l]

(* The processes asleep on &disk.free[0].                                  *)
AllocSleepers == {p \in asleep : pc[p] = "alloc"}

-----------------------------------------------------------------------------
(* virtio_disk_rw(), whose steps end at sleep(): vdisk_lock is free then.  *)

Call(p) ==
  /\ pc[p] = "idle"
  /\ Go(p, "alloc")
  /\ moved' = moved \ {p}
  /\ UNCHANGED <<free, link, info, rings, bdisk, device, intr, asleep, head>>

(* alloc3_desc() fails: it gives back the descriptors it had taken, and    *)
(* free_desc() wakes the other waiters; then sleep.                        *)
AllocFails(p) ==
  /\ pc[p] = "alloc" /\ p \notin asleep /\ ~intr
  /\ Cardinality(free) < 3
  /\ asleep' = (IF free = {} THEN asleep ELSE asleep \ AllocSleepers) \cup {p}
  /\ UNCHANGED <<free, link, info, rings, bdisk, device, intr, pc, head, moved>>

(* alloc3_desc(): the lowest three free descriptors.                       *)
alloc_desc(avl) == Min(avl)
First == alloc_desc(free)
Second == alloc_desc(free \ {First})
Third == alloc_desc(free \ {First, Second})

Taken == {First, Second, Third}

AvailAdvances == (availIdx + 1) % IdxMod

(* The descriptors become a chain for the device.  vdisk_lock is held, so  *)
(* b->disk is still 1 and the process sleeps.                              *)
Submit(p) ==
  /\ pc[p] = "alloc" /\ p \notin asleep /\ ~intr
  /\ Cardinality(free) >= 3
  /\ free' = free \ Taken
  /\ link' = [link EXCEPT ![First] = Second, ![Second] = Third, ![Third] = Third]
  /\ bdisk' = bdisk \cup {p}
  /\ info' = [info EXCEPT ![First] = p]
  /\ head' = [head EXCEPT ![p] = First]
  /\ avail' = [avail EXCEPT ![availIdx % NUM] = First]
  /\ availIdx' = AvailAdvances
  /\ asleep' = asleep \cup {p}
  /\ Go(p, "wait")
  /\ UNCHANGED <<used, usedIdx, used_idx, device, intr, moved>>

(* The descriptors of the chain that starts at i.                          *)
Chain(i) == {i, link[i], link[link[i]]}

(* kkill() has woken the process before its request is finished.           *)
SleepAgain(p) ==
  /\ pc[p] = "wait" /\ p \notin asleep /\ ~intr
  /\ p \in bdisk
  /\ asleep' = asleep \cup {p}
  /\ UNCHANGED <<free, link, info, rings, bdisk, device, intr, pc, head, moved>>

(* Mutant: the process does not look at b->disk again.                     *)
FinishedUnchecked(p) == TRUE

(* The test of the loop around sleep(b).                                   *)
Finished(p) == p \notin bdisk

(* Mutant: free_chain() stops after the first descriptor.                  *)
FreedFirst(p) == {head[p]}

Freed(p) == Chain(head[p])

(* free_desc() of each: it panics if the descriptor is free already, and   *)
(* wakes the processes that wait for one.                                  *)
free_desc(ds) ==
  /\ free' = free \cup ds
  /\ link' = [i \in Descs |-> IF i \in ds THEN i ELSE link[i]]
  /\ asleep' = asleep \ AllocSleepers

(* Awake, and b->disk is 0: free the chain and return.                     *)
Return(p) ==
  /\ pc[p] = "wait" /\ p \notin asleep /\ ~intr
  /\ Finished(p)
  /\ IF Freed(p) \cap free # {} THEN Go(p, "panic") ELSE Go(p, "idle")
  /\ info' = [info EXCEPT ![head[p]] = NoProc]
  /\ free_desc(Freed(p))
  /\ head' = [head EXCEPT ![p] = 0]
  /\ UNCHANGED <<rings, bdisk, device, intr, moved>>

-----------------------------------------------------------------------------
(* virtio_disk_intr(), which holds vdisk_lock while the device goes on.    *)

(* Acknowledge the interrupt.                                              *)
IntrEnter ==
  /\ irq /\ ~intr
  /\ intr' = TRUE
  /\ irq' = FALSE
  /\ UNCHANGED <<free, link, info, rings, bdisk, seen, work, pc, asleep, head, moved>>

UsedAdvances == (used_idx + 1) % IdxMod

(* Mutant: the index of the device is not looked at.                       *)
MoreUsedUnchecked == TRUE

(* The device has added entries to the used ring.                          *)
MoreUsed == used_idx # usedIdx

(* One entry of the used ring: b->disk = 0 and wakeup(b).  The entry is    *)
(* dead from here on and is set to 0, to keep the state small.             *)
IntrOne ==
  LET p == info[used[used_idx % NUM]] IN
  /\ intr /\ MoreUsed
  /\ bdisk' = bdisk \ {p}
  /\ asleep' = {q \in asleep : ~(q = p /\ pc[q] = "wait")}
  /\ used' = [used EXCEPT ![used_idx % NUM] = 0]
  /\ used_idx' = UsedAdvances
  /\ UNCHANGED <<free, link, info, avail, availIdx, usedIdx, device, intr,
                 pc, head, moved>>

(* Mutant: the handler does not look for further entries.                  *)
IntrLeaveEarly ==
  /\ intr
  /\ intr' = FALSE
  /\ UNCHANGED <<free, link, info, rings, bdisk, device, pc, asleep, head, moved>>

IntrLeave ==
  /\ intr /\ ~MoreUsed
  /\ intr' = FALSE
  /\ UNCHANGED <<free, link, info, rings, bdisk, device, pc, asleep, head, moved>>

-----------------------------------------------------------------------------
(* The device: it takes chains from the avail ring, transfers the data and *)
(* reports each in the used ring.  An entry of the avail ring is dead when *)
(* the device has read it, and is set to 0.                                *)

Fetch ==
  LET i == avail[seen % NUM] IN
  /\ seen # availIdx
  /\ work' = work \cup {[head |-> i, buf |-> info[i]]}
  /\ seen' = (seen + 1) % IdxMod
  /\ avail' = [avail EXCEPT ![seen % NUM] = 0]
  /\ UNCHANGED <<free, link, info, availIdx, used, usedIdx, used_idx, bdisk, irq,
                 intr, pc, asleep, head, moved>>

Complete(w) ==
  /\ w \in work
  /\ work' = work \ {w}
  /\ moved' = moved \cup {w.buf}
  /\ used' = [used EXCEPT ![usedIdx % NUM] = w.head]
  /\ usedIdx' = (usedIdx + 1) % IdxMod
  /\ irq' = TRUE
  /\ UNCHANGED <<free, link, info, avail, availIdx, used_idx, bdisk, seen, intr,
                 pc, asleep, head>>

(* kkill() makes a sleeping process runnable.                              *)
Kick(p) ==
  /\ p \in asleep
  /\ asleep' = asleep \ {p}
  /\ UNCHANGED <<free, link, info, rings, bdisk, device, intr, pc, head, moved>>

Next ==
  \/ IntrEnter \/ IntrOne \/ IntrLeave
  \/ Fetch \/ \E w \in work : Complete(w)
  \/ \E p \in Procs : \/ Call(p) \/ AllocFails(p) \/ Submit(p)
                       \/ SleepAgain(p) \/ Return(p) \/ Kick(p)

(* The device finishes every request and the handler does its work.        *)
(* Strong fairness for the processes: a woken process may find the lock or *)
(* the descriptors taken by another, but not for ever.                     *)
Fairness ==
  /\ WF_vars(Fetch) /\ WF_vars(IntrEnter \/ IntrOne \/ IntrLeave)
  /\ \A p \in Procs : /\ WF_vars(\E w \in work : w.buf = p /\ Complete(w))
                      /\ SF_vars(Submit(p)) /\ SF_vars(Return(p))

Spec == Init /\ [][Next]_vars
FairSpec == Spec /\ Fairness
-----------------------------------------------------------------------------
(* Properties.                                                             *)

Between(a, b) == (b - a) % IdxMod     \* entries from index a to index b

Waiting == {p \in Procs : pc[p] = "wait"}

(* Types.  The indices stay below IdxMod, as uint16 does.                  *)
TypeOK ==
  /\ free \subseteq Descs /\ link \in [Descs -> Descs]
  /\ info \in [Descs -> Procs \cup {NoProc}]
  /\ avail \in [Descs -> Descs] /\ used \in [Descs -> Descs]
  /\ availIdx \in Idx /\ usedIdx \in Idx /\ used_idx \in Idx /\ seen \in Idx
  /\ bdisk \subseteq Procs /\ moved \subseteq Procs /\ asleep \subseteq Procs
  /\ work \subseteq [head : Descs, buf : Procs]
  /\ irq \in BOOLEAN /\ intr \in BOOLEAN
  /\ pc \in [Procs -> {"idle", "alloc", "wait", "panic"}]
  /\ head \in [Procs -> Descs]

(* Every descriptor is free or in the chain of exactly one request: none   *)
(* is lost when alloc3_desc() fails halfway or a chain is freed, and none  *)
(* is freed twice ("free_desc 2").                                         *)
ChainsPartition ==
  /\ \A p \in Procs : pc[p] # "panic"
  /\ \A p \in Waiting : Cardinality(Chain(head[p])) = 3
                        /\ Chain(head[p]) \cap free = {}
  /\ \A p, q \in Waiting : p # q => Chain(head[p]) \cap Chain(head[q]) = {}
  /\ Cardinality(free) + 3 * Cardinality(Waiting) = NUM

(* What the device has or will fetch belongs to a process that still       *)
(* waits: no chain is freed, and no buffer given back, under the device;   *)
(* and the handler finds the buffer of every entry of the used ring.  Each *)
(* request in flight is in one of the avail ring, the device and the used  *)
(* ring, also when an index has wrapped and another has not, so that the   *)
(* rings, with NUM entries, do not overflow.                               *)
DeviceSafe ==
  /\ TypeOK
  /\ \A w \in work : w.buf \in Waiting \cap bdisk /\ head[w.buf] = w.head
  /\ \A n \in Idx : Between(seen, n) < Between(seen, availIdx) =>
       \E p \in Waiting \cap bdisk : head[p] = avail[n % NUM]
  /\ \A n \in Idx : Between(used_idx, n) < Between(used_idx, usedIdx) =>
       info[used[n % NUM]] \in bdisk
  /\ Between(seen, availIdx) + Cardinality(work) + Between(used_idx, usedIdx)
       = Cardinality(bdisk)

(* b->disk is cleared only when the data has been transferred, whatever    *)
(* the order in which the device finishes.                                 *)
Transferred == Waiting \ bdisk \subseteq moved

(* Every call of virtio_disk_rw() returns: no process stays in one for     *)
(* ever.                                                                   *)
RequestReturns == \A p \in Procs : []<>(pc[p] = "idle")
=============================================================================
