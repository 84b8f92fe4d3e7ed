------------------------------ MODULE BufCache ------------------------------
(***************************************************************************)
(* The buffer cache of kernel/bio.c and the sleep locks of                 *)
(* kernel/sleeplock.c that protect its buffers.                            *)
(*                                                                         *)
(* bget() finds or recycles a buffer under bcache.lock but waits for the   *)
(* buffer's sleep lock after it has released bcache.lock, with the         *)
(* reference it counted in between as its only hold on the buffer; and     *)
(* brelse() gives back the sleep lock before the reference.  The list of   *)
(* buffers is the ring of next and prev pointers of the code.              *)
(*                                                                         *)
(* The clients are those of log.c: a process that changed a buffer calls   *)
(* log_write(), which pins it, and a later holder installs it with         *)
(* bwrite() and bunpin().  A process may lock one buffer while it holds    *)
(* another; blocks are numbered in the order in which the callers nest     *)
(* them (a log slot before a home block, an indirect block before a bitmap *)
(* block).                                                                 *)
(***************************************************************************)
EXTENDS Integers, FiniteSets, FiniteSetsExt

CONSTANTS
  Procs, NoProc,  \* processes, "not locked"
  NBUF,           \* number of buffers
  Blocks,         \* block numbers
  NoBlock,        \* blockno of a buffer that was never used
  Val, Zero,      \* block contents, what the disk holds at boot
  MaxHeld,        \* buffers a process holds at the same time
  MaxPins         \* blocks in the log: buffers pinned at the same time

head == 0
Bufs == 1 .. NBUF

ASSUME BufAssumption ==
  /\ NBUF \in Nat \ {0} /\ MaxHeld \in Nat /\ MaxPins \in Nat
  /\ Blocks \subseteq Nat /\ NoBlock \notin Blocks
  /\ Zero \in Val /\ NoProc \notin Procs /\ IsFiniteSet(Procs)

VARIABLES
  blockno, valid, refcnt, data,  \* fields of struct buf
  next, prev,                    \* the list, from bcache.head
  locked,                        \* b->lock: the process whose pid it holds
  disk,                          \* the blocks on disk
  logged,                        \* blocks whose buffer the log has pinned
  pc, want, got,                 \* a process: where it is, the block, the buffer
  asleep                         \* processes in sleep() of acquiresleep()

bufs == <<blockno, valid, refcnt>>
ring == <<next, prev>>
vars == <<bufs, data, ring, locked, disk, logged, pc, want, got, asleep>>

Held(p) == {b \in Bufs : locked[b] = p}

Go(p, l) == pc' = [pc EXCEPT ![p] = l]

(* Link b after the head of the list.                                      *)
InsertFront(ptr, b) ==
  [next |-> [ptr.next EXCEPT ![b] = ptr.next[head], ![head] = b],
   prev |-> [ptr.prev EXCEPT ![b] = head, ![ptr.next[head]] = b]]

(* Take b out of the list.                                                 *)
Unlink(ptr, b) ==
  [next |-> [ptr.next EXCEPT ![ptr.prev[b]] = ptr.next[b]],
   prev |-> [ptr.prev EXCEPT ![ptr.next[b]] = ptr.prev[b]]]

(* binit(): the buffers enter the list one by one, each at its front.      *)
Ring[n \in 0 .. NBUF] ==
  IF n = 0 THEN [next |-> [b \in 0 .. NBUF |-> b], prev |-> [b \in 0 .. NBUF |-> b]]
  ELSE InsertFront(Ring[n - 1], n)

Init ==
  /\ blockno = [b \in Bufs |-> NoBlock]
  /\ valid = [b \in Bufs |-> FALSE]
  /\ refcnt = [b \in Bufs |-> 0]
  /\ data = [b \in Bufs |-> Zero]
  /\ next = Ring[NBUF].next /\ prev = Ring[NBUF].prev
  /\ locked = [b \in Bufs |-> NoProc]
  /\ disk = [k \in Blocks |-> Zero]
  /\ logged = {}
  /\ pc = [p \in Procs |-> "run"]
  /\ want = [p \in Procs |-> NoBlock] /\ got = [p \in Procs |-> head]
  /\ asleep = {}

-----------------------------------------------------------------------------
(* bget()                                                                  *)

(* acquire(&bcache.lock) succeeds: the sections under that lock are single *)
(* steps, but the panic of bget() never releases it.                       *)
CacheLockFree == \A p \in Procs : pc[p] # "panic"

(* A process asks for a block that comes after those it holds.             *)
MayAsk(p, k) ==
  /\ pc[p] = "run" /\ CacheLockFree
  /\ Cardinality(Held(p)) < MaxHeld
  /\ \A b \in Held(p) : blockno[b] < k

Cached(k) == {b \in Bufs : blockno[b] = k}

(* Mutant: a hit is not counted before bcache.lock is released.            *)
HitUncounted(p, k) ==
  /\ MayAsk(p, k)
  /\ \E b \in Cached(k) : got' = [got EXCEPT ![p] = b]
  /\ want' = [want EXCEPT ![p] = k]
  /\ Go(p, "lock")
  /\ UNCHANGED <<bufs, data, ring, locked, disk, logged, asleep>>

(* The block is cached.                                                    *)
Hit(p, k) ==
  /\ MayAsk(p, k)
  /\ \E b \in Cached(k) :
       /\ refcnt' = [refcnt EXCEPT ![b] = @ + 1]
       /\ got' = [got EXCEPT ![p] = b]
  /\ want' = [want EXCEPT ![p] = k]
  /\ Go(p, "lock")
  /\ UNCHANGED <<blockno, valid, data, ring, locked, disk, logged, asleep>>

(* The list from its end: Back[n] is the n-th buffer from the back.        *)
Back[n \in 0 .. NBUF] == IF n = 0 THEN head ELSE prev[Back[n - 1]]

(* Places, from the back, of the buffers nobody references.                *)
Unreferenced == {n \in 1 .. NBUF : Back[n] # head /\ refcnt[Back[n]] = 0}

(* It is not: recycle the least recently used unreferenced buffer.         *)
Recycle(p, k) ==
  LET b == Back[Min(Unreferenced)] IN
  /\ MayAsk(p, k) /\ Cached(k) = {} /\ Unreferenced # {}
  /\ blockno' = [blockno EXCEPT ![b] = k]
  /\ valid' = [valid EXCEPT ![b] = FALSE]
  /\ refcnt' = [refcnt EXCEPT ![b] = 1]
  /\ got' = [got EXCEPT ![p] = b]
  /\ want' = [want EXCEPT ![p] = k]
  /\ Go(p, "lock")
  /\ UNCHANGED <<data, ring, locked, disk, logged, asleep>>

NoBuffers(p, k) ==
  /\ MayAsk(p, k) /\ Cached(k) = {} /\ Unreferenced = {}
  /\ Go(p, "panic")
  /\ UNCHANGED <<bufs, data, ring, locked, disk, logged, want, got, asleep>>

-----------------------------------------------------------------------------
(* acquiresleep(), and the rest of bread()                                 *)

AcquireSleep(p) ==
  /\ pc[p] = "lock" /\ p \notin asleep
  /\ locked[got[p]] = NoProc
  /\ locked' = [locked EXCEPT ![got[p]] = p]
  /\ Go(p, "bread")
  /\ UNCHANGED <<bufs, data, ring, disk, logged, want, got, asleep>>

AcquireSleepWaits(p) ==
  /\ pc[p] = "lock" /\ p \notin asleep
  /\ locked[got[p]] # NoProc
  /\ asleep' = asleep \cup {p}
  /\ UNCHANGED <<bufs, data, ring, locked, disk, logged, pc, want, got>>

(* kkill() makes a sleeping process runnable; it finds the lock held.      *)
Kick(p) ==
  /\ p \in asleep
  /\ asleep' = asleep \ {p}
  /\ UNCHANGED <<bufs, data, ring, locked, disk, logged, pc, want, got>>

(* bread() reads the block, virtio_disk_rw(b, 0), if the buffer is new.    *)
Bread(p) ==
  LET b == got[p] IN
  /\ pc[p] = "bread"
  /\ data' = [data EXCEPT ![b] = IF valid[b] THEN @ ELSE disk[blockno[b]]]
  /\ valid' = [valid EXCEPT ![b] = TRUE]
  /\ want' = [want EXCEPT ![p] = NoBlock] /\ got' = [got EXCEPT ![p] = head]
  /\ Go(p, "run")
  /\ UNCHANGED <<blockno, refcnt, ring, locked, disk, logged, asleep>>

-----------------------------------------------------------------------------
(* A process that holds a buffer.                                          *)

(* Mutant: log_write() does not pin the buffer.                            *)
ModifyUnpinned(p, b, v) ==
  /\ pc[p] = "run" /\ b \in Held(p)
  /\ data' = [data EXCEPT ![b] = v]
  /\ UNCHANGED <<bufs, ring, locked, disk, logged, pc, want, got, asleep>>

(* Change the data and log_write(), which bpin()s a block new to the log.  *)
Modify(p, b, v) ==
  LET k == blockno[b]
      new == k \notin logged IN
  /\ pc[p] = "run" /\ b \in Held(p)
  /\ new => Cardinality(logged) < MaxPins /\ CacheLockFree
  /\ data' = [data EXCEPT ![b] = v]
  /\ logged' = logged \cup {k}
  /\ refcnt' = [refcnt EXCEPT ![b] = IF new THEN @ + 1 ELSE @]
  /\ UNCHANGED <<blockno, valid, ring, locked, disk, pc, want, got, asleep>>

(* install_trans(): bwrite() and bunpin().                                 *)
Install(p, b) ==
  /\ pc[p] = "run" /\ b \in Held(p) /\ blockno[b] \in logged /\ CacheLockFree
  /\ disk' = [disk EXCEPT ![blockno[b]] = data[b]]
  /\ logged' = logged \ {blockno[b]}
  /\ refcnt' = [refcnt EXCEPT ![b] = @ - 1]
  /\ UNCHANGED <<blockno, valid, data, ring, locked, pc, want, got, asleep>>

(* Mutant: releasesleep() does not wake the waiters.                       *)
ReleaseSilently(p, b) ==
  /\ pc[p] = "run" /\ b \in Held(p)
  /\ locked' = [locked EXCEPT ![b] = NoProc]
  /\ got' = [got EXCEPT ![p] = b]
  /\ Go(p, "unref")
  /\ UNCHANGED <<bufs, data, ring, disk, logged, want, asleep>>

(* brelse(): releasesleep() wakes everybody who waits for the lock ...     *)
Release(p, b) ==
  /\ pc[p] = "run" /\ b \in Held(p)
  /\ locked' = [locked EXCEPT ![b] = NoProc]
  /\ asleep' = {q \in asleep : got[q] # b}
  /\ got' = [got EXCEPT ![p] = b]
  /\ Go(p, "unref")
  /\ UNCHANGED <<bufs, data, ring, disk, logged, want>>

(* Mutants: the buffer is moved to the front without leaving its place in  *)
(* the list; the reference is not dropped while the block is in the log.   *)
UnrefNoUnlink(p) ==
  LET b == got[p]
      moved == InsertFront([next |-> next, prev |-> prev], b) IN
  /\ pc[p] = "unref"
  /\ refcnt' = [refcnt EXCEPT ![b] = @ - 1]
  /\ IF refcnt[b] = 1 THEN next' = moved.next /\ prev' = moved.prev
     ELSE UNCHANGED ring
  /\ want' = [want EXCEPT ![p] = NoBlock] /\ got' = [got EXCEPT ![p] = head]
  /\ Go(p, "run")
  /\ UNCHANGED <<blockno, valid, data, locked, disk, logged, asleep>>

UnrefLeaks(p) ==
  LET b == got[p] IN
  /\ pc[p] = "unref"
  /\ refcnt' = [refcnt EXCEPT ![b] = IF blockno[b] \in logged THEN @ ELSE @ - 1]
  /\ want' = [want EXCEPT ![p] = NoBlock] /\ got' = [got EXCEPT ![p] = head]
  /\ Go(p, "run")
  /\ UNCHANGED <<blockno, valid, data, ring, locked, disk, logged, asleep>>

(* ... and then drops the reference; the last one moves the buffer to the  *)
(* front of the list.                                                      *)
Unref(p) ==
  LET b == got[p]
      moved == InsertFront(Unlink([next |-> next, prev |-> prev], b), b) IN
  /\ pc[p] = "unref" /\ CacheLockFree
  /\ refcnt' = [refcnt EXCEPT ![b] = @ - 1]
  /\ IF refcnt[b] = 1 THEN next' = moved.next /\ prev' = moved.prev
     ELSE UNCHANGED ring
  /\ want' = [want EXCEPT ![p] = NoBlock] /\ got' = [got EXCEPT ![p] = head]
  /\ Go(p, "run")
  /\ UNCHANGED <<blockno, valid, data, locked, disk, logged, asleep>>

Next ==
  \E p \in Procs :
    \/ AcquireSleep(p) \/ AcquireSleepWaits(p) \/ Kick(p) \/ Bread(p) \/ Unref(p)
    \/ \E k \in Blocks : Hit(p, k) \/ Recycle(p, k) \/ NoBuffers(p, k)
    \/ \E b \in Bufs : \/ Install(p, b) \/ Release(p, b)
                       \/ \E v \in Val : Modify(p, b, v)

(* brelse() of the buffer that p has held longest.                         *)
ReleaseOldest(p) ==
  \E b \in Held(p) : Release(p, b) /\ \A c \in Held(p) : blockno[b] <= blockno[c]

(* Processes in the kernel keep running, and a process that holds buffers  *)
(* does not keep the first for ever.  Strong fairness is for               *)
(* acquiresleep(): a sleeper is woken at every release and competes again; *)
(* and a holder may be busy with another buffer now and then.              *)
Fairness ==
  \A p \in Procs : /\ SF_vars(AcquireSleep(p) \/ Bread(p) \/ Unref(p))
                   /\ SF_vars(ReleaseOldest(p))

Spec == Init /\ [][Next]_vars
FairSpec == Spec /\ Fairness
-----------------------------------------------------------------------------
(* Properties.                                                             *)

(* Types.  A reference that is dropped was counted: refcnt never goes      *)
(* below zero.                                                             *)
TypeOK ==
  /\ blockno \in [Bufs -> Blocks \cup {NoBlock}]
  /\ valid \in [Bufs -> BOOLEAN] /\ refcnt \in [Bufs -> Nat]
  /\ data \in [Bufs -> Val] /\ disk \in [Blocks -> Val]
  /\ next \in [0 .. NBUF -> 0 .. NBUF] /\ prev \in [0 .. NBUF -> 0 .. NBUF]
  /\ locked \in [Bufs -> Procs \cup {NoProc}]
  /\ logged \subseteq Blocks
  /\ pc \in [Procs -> {"run", "lock", "bread", "unref", "panic"}]
  /\ want \in [Procs -> Blocks \cup {NoBlock}]
  /\ got \in [Procs -> 0 .. NBUF] /\ asleep \subseteq Procs

(* refcnt counts the processes between bget() and the end of brelse(), and *)
(* the pin of the log; so nobody recycles a buffer for another block while *)
(* a process that bget() gave it to waits for its sleep lock or reads it.  *)
RefCounts ==
  /\ \A b \in Bufs :
       refcnt[b] = Cardinality({p \in Procs : locked[b] = p})
                 + Cardinality({p \in Procs : pc[p] \in {"lock", "unref"} /\ got[p] = b})
                 + (IF blockno[b] \in logged THEN 1 ELSE 0)
  /\ \A p \in Procs : pc[p] \in {"lock", "bread"} => blockno[got[p]] = want[p]

(* The list stays a ring: prev undoes next, and from bcache.head every     *)
(* buffer is reached, so that bget() misses none; and so a block is in at  *)
(* most one buffer, also when two processes miss it at the same time.      *)
RingWhole ==
  /\ TypeOK
  /\ \A b, c \in Bufs : (blockno[b] = blockno[c] /\ b # c) => blockno[b] = NoBlock
  /\ \A b \in 0 .. NBUF : prev[next[b]] = b
  /\ {Back[n] : n \in 1 .. NBUF} = Bufs

(* bget() panics with "no buffers" only when the log's pins and the        *)
(* buffers that processes hold or wait for take up all of NBUF.            *)
PanicOnlyWhenFull ==
  [][(\E p \in Procs : pc'[p] = "panic" /\ pc[p] # "panic")
       => Cardinality(logged)
          + Cardinality({b \in Bufs : locked[b] # NoProc})
          + Cardinality({p \in Procs : pc[p] \in {"lock", "unref"}}) >= NBUF]_vars

(* The contents of a block as a caller would get them.                     *)
Current(k) ==
  IF \E b \in Cached(k) : valid[b]
  THEN data[CHOOSE b \in Cached(k) : valid[b]] ELSE disk[k]

Owner(k) ==
  IF \E b \in Cached(k) : locked[b] # NoProc
  THEN locked[CHOOSE b \in Cached(k) : locked[b] # NoProc] ELSE NoProc

BS == INSTANCE BlockStore WITH val <- [k \in Blocks |-> Current(k)],
                               owner <- [k \in Blocks |-> Owner(k)]

(* The cache is coherent: through lookup, recycling, pinning and write     *)
(* back, a block keeps the value last given to it and has one holder.      *)
Coherent == BS!Spec

(* No call of bread() or brelse() goes on for ever, unless the machine     *)
(* stops for lack of buffers.                                              *)
BreadReturns ==
  \A p \in Procs : []<>(pc[p] = "run" \/ ~CacheLockFree)
=============================================================================
