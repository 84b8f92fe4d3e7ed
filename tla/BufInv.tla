------------------------------- MODULE BufInv -------------------------------
(***************************************************************************)
(* The inductive invariant of BufCache: what the reference count, the      *)
(* sleep lock and the valid flag of a buffer say about its contents, and   *)
(* the order of the list.                                                  *)
(***************************************************************************)
EXTENDS BufCache

(* The processes that have a reference to b but not its sleep lock.        *)
Waiting(b) == {p \in Procs : pc[p] \in {"lock", "unref"} /\ got[p] = b}

(* A process between bget() and brelse() has a buffer, which stays that of *)
(* the block it asked for.                                                 *)
HasBuffer(p) ==
  /\ pc[p] \in {"lock", "bread", "unref"} => got[p] \in Bufs
  /\ pc[p] \in {"lock", "bread"} => want[p] \in Blocks /\ blockno[got[p]] = want[p]
  /\ pc[p] = "bread" => locked[got[p]] = p
  /\ p \in asleep => pc[p] = "lock"

(* A locked buffer has been read, unless bread() is about to read it.      *)
HasContents(b) ==
  locked[b] # NoProc =>
    /\ blockno[b] \in Blocks
    /\ valid[b] \/ (pc[locked[b]] = "bread" /\ got[locked[b]] = b)

HolderInv ==
  /\ \A p \in Procs : HasBuffer(p)
  /\ \A b \in Bufs : HasContents(b)

(* A block is in at most one buffer.                                       *)
UniqueInv ==
  \A b, c \in Bufs : (blockno[b] = blockno[c] /\ b # c) => blockno[b] = NoBlock

(* A block that the log has not installed yet is in its buffer; any other  *)
(* buffer is as good as the disk.                                          *)
DataInv ==
  /\ \A b \in Bufs : valid[b] =>
       /\ blockno[b] \in Blocks
       /\ blockno[b] \notin logged => data[b] = disk[blockno[b]]
  /\ \A k \in logged : \E b \in Cached(k) : valid[b]

(* A reference for the lock, one for each process that waits for it or has *)
(* just released it, and one for the log.                                  *)
CountInv ==
  \A b \in Bufs :
    refcnt[b] = (IF locked[b] = NoProc THEN 0 ELSE 1) + Cardinality(Waiting(b))
              + (IF blockno[b] \in logged THEN 1 ELSE 0)

(* The list, of next pointers nx and prev pointers pv, has the order f:     *)
(* f[0] is bcache.head, and f[n] the n-th buffer from the end of the list. *)
Order(f, nx, pv) ==
  /\ f[0] = head /\ \A m, n \in 0 .. NBUF : f[m] = f[n] => m = n
  /\ \A c \in 0 .. NBUF : \E n \in 0 .. NBUF : f[n] = c
  /\ \A n \in 1 .. NBUF : pv[f[n - 1]] = f[n] /\ nx[f[n]] = f[n - 1]
  /\ pv[f[NBUF]] = head /\ nx[head] = f[NBUF]

(* The list is one ring through all buffers.                               *)
ListInv == \E f \in [0 .. NBUF -> 0 .. NBUF] : Order(f, next, prev)

(* The parts together.                                                     *)
BInv == TypeOK /\ HolderInv /\ UniqueInv /\ CountInv /\ DataInv

(* Current(k) and Owner(k) in terms of the buffers, without a choice.      *)
View ==
  \A k \in Blocks :
    /\ \A b \in Bufs : (blockno[b] = k /\ valid[b]) => Current(k) = data[b]
    /\ (\A b \in Bufs : ~(blockno[b] = k /\ valid[b])) => Current(k) = disk[k]
    /\ \A b \in Bufs : (blockno[b] = k /\ locked[b] # NoProc) => Owner(k) = locked[b]
    /\ (\A b \in Bufs : ~(blockno[b] = k /\ locked[b] # NoProc)) => Owner(k) = NoProc
=============================================================================
