------------------------------- MODULE Inode -------------------------------
(***************************************************************************)
(* The inodes of kernel/fs.c and the calls of kernel/sysfile.c and         *)
(* kernel/file.c that create, link, unlink, open, write and close files in *)
(* one directory, the root.                                                *)
(*                                                                         *)
(* An inode lives as a dinode on disk, with a link count, and as an entry  *)
(* of itable, with a reference count.  It is free when both are zero, and  *)
(* the counts are kept by different steps of different processes.  The     *)
(* disk is what module AtomicDisk promises: cur is what the calls in       *)
(* progress see, and it becomes durable when the last of them ends.        *)
(***************************************************************************)
EXTENDS Integers, FiniteSets, FiniteSetsExt

CONSTANTS
  Procs, NoProc,  \* processes, "not locked"
  Names,          \* names of directory entries
  NInodes,        \* inode numbers 1 .. NInodes, the root left out
  NINODE,         \* entries of itable
  Blocks,         \* data blocks; a file has at most one
  NLINK_MAX,
  MaxGroup        \* calls between two commits: the space of the log

Inums == 1 .. NInodes
Slots == 1 .. NINODE
None == 0

ASSUME InodeAssumption ==
  /\ NInodes \in Nat /\ NINODE \in Nat /\ NLINK_MAX \in Nat /\ MaxGroup \in Nat
  /\ Blocks \subseteq Nat \ {None} /\ NoProc \notin Procs
  /\ IsFiniteSet(Procs) /\ IsFiniteSet(Names)

VARIABLES
  cur, dur,     \* the file system as the calls see it, and as it is on disk
  inum, ref, valid, mem, lock,  \* itable: fields of struct inode
  dlock,        \* lock of the root directory
  file,         \* f->ip of the file a process has open
  pc, ret,      \* where a process is, where its iput() returns to
  arg,          \* the name, and the new name of sys_link()
  ip, put,      \* the inode a call works on, the one its iput() drops
  num,          \* an inode or block number kept across a step
  group,        \* calls begun since the last commit
  boot          \* ireclaim(): the next inode number; NInodes + 1 when done

table == <<inum, ref, valid, mem, lock>>
local == <<arg, ip, put, num>>
logged == <<dur, group>>
vars == <<cur, logged, table, dlock, file, pc, ret, local, boot>>

Empty == [nlink |-> 0, addr |-> None]

(* An image with no files.                                                 *)
NewImage == [type |-> {}, ino |-> [i \in Inums |-> Empty], bitmap |-> {},
             dir |-> [n \in Names |-> None]]

Init ==
  /\ cur = NewImage /\ dur = NewImage
  /\ inum = [s \in Slots |-> None] /\ ref = [s \in Slots |-> 0]
  /\ valid = [s \in Slots |-> FALSE] /\ mem = [s \in Slots |-> Empty]
  /\ lock = [s \in Slots |-> NoProc] /\ dlock = NoProc
  /\ file = [p \in Procs |-> None]
  /\ pc = [p \in Procs |-> "idle"] /\ ret = [p \in Procs |-> "end"]
  /\ arg = [p \in Procs |-> <<>>] /\ num = [p \in Procs |-> None]
  /\ ip = [p \in Procs |-> None] /\ put = [p \in Procs |-> None]
  /\ group = 0 /\ boot = 1

Up == boot > NInodes
Go(p, l) == pc' = [pc EXCEPT ![p] = l]

(* The call ends; what it kept in local variables is gone.                 *)
Forget(p) ==
  /\ arg' = [arg EXCEPT ![p] = <<>>] /\ ip' = [ip EXCEPT ![p] = None]
  /\ put' = [put EXCEPT ![p] = None] /\ num' = [num EXCEPT ![p] = None]

-----------------------------------------------------------------------------
(* The operations of fs.c on an inode.                                     *)

(* iget() returns the entry that has the inode, else the first empty one.  *)
SlotFor(i) ==
  LET has == {s \in Slots : ref[s] > 0 /\ inum[s] = i}
      empty == {s \in Slots : ref[s] = 0} IN
  IF has # {} THEN Min(has) ELSE IF empty # {} THEN Min(empty) ELSE None

(* iget(i) for process p, which goes on at l with the entry.               *)
Iget(p, i, l) ==
  LET s == SlotFor(i)
      new == ref[s] = 0 IN
  IF s = None THEN Go(p, "panic") /\ UNCHANGED table
  ELSE /\ ref' = [ref EXCEPT ![s] = @ + 1]
       /\ inum' = [inum EXCEPT ![s] = i]
       /\ valid' = [valid EXCEPT ![s] = @ /\ ~new]
       /\ Go(p, l)
       /\ UNCHANGED <<mem, lock>>

(* ilock(ip) at l: wait for the lock, read the dinode if need be.          *)
Ilock(p, l, to) ==
  LET s == ip[p] IN
  /\ pc[p] = l /\ lock[s] = NoProc
  /\ lock' = [lock EXCEPT ![s] = p]
  /\ valid' = [valid EXCEPT ![s] = TRUE]
  /\ mem' = [mem EXCEPT ![s] = IF valid[s] THEN @ ELSE cur.ino[inum[s]]]
  /\ Go(p, IF ~valid[s] /\ inum[s] \notin cur.type THEN "panic" ELSE to)
  /\ UNCHANGED <<cur, logged, inum, ref, dlock, file, ret, local, boot>>

Iunlock(p) == lock' = [lock EXCEPT ![ip[p]] = NoProc]

(* Go on with iput(s), then at l; the call needs nothing else at its end.  *)
ThenPut(p, s, l) ==
  /\ Go(p, "iput") /\ ret' = [ret EXCEPT ![p] = l] /\ put' = [put EXCEPT ![p] = s]
  /\ IF l = "end"
     THEN /\ arg' = [arg EXCEPT ![p] = <<>>]
          /\ ip' = [ip EXCEPT ![p] = None] /\ num' = [num EXCEPT ![p] = None]
     ELSE UNCHANGED <<arg, ip, num>>

(* iupdate() copies all fields to the dinode, its type included.           *)
Iupdate(i, d) == [cur EXCEPT !.type = @ \cup {i}, !.ino[i] = d]

(* ip->nlink += n; iupdate(ip).                                            *)
AddLink(p, n) ==
  LET s == ip[p]
      d == [mem[s] EXCEPT !.nlink = @ + n] IN
  /\ mem' = [mem EXCEPT ![s] = d]
  /\ cur' = Iupdate(inum[s], d)

(* Is this the last reference to an inode without links?                   *)
Last(s) == ref[s] = 1 /\ valid[s] /\ mem[s].nlink = 0

(* iput(), with itable.lock.  If the inode is to be freed, acquiresleep()  *)
(* must not have to wait: it would sleep with the spinlock held.  The      *)
(* contents of an entry without references are dead and are cleared to     *)
(* keep the state small.                                                   *)
Iput(p) ==
  LET s == put[p] IN
  /\ pc[p] = "iput"
  /\ IF Last(s)
     THEN /\ Go(p, IF lock[s] = NoProc THEN "itrunc" ELSE "panic")
          /\ lock' = [lock EXCEPT ![s] = p]
          /\ UNCHANGED <<ref, mem, put>>
     ELSE /\ Go(p, ret[p])
          /\ ref' = [ref EXCEPT ![s] = @ - 1]
          /\ mem' = [mem EXCEPT ![s] = IF ref[s] = 1 THEN Empty ELSE @]
          /\ put' = [put EXCEPT ![p] = None]
          /\ UNCHANGED lock
  /\ UNCHANGED <<cur, logged, inum, valid, dlock, file, ret, arg, ip, num, boot>>

(* itrunc() frees the block ...                                            *)
Itrunc(p) ==
  LET b == mem[put[p]].addr IN
  /\ pc[p] = "itrunc"
  /\ cur' = [cur EXCEPT !.bitmap = @ \ {b}]
  /\ Go(p, IF b # None /\ b \notin cur.bitmap THEN "panic" ELSE "iupdate")
  /\ UNCHANGED <<logged, table, dlock, file, ret, local, boot>>

Truncated(d) == [d EXCEPT !.addr = None]

(* ... and writes the inode; iput() marks the entry invalid and unlocks.   *)
ItruncUpdate(p) ==
  LET s == put[p] IN
  /\ pc[p] = "iupdate"
  /\ mem' = [mem EXCEPT ![s] = Truncated(@)]
  /\ cur' = Iupdate(inum[s], Truncated(mem[s]))
  /\ valid' = [valid EXCEPT ![s] = FALSE]
  /\ lock' = [lock EXCEPT ![s] = NoProc]
  /\ Go(p, "unref")
  /\ UNCHANGED <<logged, inum, ref, dlock, file, ret, local, boot>>

(* iput() drops the reference, and then clears the type on disk.           *)
Unref(p) ==
  LET s == put[p] IN
  /\ pc[p] = "unref"
  /\ ref' = [ref EXCEPT ![s] = @ - 1]
  /\ num' = [num EXCEPT ![p] = inum[s]]
  /\ Go(p, "ifree")
  /\ UNCHANGED <<cur, logged, inum, valid, mem, lock, dlock, file, ret, arg, ip, put, boot>>

(* Mutant: the number is read after the entry may have been recycled.      *)
IfreeRereads(p) ==
  /\ pc[p] = "ifree"
  /\ cur' = [cur EXCEPT !.type = @ \ {inum[put[p]]}]
  /\ Go(p, ret[p])
  /\ UNCHANGED <<logged, table, dlock, file, ret, local, boot>>

Ifree(p) ==
  /\ pc[p] = "ifree"
  /\ cur' = [cur EXCEPT !.type = @ \ {num[p]}]
  /\ Go(p, ret[p])
  /\ UNCHANGED <<logged, table, dlock, file, ret, local, boot>>

-----------------------------------------------------------------------------
(* begin_op() and end_op(), and the start of each call.                    *)

BeginOp(p) ==
  /\ pc[p] = "idle" /\ Up
  /\ group < MaxGroup
  /\ group' = group + 1

Call(p, l, a, s) ==
  /\ BeginOp(p)
  /\ Go(p, l)
  /\ arg' = [arg EXCEPT ![p] = a] /\ ip' = [ip EXCEPT ![p] = s]
  /\ UNCHANGED <<cur, dur, table, dlock, put, num, boot>>

Start(p) ==
  \/ /\ \E n \in Names : \/ \E l \in {"open", "create", "unlink"} : Call(p, l, <<n>>, None)
                         \/ \E m \in Names : Call(p, "link", <<n, m>>, None)
     /\ UNCHANGED <<file, ret>>
  \/ /\ file[p] # None /\ Call(p, "write", <<>>, file[p])
     /\ UNCHANGED <<file, ret>>

(* fileclose() of the last descriptor.                                     *)
Close(p) ==
  /\ BeginOp(p) /\ file[p] # None
  /\ file' = [file EXCEPT ![p] = None]
  /\ ThenPut(p, file[p], "end")
  /\ UNCHANGED <<cur, dur, table, dlock, boot>>

(* Mutant: every end_op() commits, also while other calls are in progress. *)
CommitsAlways(p) == TRUE

Commits(p) == \A q \in Procs \ {p} : pc[q] \in {"idle", "panic"}

EndOp(p) ==
  /\ pc[p] = "end"
  /\ IF Commits(p) THEN dur' = cur /\ group' = 0 ELSE UNCHANGED logged
  /\ Go(p, "idle") /\ ret' = [ret EXCEPT ![p] = "end"] /\ Forget(p)
  /\ UNCHANGED <<cur, table, dlock, file, boot>>

-----------------------------------------------------------------------------
(* namei(), create() and the rest of sys_open()                            *)

(* Where a call goes on when its name exists.                              *)
FoundAt(l) == CASE l \in {"open", "create"} -> "lock_open" [] l = "link" -> "lock_link"

(* Lock the directory, look the name up, unlock the directory.             *)
Found(p) ==
  LET i == cur.dir[arg[p][1]] IN
  /\ pc[p] \in {"open", "create", "link"} /\ dlock = NoProc
  /\ i # None
  /\ Iget(p, i, FoundAt(pc[p])) /\ ip' = [ip EXCEPT ![p] = SlotFor(i)]
  /\ UNCHANGED <<cur, logged, dlock, file, ret, arg, put, num, boot>>

NotFound(p) ==
  /\ pc[p] \in {"open", "link", "unlink"} /\ dlock = NoProc
  /\ cur.dir[arg[p][1]] = None
  /\ Go(p, "end")
  /\ UNCHANGED <<cur, logged, table, dlock, file, ret, local, boot>>

(* filealloc() and fdalloc() succeed or fail.                              *)
OpenFile(p) ==
  /\ pc[p] = "opened"
  /\ Iunlock(p)
  /\ \/ /\ file[p] = None
        /\ file' = [file EXCEPT ![p] = ip[p]]
        /\ Go(p, "end") /\ UNCHANGED <<ret, local>>
     \/ ThenPut(p, ip[p], "end") /\ UNCHANGED file
  /\ UNCHANGED <<cur, logged, inum, ref, valid, mem, dlock, boot>>

(* create() keeps the directory locked while it allocates an inode.        *)
Ialloc(p) ==
  LET avail == Inums \ cur.type IN
  /\ pc[p] = "create" /\ dlock = NoProc
  /\ cur.dir[arg[p][1]] = None
  /\ IF avail = {} THEN Go(p, "end") /\ UNCHANGED <<cur, dlock, num>>
     ELSE /\ cur' = [cur EXCEPT !.type = @ \cup {Min(avail)}, !.ino[Min(avail)] = Empty]
          /\ num' = [num EXCEPT ![p] = Min(avail)]
          /\ dlock' = p
          /\ Go(p, "ialloc")
  /\ UNCHANGED <<logged, table, file, ret, arg, ip, put, boot>>

IallocIget(p) ==
  /\ pc[p] = "ialloc"
  /\ Iget(p, num[p], "lock_new") /\ ip' = [ip EXCEPT ![p] = SlotFor(num[p])]
  /\ num' = [num EXCEPT ![p] = None]
  /\ UNCHANGED <<cur, logged, dlock, file, ret, arg, put, boot>>

(* dirlink() of the new inode.                                             *)
CreateLinks(p) ==
  /\ pc[p] = "new"
  /\ LET s == ip[p] IN
     /\ mem' = [mem EXCEPT ![s].nlink = 1]
     /\ cur' = [Iupdate(inum[s], [mem[s] EXCEPT !.nlink = 1])
                  EXCEPT !.dir[arg[p][1]] = inum[s]]
  /\ dlock' = NoProc
  /\ Go(p, "opened")
  /\ UNCHANGED <<logged, inum, ref, valid, lock, file, ret, local, boot>>

(* dirlink() fails because the disk is full: free the inode again.         *)
CreateFails(p) ==
  /\ pc[p] = "new"
  /\ LET s == ip[p]
         d == [mem[s] EXCEPT !.nlink = 0] IN
     /\ mem' = [mem EXCEPT ![s] = d]
     /\ cur' = Iupdate(inum[s], d)
  /\ Iunlock(p) /\ ThenPut(p, ip[p], "unlock_dir")
  /\ UNCHANGED <<logged, inum, ref, valid, dlock, file, boot>>

(* Mutant: iunlockput(dp) is left out.                                     *)
UnlockDirKeeps(p) ==
  /\ pc[p] \in {"unlock_dir", "unlock_dir_bad"}
  /\ Go(p, IF pc[p] = "unlock_dir" THEN "end" ELSE "lock_bad")
  /\ UNCHANGED <<cur, logged, table, dlock, file, ret, local, boot>>

(* iunlockput(dp) at the end of a failed create() or sys_link().           *)
UnlockDir(p) ==
  /\ pc[p] \in {"unlock_dir", "unlock_dir_bad"}
  /\ dlock' = NoProc
  /\ Go(p, IF pc[p] = "unlock_dir" THEN "end" ELSE "lock_bad")
  /\ UNCHANGED <<cur, logged, table, file, ret, local, boot>>

-----------------------------------------------------------------------------
(* sys_link(): count the link, unlock, then enter the name.                *)

LinkCounts(p) ==
  /\ pc[p] = "linking"
  /\ Iunlock(p)
  /\ IF mem[ip[p]].nlink >= NLINK_MAX
     THEN ThenPut(p, ip[p], "end") /\ UNCHANGED <<cur, mem>>
     ELSE AddLink(p, 1) /\ Go(p, "link_dir") /\ UNCHANGED <<ret, local>>
  /\ UNCHANGED <<logged, inum, ref, valid, dlock, file, boot>>

LinkEnters(p) ==
  /\ pc[p] = "link_dir" /\ dlock = NoProc
  /\ cur.dir[arg[p][2]] = None
  /\ \/ /\ cur' = [cur EXCEPT !.dir[arg[p][2]] = inum[ip[p]]]
        /\ ThenPut(p, ip[p], "end")
     \/ Go(p, "lock_bad") /\ UNCHANGED <<cur, ret, local>>      \* disk full
  /\ UNCHANGED <<logged, table, dlock, file, boot>>

(* dirlink() finds the name in use; it drops the inode it has looked up.   *)
LinkExists(p) ==
  LET i == cur.dir[arg[p][2]] IN
  /\ pc[p] = "link_dir" /\ dlock = NoProc
  /\ i # None
  /\ Iget(p, i, "iput")
  /\ put' = [put EXCEPT ![p] = SlotFor(i)]
  /\ ret' = [ret EXCEPT ![p] = "unlock_dir_bad"]
  /\ dlock' = p
  /\ UNCHANGED <<cur, logged, file, arg, ip, num, boot>>

LinkUndoes(p) ==
  /\ pc[p] = "undo"
  /\ AddLink(p, -1)
  /\ Iunlock(p) /\ ThenPut(p, ip[p], "end")
  /\ UNCHANGED <<logged, inum, ref, valid, dlock, file, boot>>

-----------------------------------------------------------------------------
(* sys_unlink(): the entry goes first, with the directory locked; the      *)
(* count after the directory is unlocked.                                  *)

UnlinkFinds(p) ==
  LET i == cur.dir[arg[p][1]] IN
  /\ pc[p] = "unlink" /\ dlock = NoProc
  /\ i # None
  /\ Iget(p, i, "lock_unlink") /\ ip' = [ip EXCEPT ![p] = SlotFor(i)]
  /\ dlock' = p
  /\ UNCHANGED <<cur, logged, file, ret, arg, put, num, boot>>

UnlinkErases(p) ==
  /\ pc[p] = "unlinking"
  /\ cur' = [cur EXCEPT !.dir[arg[p][1]] = None]
  /\ dlock' = NoProc
  /\ Go(p, IF mem[ip[p]].nlink < 1 THEN "panic" ELSE "erased")
  /\ UNCHANGED <<logged, table, file, ret, local, boot>>

(* Mutant: the count changes in memory only.                               *)
UnlinkNoUpdate(p) ==
  /\ pc[p] = "erased"
  /\ mem' = [mem EXCEPT ![ip[p]].nlink = @ - 1]
  /\ Iunlock(p) /\ ThenPut(p, ip[p], "end")
  /\ UNCHANGED <<cur, logged, inum, ref, valid, dlock, file, boot>>

UnlinkCounts(p) ==
  /\ pc[p] = "erased"
  /\ AddLink(p, -1)
  /\ Iunlock(p) /\ ThenPut(p, ip[p], "end")
  /\ UNCHANGED <<logged, inum, ref, valid, dlock, file, boot>>

-----------------------------------------------------------------------------
(* filewrite(): writei() allocates the block of an empty file with bmap(). *)

Balloc(p) ==
  LET avail == Blocks \ cur.bitmap
      none == mem[ip[p]].addr # None \/ avail = {} IN
  /\ pc[p] = "writing"
  /\ num' = [num EXCEPT ![p] = IF none THEN mem[ip[p]].addr ELSE Min(avail)]
  /\ cur' = [cur EXCEPT !.bitmap = IF none THEN @ ELSE @ \cup {Min(avail)}]
  /\ Go(p, "wrote")
  /\ UNCHANGED <<logged, table, dlock, file, ret, arg, ip, put, boot>>

Writei(p) ==
  LET s == ip[p]
      d == [mem[s] EXCEPT !.addr = num[p]] IN
  /\ pc[p] = "wrote"
  /\ mem' = [mem EXCEPT ![s] = d]
  /\ cur' = Iupdate(inum[s], d)
  /\ Iunlock(p) /\ Go(p, "end")
  /\ UNCHANGED <<logged, inum, ref, valid, dlock, file, ret, local, boot>>

-----------------------------------------------------------------------------
(* A crash, and ireclaim() at boot, which no call can overlap.             *)

Crash ==
  /\ cur' = dur
  /\ inum' = [s \in Slots |-> None] /\ ref' = [s \in Slots |-> 0]
  /\ valid' = [s \in Slots |-> FALSE] /\ mem' = [s \in Slots |-> Empty]
  /\ lock' = [s \in Slots |-> NoProc] /\ dlock' = NoProc
  /\ file' = [p \in Procs |-> None]
  /\ pc' = [p \in Procs |-> "idle"] /\ ret' = [p \in Procs |-> "end"]
  /\ arg' = [p \in Procs |-> <<>>] /\ num' = [p \in Procs |-> None]
  /\ ip' = [p \in Procs |-> None] /\ put' = [p \in Procs |-> None]
  /\ group' = 0 /\ boot' = 1
  /\ UNCHANGED dur

Orphan(i) == i \in cur.type /\ cur.ino[i].nlink = 0

(* An orphan gets an entry, is locked, unlocked and put.                   *)
Reclaim(p) ==
  /\ ~Up /\ \A q \in Procs : pc[q] = "idle"
  /\ boot' = boot + 1
  /\ IF Orphan(boot)
     THEN Iget(p, boot, "lock_orphan") /\ ip' = [ip EXCEPT ![p] = SlotFor(boot)]
     ELSE UNCHANGED <<table, pc, ip>>
  /\ UNCHANGED <<cur, logged, dlock, file, ret, arg, put, num>>

ReclaimPut(p) ==
  /\ pc[p] = "orphan"
  /\ Iunlock(p) /\ ThenPut(p, ip[p], "end")
  /\ UNCHANGED <<cur, logged, inum, ref, valid, mem, dlock, file, boot>>

(* The calls of ilock().                                                   *)
IlockSteps(p) ==
  \/ Ilock(p, "lock_open", "opened") \/ Ilock(p, "lock_new", "new")
  \/ Ilock(p, "lock_link", "linking") \/ Ilock(p, "lock_bad", "undo")
  \/ Ilock(p, "lock_unlink", "unlinking") \/ Ilock(p, "write", "writing")
  \/ Ilock(p, "lock_orphan", "orphan")

Step(p) ==
  \/ IlockSteps(p)
  \/ Iput(p) \/ Itrunc(p) \/ ItruncUpdate(p) \/ Unref(p) \/ Ifree(p) \/ EndOp(p)
  \/ Found(p) \/ NotFound(p) \/ OpenFile(p)
  \/ Ialloc(p) \/ IallocIget(p) \/ CreateLinks(p) \/ CreateFails(p) \/ UnlockDir(p)
  \/ LinkCounts(p) \/ LinkEnters(p) \/ LinkExists(p) \/ LinkUndoes(p)
  \/ UnlinkFinds(p) \/ UnlinkErases(p) \/ UnlinkCounts(p)
  \/ Balloc(p) \/ Writei(p) \/ ReclaimPut(p)

Next ==
  \/ Crash
  \/ \E p \in Procs : Start(p) \/ Close(p) \/ Reclaim(p) \/ Step(p)

Spec == Init /\ [][Next]_vars
-----------------------------------------------------------------------------
(* Properties.                                                             *)

Quiet == Up /\ \A p \in Procs : pc[p] = "idle"

Labels ==
  {"idle", "panic", "end", "iput", "itrunc", "iupdate", "unref", "ifree", "open",
   "create", "link", "unlink", "write", "lock_open", "opened", "ialloc", "lock_new",
   "new", "unlock_dir", "unlock_dir_bad", "lock_link", "linking", "link_dir",
   "lock_bad", "undo", "lock_unlink", "unlinking", "erased", "writing", "wrote",
   "lock_orphan", "orphan"}

(* Types; ref and nlink never go below zero.                               *)
TypeOK ==
  /\ \A d \in {cur, dur} :
       /\ d.type \subseteq Inums /\ d.bitmap \subseteq Blocks
       /\ d.ino \in [Inums -> [nlink : Nat, addr : Blocks \cup {None}]]
       /\ d.dir \in [Names -> Inums \cup {None}]
  /\ inum \in [Slots -> Inums \cup {None}] /\ ref \in [Slots -> Nat]
  /\ valid \in [Slots -> BOOLEAN]
  /\ mem \in [Slots -> [nlink : Nat, addr : Blocks \cup {None}]]
  /\ lock \in [Slots -> Procs \cup {NoProc}] /\ dlock \in Procs \cup {NoProc}
  /\ pc \in [Procs -> Labels] /\ boot \in 1 .. NInodes + 1
  /\ group \in 0 .. MaxGroup

(* None of the panics is reached: ilock() of a free inode, an unlink of an *)
(* inode without links, a table without room, a block freed twice; nor     *)
(* does iput() have to wait in acquiresleep() while it holds itable.lock.  *)
NoPanic == \A p \in Procs : pc[p] # "panic"

(* An inode with a reference is not freed on disk under its holder, nor    *)
(* given to somebody else by ialloc(); so none of the panics is reached.   *)
ReferencedIsAllocated ==
  NoPanic /\ \A s \in Slots : ref[s] > 0 => inum[s] \in cur.type

(* What is in memory of an unlocked inode is what is on disk, so that it   *)
(* does not matter when the entry is recycled; and an inode is in at most  *)
(* one entry in use: iget() finds it also while iput() gives it up.        *)
MemoryMatchesDisk ==
  /\ TypeOK
  /\ \A s, t \in Slots : (ref[s] > 0 /\ ref[t] > 0 /\ inum[s] = inum[t]) => s = t
  /\ \A s \in Slots :
       (ref[s] > 0 /\ valid[s] /\ lock[s] = NoProc) => mem[s] = cur.ino[inum[s]]

(* Whenever the machine crashes, the disk it comes back with has a link    *)
(* count for every inode that equals the entries that name it, no entry    *)
(* that names a free inode, and a bitmap that marks exactly the blocks of  *)
(* the inodes, each block in one inode.  An inode without links stays      *)
(* allocated only while somebody has it open: ireclaim() frees those that  *)
(* a crash leaves behind.                                                  *)
DiskConsistent ==
  LET used == {i \in dur.type : dur.ino[i].addr # None} IN
  /\ \A i \in dur.type :
       dur.ino[i].nlink = Cardinality({n \in Names : dur.dir[n] = i})
  /\ \A n \in Names : dur.dir[n] \in dur.type \cup {None}
  /\ dur.bitmap = {dur.ino[i].addr : i \in used}
  /\ Cardinality(dur.bitmap) = Cardinality(used)
  /\ Quiet => \A i \in Inums : Orphan(i) =>
                \E p \in Procs : file[p] # None /\ inum[file[p]] = i

(* The calls do not block each other for ever: while a call is in          *)
(* progress, some call can take a step.                                    *)
NobodyStuck == (\E p \in Procs : pc[p] # "idle") => ENABLED (\E p \in Procs : Step(p))
=============================================================================
