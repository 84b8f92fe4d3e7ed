------------------------------ MODULE InodeInv ------------------------------
(***************************************************************************)
(* The inductive invariant of Inode: who has a reference to an inode, who  *)
(* has its lock, and what the calls in progress have done to the disk and  *)
(* have yet to do.                                                         *)
(***************************************************************************)
EXTENDS Inode

Dinode == [nlink : Nat, addr : Blocks \cup {None}]
Disk == [type : SUBSET Inums, ino : [Inums -> Dinode], bitmap : SUBSET Blocks,
         dir : [Names -> Inums \cup {None}]]

-----------------------------------------------------------------------------
(* The labels, by what a process has there.                                *)

(* In iput(), with and without the reference it drops.                     *)
PutLabels == {"iput", "itrunc", "iupdate", "unref"}
Putting == PutLabels \cup {"ifree"}

(* sys_link() has found its new name in use.                               *)
Bad(p) == ret[p] = "unlock_dir_bad" /\ pc[p] \in Putting

(* A reference of its own, in ip.                                          *)
IpLabels ==
  {"lock_open", "opened", "lock_new", "new", "lock_link", "linking", "link_dir",
   "unlock_dir_bad", "lock_bad", "undo", "lock_unlink", "unlinking", "erased",
   "lock_orphan", "orphan"}

(* The lock of ip, and that of put.                                        *)
WriteLabels == {"writing", "wrote"}
LockLabels ==
  WriteLabels \cup {"opened", "new", "linking", "undo", "unlinking", "erased", "orphan"}
TruncLabels == {"itrunc", "iupdate"}

(* The lock of the directory.                                              *)
NewLabels == {"lock_new", "new"}
UnlinkLabels == {"lock_unlink", "unlinking"}
InDir(p) ==
  \/ pc[p] \in {"ialloc", "unlock_dir", "unlock_dir_bad"} \cup NewLabels \cup UnlinkLabels
  \/ pc[p] \in Putting /\ ret[p] \in {"unlock_dir", "unlock_dir_bad"}

(* An inode number in num that nobody else knows.                          *)
NumLabels == {"ialloc", "ifree"}

(* The only reference to an inode without links, in put.                   *)
LoneLabels == TruncLabels \cup {"unref"}

(* One name, and two.                                                      *)
TwoLabels == {"link", "lock_link", "linking", "link_dir"}
NameLabels == {"open", "create", "link", "unlink", "ialloc"} \cup NewLabels \cup UnlinkLabels

(* A link that the count has and the directory does not have.              *)
Owes(p) == pc[p] \in {"link_dir", "unlock_dir_bad", "lock_bad", "undo", "erased"} \/ Bad(p)

-----------------------------------------------------------------------------
(* What each process has, None where it has nothing.                       *)

(* The entries it has references to, besides file.                         *)
IpRef == [p \in Procs |-> IF pc[p] \in IpLabels \/ Bad(p) THEN ip[p] ELSE None]
PutRef == [p \in Procs |-> IF pc[p] \in PutLabels THEN put[p] ELSE None]

(* The entry it has locked.                                                *)
LockOf == [p \in Procs |-> IF pc[p] \in LockLabels THEN ip[p]
                           ELSE IF pc[p] \in TruncLabels THEN put[p] ELSE None]

(* The entry whose link count is one ahead of the directory.               *)
Owner == [p \in Procs |-> IF Owes(p) THEN ip[p] ELSE None]

(* The entry that nobody else has a reference to.                          *)
Lone == [p \in Procs |-> IF pc[p] \in NewLabels THEN ip[p]
                         ELSE IF pc[p] \in LoneLabels THEN put[p] ELSE None]

(* The entry whose block itrunc() has freed, but whose address is still    *)
(* on disk.                                                                *)
Emptied == [p \in Procs |-> IF pc[p] = "iupdate" THEN put[p] ELSE None]

(* The inode number that only it knows, and the block it is adding.        *)
Private == [p \in Procs |-> IF pc[p] \in NumLabels THEN num[p] ELSE None]
Adding == [p \in Procs |-> IF pc[p] = "wrote" THEN num[p] ELSE None]

-----------------------------------------------------------------------------
Count(f, v) == Cardinality({x \in DOMAIN f : f[x] = v})

LocalOK ==
  /\ cur \in Disk /\ dur \in Disk
  /\ file \in [Procs -> Slots \cup {None}] /\ ip \in [Procs -> Slots \cup {None}]
  /\ put \in [Procs -> Slots \cup {None}] /\ num \in [Procs -> Nat]
  /\ ret \in [Procs -> {"end", "unlock_dir", "unlock_dir_bad"}] /\ DOMAIN arg = Procs

(* What the local variables hold where they are used.                      *)
ArgOK(p) ==
  /\ pc[p] \in IpLabels \/ Bad(p) => ip[p] \in Slots
  /\ pc[p] \in PutLabels => put[p] \in Slots
  /\ pc[p] \in WriteLabels \cup {"write"} => ip[p] \in Slots /\ ip[p] = file[p]
  /\ pc[p] \in NumLabels => num[p] \in Inums
  /\ pc[p] \in NameLabels => arg[p][1] \in Names
  /\ pc[p] \in TwoLabels \/ Bad(p) => arg[p][2] \in Names

ArgInv == \A p \in Procs : ArgOK(p)

(* The reference count of an entry is the number of references to it.      *)
RefInv ==
  \A s \in Slots : ref[s] = Count(file, s) + Count(IpRef, s) + Count(PutRef, s)

(* An inode in use is in one entry, and its dinode is in use.              *)
TableInv ==
  /\ \A s \in Slots : ref[s] > 0 => inum[s] \in cur.type
  /\ \A s, t \in Slots : (ref[s] > 0 /\ ref[t] > 0 /\ inum[s] = inum[t]) => s = t
  /\ \A s \in Slots : (ref[s] > 0 /\ valid[s]) => mem[s] = cur.ino[inum[s]]

(* An inode without links, and with one reference or none.                 *)
LoneOK(p) ==
  /\ Lone[p] # None => ref[Lone[p]] = 1 /\ cur.ino[inum[Lone[p]]].nlink = 0
  /\ pc[p] = "unref" => cur.ino[inum[put[p]]].addr = None
PrivateOK(p) ==
  Private[p] # None =>
    /\ Private[p] \in cur.type /\ cur.ino[Private[p]] = Empty
    /\ \A s \in Slots : ref[s] > 0 => inum[s] # Private[p]
    /\ \A q \in Procs \ {p} : Private[q] # Private[p]

LoneInv == \A p \in Procs : LoneOK(p) /\ PrivateOK(p)

(* A lock has one holder; and an inode stays valid for a process that has  *)
(* read it.  Only sys_link() drops an inode that nobody may have read.     *)
LockInv == \A p \in Procs, s \in Slots : LockOf[p] = s <=> lock[s] = p

ValidOK(p) ==
  /\ \A s \in Slots : s \in {LockOf[p], Owner[p], file[p]} => valid[s]
  /\ pc[p] = "iput" => valid[put[p]] \/ Bad(p)

ValidInv == \A p \in Procs : ValidOK(p)

(* The entry that a call has found, or found missing, stays while it has   *)
(* the directory locked.                                                   *)
DirOK(p) ==
  /\ InDir(p) <=> dlock = p
  /\ pc[p] \in NewLabels \cup {"ialloc"} => cur.dir[arg[p][1]] = None
  /\ pc[p] \in UnlinkLabels => cur.dir[arg[p][1]] = inum[ip[p]]
  /\ pc[p] = "iput" /\ Bad(p) => cur.dir[arg[p][2]] = inum[put[p]]

DirInv == \A p \in Procs : DirOK(p)

(* The link count of an inode is the number of entries that name it, and   *)
(* of calls that are one link ahead of the directory.                      *)
OwesTo == [p \in Procs |-> IF Owner[p] = None THEN None ELSE inum[Owner[p]]]

LinkInv ==
  /\ \A n \in Names : cur.dir[n] \in cur.type \cup {None}
  /\ \A i \in cur.type : cur.ino[i].nlink = Count(cur.dir, i) + Count(OwesTo, i)

(* A block in the bitmap is in one inode, or about to be.                  *)
Live(i) == i \in cur.type /\ \A p \in Procs : Emptied[p] # None => inum[Emptied[p]] # i

BlockInv ==
  /\ \A i, j \in Inums :
       (Live(i) /\ Live(j) /\ cur.ino[i].addr = cur.ino[j].addr /\ cur.ino[i].addr # None) => i = j
  /\ \A i \in Inums : Live(i) => cur.ino[i].addr \in cur.bitmap \cup {None}
  /\ \A p \in Procs : pc[p] = "wrote" =>
       \/ cur.ino[inum[ip[p]]].addr = num[p]
       \/ /\ cur.ino[inum[ip[p]]].addr = None /\ num[p] \in cur.bitmap
          /\ \A i \in Inums : Live(i) => cur.ino[i].addr # num[p]
  /\ \A p, q \in Procs : (Adding[p] # None /\ Adding[p] = Adding[q]) => p = q
  /\ \A b \in cur.bitmap :
       \/ \E i \in Inums : Live(i) /\ cur.ino[i].addr = b
       \/ \E p \in Procs : Adding[p] = b

(* An inode without links that ireclaim() has passed is in use.            *)
OrphanInv ==
  \A i \in Inums : (Orphan(i) /\ i < boot) =>
    \/ \E s \in Slots : ref[s] > 0 /\ inum[s] = i
    \/ \E p \in Procs : Private[p] = i

(* What is on disk is consistent.                                          *)
DurInv ==
  /\ \A n \in Names : dur.dir[n] \in dur.type \cup {None}
  /\ \A i \in dur.type : dur.ino[i].nlink = Count(dur.dir, i)
  /\ \A i \in dur.type : dur.ino[i].addr \in dur.bitmap \cup {None}
  /\ \A b \in dur.bitmap : \E i \in dur.type : dur.ino[i].addr = b
  /\ \A i, j \in dur.type :
       (dur.ino[i].addr = dur.ino[j].addr /\ dur.ino[i].addr # None) => i = j

(* iget() finds an entry, whatever the inode.                              *)
Room == \A i \in Inums : SlotFor(i) # None

NInv ==
  /\ TypeOK /\ NoPanic /\ LocalOK /\ ArgInv /\ RefInv /\ TableInv /\ LoneInv
  /\ LockInv /\ ValidInv /\ DirInv /\ LinkInv /\ BlockInv /\ OrphanInv /\ DurInv
=============================================================================
