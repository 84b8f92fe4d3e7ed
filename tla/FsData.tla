------------------------------- MODULE FsData -------------------------------
(***************************************************************************)
(* What the file system keeps in its blocks: the second half of            *)
(* kernel/fs.c, from balloc() to namei(), as operators on an image d of    *)
(* the disk:                                                               *)
(*   d.used      the bitmap, as the set of blocks in use                   *)
(*   d.ino[i]    the inodes: type, nlink, size, addrs                      *)
(*   d.blk[b]    the contents of the blocks                                *)
(*   d.panic     whether the kernel has panicked                           *)
(* Contents are counted in cells, each of the size of a struct dirent.  A  *)
(* cell is a tuple: <<inum, name>> in a directory, <<block>> in an         *)
(* indirect block, <<value>> in a file; <<0>> is all zeroes.  Operators    *)
(* that may change the image return it as d, and their result as r.        *)
(*                                                                         *)
(* Calls are transactions (Log) on locked inodes (Inode), so that one call *)
(* at a time is enough here.                                               *)
(***************************************************************************)
EXTENDS Integers, Sequences, SequencesExt, FiniteSetsExt

CONSTANTS
  BSIZE,       \* cells in a block
  NDIRECT,     \* blocks that an inode names itself
  NINDIRECT,   \* entries of an indirect block
  DIRSIZ,      \* longest name in a directory
  FSSIZE,      \* blocks on the disk
  NMETA,       \* blocks before the data blocks
  NINODES      \* inodes, not counting inode 0

Blocks == 0 .. FSSIZE - 1
Inums == 1 .. NINODES
ROOTINO == 1
Zero == <<0>>
Zeroes == [k \in 0 .. BSIZE - 1 |-> Zero]
NoAddrs == [k \in 0 .. NDIRECT |-> 0]
FreeInode == [type |-> "none", nlink |-> 0, size |-> 0, addrs |-> NoAddrs]

Result(d, r) == [d |-> d, r |-> r]
Panicked(d) == [d EXCEPT !.panic = TRUE]

-----------------------------------------------------------------------------
(* Blocks.                                                                 *)

bzero(d, b) == [d EXCEPT !.blk[b] = Zeroes]

Take(d, b) == Result(bzero([d EXCEPT !.used = @ \cup {b}], b), b)
balloc(d) == IF Blocks \subseteq d.used THEN Result(d, 0) ELSE Take(d, Min(Blocks \ d.used))

bfree(d, b) == [d EXCEPT !.used = @ \ {b}, !.panic = @ \/ b \notin d.used]

(* The block that addrs[k] names, allocated if there is none.              *)
SetAddr(new, i, k) ==
  IF new.r = 0 THEN new ELSE Result([new.d EXCEPT !.ino[i].addrs[k] = new.r], new.r)
MapAddr(d, i, k) ==
  IF d.ino[i].addrs[k] # 0 THEN Result(d, d.ino[i].addrs[k]) ELSE SetAddr(balloc(d), i, k)

(* The block that entry k of the indirect block ind names.                 *)
SetEntry(new, ind, k) ==
  IF new.r = 0 THEN new ELSE Result([new.d EXCEPT !.blk[ind][k] = <<new.r>>], new.r)
MapEntry(d, ind, k) ==
  IF ind = 0 THEN Result(d, 0)
  ELSE IF d.blk[ind][k] # Zero THEN Result(d, d.blk[ind][k][1])
  ELSE SetEntry(balloc(d), ind, k)

Through(ind, k) == MapEntry(ind.d, ind.r, k)
bmap(d, i, bn) ==
  CASE bn < NDIRECT -> MapAddr(d, i, bn)
    [] bn \in NDIRECT .. NDIRECT + NINDIRECT - 1 ->
         Through(MapAddr(d, i, NDIRECT), bn - NDIRECT)
    [] OTHER -> Result(Panicked(d), 0)

(* All blocks of an inode, in the order in which itrunc() frees them.      *)
DirectBlocks(d, i) ==
  SelectSeq([k \in 1 .. NDIRECT |-> d.ino[i].addrs[k - 1]], LAMBDA a : a # 0)

IndirectBlocks(d, i) ==
  LET ind == d.ino[i].addrs[NDIRECT] IN
  IF ind = 0 THEN <<>>
  ELSE SelectSeq([k \in 1 .. NINDIRECT |-> d.blk[ind][k - 1][1]], LAMBDA a : a # 0) \o <<ind>>

itruncLeaks(d, i) ==  \* Mutant: the indirect block is forgotten
  [FoldLeft(bfree, d, DirectBlocks(d, i)) EXCEPT
     !.ino[i].addrs = NoAddrs, !.ino[i].size = 0]

itrunc(d, i) ==
  [FoldLeft(bfree, d, DirectBlocks(d, i) \o IndirectBlocks(d, i)) EXCEPT
     !.ino[i].addrs = NoAddrs, !.ino[i].size = 0]

-----------------------------------------------------------------------------
(* Inodes.  iput() of an inode that nobody else refers to.                 *)

ialloc(d, type) ==
  LET free == {i \in Inums : d.ino[i].type = "none"} IN
  IF free = {} THEN Result(d, 0)
  ELSE Result([d EXCEPT !.ino[Min(free)] = [FreeInode EXCEPT !.type = type]], Min(free))

ifree(d, i) == [d EXCEPT !.ino[i].type = "none"]

iput(d, i) == IF d.ino[i].nlink = 0 THEN ifree(itrunc(d, i), i) ELSE d

Links(d, i, n) == [d EXCEPT !.ino[i].nlink = @ + n]

-----------------------------------------------------------------------------
(* Contents.  Offsets stay far below 2^32.                                 *)

Chunk(off, n) == Min({n, BSIZE - (off % BSIZE)})

RECURSIVE ReadLoop(_, _, _, _, _), ReadBlock(_, _, _, _, _)
ReadLoop(d, i, off, n, got) ==
  IF n = 0 THEN Result(d, got) ELSE ReadBlock(bmap(d, i, off \div BSIZE), i, off, n, got)

ReadBlock(at, i, off, n, got) ==
  LET m == Chunk(off, n) IN
  IF at.r = 0 THEN Result(at.d, got)
  ELSE ReadLoop(at.d, i, off + m, n - m,
                got \o [j \in 1 .. m |-> at.d.blk[at.r][(off % BSIZE) + j - 1]])

readi(d, i, off, n) ==
  IF off > d.ino[i].size THEN Result(d, <<>>)
  ELSE ReadLoop(d, i, off, Min({n, d.ino[i].size - off}), <<>>)

(* src holds what can be read of the n cells at the user's address; a copy *)
(* that meets its end has changed the block and does not count.            *)
Copied(d, b, off, src, m) ==
  [d EXCEPT !.blk[b] = [k \in DOMAIN @ |->
     IF k - (off % BSIZE) \in 0 .. Min({m, Len(src)}) - 1
     THEN src[k - (off % BSIZE) + 1] ELSE @[k]]]

RECURSIVE WriteLoop(_, _, _, _, _, _), WriteBlock(_, _, _, _, _, _)
WriteLoop(d, i, src, off, n, tot) ==
  IF n = 0 THEN Result(d, tot) ELSE WriteBlock(bmap(d, i, off \div BSIZE), i, src, off, n, tot)

WriteBlock(at, i, src, off, n, tot) ==
  LET m == Chunk(off, n) IN
  CASE at.r = 0 -> Result(at.d, tot)
    [] at.r # 0 /\ Len(src) < m -> Result(Copied(at.d, at.r, off, src, m), tot)
    [] OTHER -> WriteLoop(Copied(at.d, at.r, off, src, m), i, SubSeq(src, m + 1, Len(src)),
                          off + m, n - m, tot + m)

NewSizeAsked(size, off, n, tot) == Max({size, off + n})  \* Mutant: counts what was not written
NewSize(size, off, n, tot) == Max({size, off + tot})

Sized(w, i, off, n) ==
  Result([w.d EXCEPT !.ino[i].size = NewSize(@, off, n, w.r)], w.r)
writei(d, i, src, off, n) ==
  IF off > d.ino[i].size \/ off + n > (NDIRECT + NINDIRECT) * BSIZE THEN Result(d, -1)
  ELSE Sized(WriteLoop(d, i, src, off, n, 0), i, off, n)

-----------------------------------------------------------------------------
(* Directories.                                                            *)

(* strncpy() and strncmp() see DIRSIZ characters.                          *)
Short(name) == SubSeq(name, 1, Min({Len(name), DIRSIZ}))
namecmp(s, t) == Short(s) = Short(t)

(* Whether de is the entry of that name; <<>> asks for an empty one.       *)
Matches(de, name) == IF name = <<>> THEN de = Zero ELSE de # Zero /\ namecmp(name, de[2])

Look(d, r, off) == [d |-> d, r |-> r, off |-> off]

RECURSIVE LookFrom(_, _, _, _), LookAt(_, _, _, _)
LookFrom(d, dp, name, off) ==
  IF off >= d.ino[dp].size THEN Look(d, 0, off)
  ELSE LookAt(readi(d, dp, off, 1), dp, name, off)

LookAt(de, dp, name, off) ==
  CASE Len(de.r) # 1 -> Look(Panicked(de.d), 0, off)
    [] Len(de.r) = 1 /\ Matches(de.r[1], name) -> Look(de.d, de.r[1][1], off)
    [] OTHER -> LookFrom(de.d, dp, name, off + 1)

dirlookup(d, dp, name) ==
  IF d.ino[dp].type # "dir" THEN Look(Panicked(d), 0, 0) ELSE LookFrom(d, dp, name, 0)

Stored(w) == Result(w.d, IF w.r = 1 THEN 0 ELSE -1)
LinkAt(slot, dp, name, inum) ==
  Stored(writei(slot.d, dp, <<<<inum, Short(name)>>>>, slot.off, 1))
LinkUnless(found, dp, name, inum) ==
  IF found.r # 0 THEN Result(found.d, -1)
  ELSE LinkAt(LookFrom(found.d, dp, <<>>, 0), dp, name, inum)
dirlink(d, dp, name, inum) == LinkUnless(dirlookup(d, dp, name), dp, name, inum)

-----------------------------------------------------------------------------
(* Paths.                                                                  *)

SkipSlashes(path) ==
  LET k == CHOOSE k \in 0 .. Len(path) : /\ \A j \in 1 .. k : path[j] = "/"
                                         /\ k = Len(path) \/ path[k + 1] # "/"
  IN SubSeq(path, k + 1, Len(path))

(* <<>> if there is no name, else the name and the rest of the path.       *)
skipelem(path) ==
  LET s == SkipSlashes(path)
      len == CHOOSE k \in 0 .. Len(s) : /\ \A j \in 1 .. k : s[j] # "/"
                                        /\ k = Len(s) \/ s[k + 1] = "/"
  IN IF s = <<>> THEN <<>>
     ELSE <<Short(SubSeq(s, 1, len)), SkipSlashes(SubSeq(s, len + 1, Len(s)))>>

Found(d, r, name) == [d |-> d, r |-> r, name |-> name]

(* e is the result of skipelem(): the next element of the path.            *)
RECURSIVE Walk(_, _, _, _), WalkOn(_, _, _)
Walk(d, ip, e, parent) ==
  CASE e = <<>> -> Found(d, IF parent THEN 0 ELSE ip, <<>>)
    [] e # <<>> /\ (d.ino[ip].type # "dir" \/ d.ino[ip].nlink = 0) -> Found(d, 0, <<>>)
    [] e # <<>> /\ d.ino[ip].type = "dir" /\ d.ino[ip].nlink # 0 ->
         IF parent /\ e[2] = <<>> THEN Found(d, ip, e[1])
         ELSE WalkOn(dirlookup(d, ip, e[1]), e[2], parent)

WalkOn(next, rest, parent) ==
  IF next.r = 0 THEN Found(next.d, 0, <<>>)
  ELSE Walk(next.d, next.r, skipelem(rest), parent)

namex(d, cwd, path, parent) ==
  Walk(d, IF path # <<>> /\ path[1] = "/" THEN ROOTINO ELSE cwd, skipelem(path), parent)

namei(d, cwd, path) == namex(d, cwd, path, FALSE)
nameiparent(d, cwd, path) == namex(d, cwd, path, TRUE)
=============================================================================
