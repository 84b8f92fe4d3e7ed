-------------------------------- MODULE Mkfs --------------------------------
(***************************************************************************)
(* mkfs/mkfs.c: the image that the kernel starts from.  The builder m is   *)
(* the image m.d so far and m.freeblock, the next block to give out.       *)
(***************************************************************************)
EXTENDS FsData

Empty == [d |-> [used |-> {}, ino |-> [i \in Inums |-> FreeInode],
                 blk |-> [b \in Blocks |-> Zeroes], panic |-> FALSE],
          freeblock |-> NMETA]

MkInode(m, i, type) == [m EXCEPT !.d.ino[i].type = type, !.d.ino[i].nlink = 1]

(* A new block for addrs[k], unless it has one.                            *)
Direct(m, i, k) ==
  IF m.d.ino[i].addrs[k] # 0 THEN m
  ELSE [m EXCEPT !.d.ino[i].addrs[k] = m.freeblock, !.freeblock = @ + 1]

Indirect(m, i, k) ==
  LET ind == m.d.ino[i].addrs[NDIRECT] IN
  IF m.d.blk[ind][k] # Zero THEN m
  ELSE [m EXCEPT !.d.blk[ind][k] = <<m.freeblock>>, !.freeblock = @ + 1]

WithBlock(m, i, fbn) ==
  IF fbn < NDIRECT THEN Direct(m, i, fbn)
  ELSE Indirect(Direct(m, i, NDIRECT), i, fbn - NDIRECT)

BlockOf(d, i, fbn) ==
  IF fbn < NDIRECT THEN d.ino[i].addrs[fbn]
  ELSE d.blk[d.ino[i].addrs[NDIRECT]][fbn - NDIRECT][1]

RECURSIVE iappend(_, _, _), AppendAt(_, _, _, _)
iappend(m, i, p) ==
  IF p = <<>> THEN m
  ELSE AppendAt(WithBlock(m, i, m.d.ino[i].size \div BSIZE), i, p, m.d.ino[i].size)

AppendAt(m, i, p, off) ==
  LET n1 == Chunk(off, Len(p))
      x == BlockOf(m.d, i, off \div BSIZE)
      d == [Copied(m.d, x, off, p, n1) EXCEPT !.ino[i].size = off + n1]
  IN iappend([m EXCEPT !.d = d], i, SubSeq(p, n1 + 1, Len(p)))

(* "user/" and a leading "_" are no part of the name.                      *)
StripUser(arg) == IF IsPrefix(<<"u", "s", "e", "r", "/">>, arg)
                  THEN SubSeq(arg, 6, Len(arg)) ELSE arg
Shortname(arg) == IF StripUser(arg)[1] = "_" THEN Tail(StripUser(arg)) ELSE StripUser(arg)

(* f.arg is the argument of the command, f.data the contents of the file;  *)
(* ialloc() gives out inodes in order.                                     *)
AddFile(m, f) ==
  LET i == Min({j \in Inums : m.d.ino[j].type = "none"})
      m1 == iappend(MkInode(m, i, "file"), ROOTINO, <<<<i, Short(Shortname(f.arg))>>>>)
  IN iappend(m1, i, f.data)

RootSizeTwice(off) == ((off \div BSIZE) + 2) * BSIZE  \* Mutant: a block too many
RootSize(off) == ((off \div BSIZE) + 1) * BSIZE

(* balloc(): the bitmap marks all blocks below the next free one.          *)
MarkUsed(m) == [m.d EXCEPT !.used = 0 .. m.freeblock - 1]

Mkfs(files) ==
  LET root == iappend(MkInode(Empty, ROOTINO, "dir"), ROOTINO,
                      <<<<ROOTINO, <<".">>>>, <<ROOTINO, <<".", ".">>>>>>)
      m == FoldLeft(AddFile, root, files)
  IN MarkUsed([m EXCEPT !.d.ino[ROOTINO].size = RootSize(@)])

(* The image fits, and the root directory does not end with its block:     *)
(* RootSize() would then reach into a block that it does not have.         *)
Fits(files) ==
  /\ Len(files) + 1 <= NINODES
  /\ (Len(files) + 2) % BSIZE # 0
  /\ \A f \in Range(files) : Len(f.data) <= (NDIRECT + NINDIRECT) * BSIZE
  /\ \A b \in Mkfs(files).used : b < FSSIZE
=============================================================================
