------------------------------ MODULE FileCalls ------------------------------
(***************************************************************************)
(* The file system calls of kernel/sysfile.c and kernel/file.c, each as an *)
(* operator on the image; cwd is the current directory of the caller.  A   *)
(* file is opened, used and closed by one call, so that iput() finds no    *)
(* other reference than cwd; the guards of create() and link() for a       *)
(* parent that is unlinked meanwhile never apply here (Inode has them).    *)
(***************************************************************************)
EXTENDS FsData

CONSTANTS
  MaxChunk,    \* cells that filewrite() puts into a transaction
  NLINK_MAX    \* largest nlink

Release(d, cwd, i) == IF i = cwd THEN d ELSE iput(d, i)

(* create() for T_FILE and T_DIR.  The new inode new.i gets its "." and    *)
(* "..", then the name.                                                    *)
Made(d, r, i) == [d |-> d, r |-> r, i |-> i]
MadeWith(w, i) == Made(w.d, w.r, i)
DotDot(dot, i, dp) ==
  IF dot.r < 0 THEN Made(dot.d, -1, i)
  ELSE MadeWith(dirlink(dot.d, i, <<".", ".">>, dp), i)
Filled(new, dp, type) ==
  CASE new.r = 0 -> Made(new.d, 0, 0)
    [] new.r # 0 /\ type = "file" -> Made(Links(new.d, new.r, 1), 0, new.r)
    [] OTHER -> DotDot(dirlink(Links(new.d, new.r, 1), new.r, <<".">>, new.r), new.r, dp)

Fail(d, i) == Result(iput(Links(d, i, -1), i), 0)
Named(entry, dp, i, type) ==
  IF entry.r < 0 THEN Fail(entry.d, i)
  ELSE Result(IF type = "dir" THEN Links(entry.d, dp, 1) ELSE entry.d, i)
Enter(new, dp, type) ==
  CASE new.i = 0 -> Result(new.d, 0)
    [] new.i # 0 /\ new.r < 0 -> Fail(new.d, new.i)
    [] OTHER -> Named(dirlink(new.d, dp.r, dp.name, new.i), dp.r, new.i, type)
CreateIn(old, dp, type) ==
  IF old.r # 0
  THEN Result(old.d, IF type = "file" /\ old.d.ino[old.r].type = "file" THEN old.r ELSE 0)
  ELSE Enter(Filled(ialloc(old.d, type), dp.r, type), dp, type)
CreateAt(dp, type) ==
  IF dp.r = 0 \/ (type = "dir" /\ dp.d.ino[dp.r].nlink >= NLINK_MAX) THEN Result(dp.d, 0)
  ELSE CreateIn(dirlookup(dp.d, dp.r, dp.name), dp, type)
create(d, cwd, path, type) == CreateAt(nameiparent(d, cwd, path), type)

(* open() with O_CREATE or without, and with O_TRUNC.                      *)
Opened(ip, trunc) ==
  IF ip.r = 0 \/ ip.d.ino[ip.r].type = "dir" THEN Result(ip.d, 0)
  ELSE Result(IF trunc THEN itrunc(ip.d, ip.r) ELSE ip.d, ip.r)
Open(d, cwd, path, new, trunc) ==
  Opened(IF new THEN create(d, cwd, path, "file") ELSE namei(d, cwd, path), trunc)

RECURSIVE filewrite(_, _, _, _, _), WriteOn(_, _, _, _, _)
filewrite(d, i, src, off, n) ==
  IF n = 0 THEN d ELSE WriteOn(writei(d, i, src, off, Min({n, MaxChunk})), i, src, off, n)

WriteOn(w, i, src, off, n) ==
  LET n1 == Min({n, MaxChunk}) IN
  IF w.r # n1 THEN w.d
  ELSE filewrite(w.d, i, SubSeq(src, n1 + 1, Len(src)), off + n1, n - n1)

(* Opens a file, reads off cells, and writes n.                            *)
WriteAfter(got, i, src, n) == filewrite(got.d, i, src, Len(got.r), n)
WriteTo(f, off, src, n) ==
  IF f.r = 0 THEN f.d ELSE WriteAfter(readi(f.d, f.r, 0, off), f.r, src, n)
WriteFile(d, cwd, path, off, src, n) == WriteTo(Open(d, cwd, path, FALSE, FALSE), off, src, n)

isdirempty(d, dp) == Range(readi(d, dp, 2, d.ino[dp].size).r) \subseteq {Zero}

(* unlink(): zeroes the entry, and drops the link that its ".." was.       *)
Erased(w, dp, ip, cwd) ==
  Release(Links(IF w.d.ino[ip].type = "dir" THEN Links(w.d, dp, -1) ELSE w.d, ip, -1), cwd, ip)
UnlinkAt(ip, dp, cwd) ==
  IF ip.r = 0 \/ (ip.d.ino[ip.r].type = "dir" /\ ~isdirempty(ip.d, ip.r)) THEN ip.d
  ELSE Erased(writei(ip.d, dp, <<Zero>>, ip.off, 1), dp, ip.r, cwd)
UnlinkIn(dp, cwd) ==
  IF dp.r = 0 \/ dp.name \in {<<".">>, <<".", ".">>} THEN dp.d
  ELSE UnlinkAt(dirlookup(dp.d, dp.r, dp.name), dp.r, cwd)
Unlink(d, cwd, path) == UnlinkIn(nameiparent(d, cwd, path), cwd)

(* link(): counts the new name first, and takes it back if that fails.     *)
Bad(d, i, cwd) == Release(Links(d, i, -1), cwd, i)
LinkDone(entry, i, cwd) == IF entry.r < 0 THEN Bad(entry.d, i, cwd) ELSE entry.d
LinkIn(dp, i, cwd) ==
  IF dp.r = 0 THEN Bad(dp.d, i, cwd)
  ELSE LinkDone(dirlink(dp.d, dp.r, dp.name, i), i, cwd)
LinkTo(ip, cwd, new) ==
  IF ip.r = 0 \/ ip.d.ino[ip.r].type = "dir" \/ ip.d.ino[ip.r].nlink >= NLINK_MAX THEN ip.d
  ELSE LinkIn(nameiparent(Links(ip.d, ip.r, 1), cwd, new), ip.r, cwd)
Link(d, cwd, old, new) == LinkTo(namei(d, cwd, old), cwd, new)
=============================================================================
