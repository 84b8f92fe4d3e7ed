------------------------------ MODULE Command ------------------------------
(***************************************************************************)
(* From the image that mkfs builds to a command that runs on it: the shell *)
(* (user/sh.c) reads a line, parses it, and runs the program that it       *)
(* names, which makes file system calls until it exits; init starts        *)
(* another shell when the shell ends.  fork(), exec() and wait() are those *)
(* of Proc and Memory; here one program runs at a time.                    *)
(*                                                                         *)
(* The Makefile links kernel/sysproc.c, whose exec() and chdir() are       *)
(* simpler than those of kernel/sysfile.c and which has no calls that      *)
(* change files.  linked tells which of the two the kernel has.            *)
(***************************************************************************)
EXTENDS Shell, Mkfs, FileCalls, TLC

CONSTANTS
  Image,     \* the arguments of mkfs
  Elf,       \* the first cell of a program
  NBUF,      \* size of the shell's line buffer
  MAXPATH,   \* size of the kernel's buffers for paths
  MAXARG,    \* size of its vector of arguments
  Keys,      \* what may be typed, as sequences of characters
  Paths,     \* the paths that programs use
  Data,      \* what they write
  Writes,    \* where they write, how much, and how much of it they have
  MaxWork    \* bound on keys and calls

ASSUME ImageAssumption == Fits(Image)

VARIABLES
  linked, \* whether the kernel has kernel/sysfile.c
  fs,     \* the image
  cwd,    \* current directory of the shell and its child
  buf,    \* the line so far
  pc,     \* "gets", "main", "running"
  prog,   \* the program that runs: its inode and the words of the line
  work    \* keys and calls so far

vars == <<linked, fs, cwd, buf, pc, prog, work>>

NoProg == [inum |-> 0, argv |-> <<>>]

Init ==
  /\ linked \in BOOLEAN
  /\ fs = Mkfs(Image) /\ cwd = ROOTINO
  /\ buf = <<>> /\ pc = "gets" /\ prog = NoProg /\ work = 0

-----------------------------------------------------------------------------
(* The shell.                                                              *)

(* gets() stops after a newline, and before its last character.            *)
Type(key) ==
  /\ pc = "gets" /\ work < MaxWork
  /\ Len(buf) + Len(key) < NBUF
  /\ work' = work + 1
  /\ buf' = buf \o key
  /\ pc' = IF Last(key) = "\n" \/ Len(buf \o key) = NBUF - 1 THEN "main" ELSE "gets"
  /\ UNCHANGED <<linked, fs, cwd, prog>>

(* iput(p->cwd): the old directory may have lost its name.                 *)
Leave(d, new) == IF new = cwd THEN d ELSE iput(d, cwd)

(* Control-D: on an empty line the shell exits, and init starts another.   *)
EndOfFile ==
  /\ pc = "gets" /\ work < MaxWork
  /\ work' = work + 1
  /\ IF buf = <<>>
     THEN fs' = Leave(fs, ROOTINO) /\ cwd' = ROOTINO /\ pc' = "gets"
     ELSE pc' = "main" /\ UNCHANGED <<fs, cwd>>
  /\ UNCHANGED <<linked, buf, prog>>

IsCd == IsPrefix(<<"c", "d", " ">>, buf)

(* The shell chops the last character of the line.  sys_chdir() of         *)
(* sysproc.c takes whatever namei() finds, that of sysfile.c a directory.  *)
IsDir(d, i) == d.ino[i].type = "dir"
Accepts(d, i) == i # 0 /\ (linked => IsDir(d, i))

(* A path that does not fit ends the call, and is as good as one that      *)
(* names nothing.                                                          *)
argstr(path) == Len(path) < MAXPATH
Lookup(path) == IF argstr(path) THEN namei(fs, cwd, path) ELSE Found(fs, 0, <<>>)

Chdir ==
  /\ pc = "main" /\ IsCd
  /\ \E ip \in {Lookup(SubSeq(buf, 4, Len(buf) - 1))} :
       /\ cwd' = IF Accepts(ip.d, ip.r) THEN ip.r ELSE cwd
       /\ fs' = IF Accepts(ip.d, ip.r) THEN Leave(ip.d, ip.r) ELSE ip.d
  /\ buf' = <<>> /\ pc' = "gets"
  /\ UNCHANGED <<linked, prog, work>>

Padded == buf \o [k \in 1 .. NBUF - Len(buf) |-> NUL]

(* kexec(): the file that path names, if it begins as a program does.      *)
Magic(elf, i) == Result(elf.d, IF elf.r = <<Elf>> THEN i ELSE 0)
Header(ip) == IF ip.r = 0 THEN Result(ip.d, 0) ELSE Magic(readi(ip.d, ip.r, 0, 1), ip.r)
kexec(path) == Header(Lookup(path))

(* sys_exec() of sysfile.c copies the arguments and the 0 after them, that *)
(* of sysproc.c passes on the path only.                                   *)
Fetched(argv) == Len(argv) < MAXARG
Takes(argv) == linked => Fetched(argv)
Passed(argv) == IF linked THEN argv ELSE <<argv[1]>>

(* The child parses the line; it exits on an error or an empty line, and   *)
(* when exec() fails.                                                      *)
Run ==
  /\ pc = "main" /\ ~IsCd
  /\ \E cmd \in {parsecmd(Padded)} :
       IF cmd.err \/ cmd.argv = <<>> \/ ~Takes(cmd.argv)
       THEN pc' = "gets" /\ UNCHANGED <<fs, prog>>
       ELSE \E ip \in {kexec(cmd.argv[1])} :
              /\ fs' = ip.d
              /\ pc' = IF ip.r = 0 THEN "gets" ELSE "running"
              /\ prog' = IF ip.r = 0 THEN NoProg ELSE [inum |-> ip.r, argv |-> Passed(cmd.argv)]
  /\ buf' = <<>>
  /\ UNCHANGED <<linked, cwd, work>>

Exit ==
  /\ pc = "running"
  /\ pc' = "gets" /\ prog' = NoProg
  /\ UNCHANGED <<linked, fs, cwd, buf, work>>

-----------------------------------------------------------------------------
(* The calls of a program.                                                 *)

(* The calls that change files and that syscall() knows.                   *)
FileSyscalls == IF linked THEN {"open", "mkdir", "unlink", "link", "write"} ELSE {}

(* d is what the call makes of the image.                                  *)
Syscall(num, d) ==
  /\ pc = "running" /\ work < MaxWork
  /\ fs' = IF num \in FileSyscalls THEN d ELSE fs
  /\ work' = work + 1
  /\ UNCHANGED <<linked, cwd, buf, pc, prog>>

WithPath(path, d) == IF argstr(path) THEN d ELSE fs

OpenCall(path, trunc) == Syscall("open", WithPath(path, Open(fs, cwd, path, TRUE, trunc).d))
MkdirCall(path) == Syscall("mkdir", WithPath(path, create(fs, cwd, path, "dir").d))
UnlinkCall(path) == Syscall("unlink", WithPath(path, Unlink(fs, cwd, path)))
LinkCall(old, new) ==
  Syscall("link", WithPath(old, WithPath(new, Link(fs, cwd, old, new))))

(* Opens the file and reads off cells; then n cells are to be written, and *)
(* the first good of them can be copied from the program.                  *)
WriteCall(path, off, n, good) ==
  Syscall("write", WithPath(path, WriteFile(fs, cwd, path, off, SubSeq(Data, 1, good), n)))

Next ==
  \/ \E key \in Keys : Type(key)
  \/ EndOfFile \/ Chdir \/ Run \/ Exit
  \/ \E path \in Paths :
       \/ MkdirCall(path) \/ UnlinkCall(path)
       \/ \E trunc \in BOOLEAN : OpenCall(path, trunc)
       \/ \E new \in Paths : LinkCall(path, new)
       \/ \E w \in Writes : WriteCall(path, w.off, w.n, w.good)

Spec == Init /\ [][Next]_vars

-----------------------------------------------------------------------------
(* Properties.                                                             *)

Used(d) == {i \in Inums : d.ino[i].type # "none"}
Content(d, i) ==
  [k \in 1 .. d.ino[i].size |-> d.blk[BlockOf(d, i, (k - 1) \div BSIZE)][(k - 1) % BSIZE]]
Entries(d, i) == {de \in Range(Content(d, i)) : de # Zero}

(* The tree that an image stands for.                                      *)
Tree(d) ==
  [i \in Used(d) |->
     IF d.ino[i].type = "file" THEN [type |-> "file", data |-> Content(d, i)]
     ELSE [type |-> "dir", ents |-> [m \in {de[2] : de \in Entries(d, i)} |->
             (CHOOSE de \in Entries(d, i) : de[2] = m)[1]]]]

(* The tree that mkfs was asked for.                                       *)
Asked ==
  LET file(i) == Image[i - 1]
      inums == 2 .. Len(Image) + 1
      name(i) == Short(Shortname(file(i).arg))
      dots == (<<".">> :> ROOTINO) @@ (<<".", ".">> :> ROOTINO)
  IN [i \in inums |-> [type |-> "file", data |-> file(i).data]]
     @@ (ROOTINO :> [type |-> "dir",
           ents |-> dots @@ [m \in {name(i) : i \in inums} |-> CHOOSE i \in inums : name(i) = m]])

FT == INSTANCE FileTree WITH tree <- Tree(fs), Start <- Asked

(* Blocks hold a tree: mkfs and every call, also one that runs out of      *)
(* blocks or inodes halfway or meets a bad address, do to the tree what    *)
(* they promise, or nothing.  No stale cell of a block becomes part of a   *)
(* file, and reading returns what was written.                             *)
KeepsTree == FT!Spec

(* Nothing is lost or shared.  The bitmap marks the metadata and exactly   *)
(* the blocks that some inode names, each once; nlink counts the names; no *)
(* panic of fs.c is reached ("freeing free block", "bmap: out of range",   *)
(* "dirlookup read").  An inode without names is the current directory.    *)
BlocksOf(i) == DirectBlocks(fs, i) \o IndirectBlocks(fs, i)

Accounted ==
  LET t == Tree(fs)
      subdirs(i) == {j \in FT!Dirs(t) \ {i} : t[j].ents[<<".", ".">>] = i /\ FT!Names(t, j) # {}}
  IN /\ ~fs.panic
     /\ fs.used = (0 .. NMETA - 1) \cup UNION {Range(BlocksOf(i)) : i \in Inums}
     /\ \A i, j \in Inums : \A x \in DOMAIN BlocksOf(i), y \in DOMAIN BlocksOf(j) :
          BlocksOf(i)[x] = BlocksOf(j)[y] => i = j /\ x = y
     /\ \A i \in Used(fs) : fs.ino[i].nlink = 0 => i = cwd
     /\ \A i \in Used(fs) :
          fs.ino[i].nlink = Cardinality(FT!Names(t, i)) + (IF i = ROOTINO THEN 1 ELSE 0)
                            + (IF i \in FT!Dirs(t) THEN Cardinality(subdirs(i)) ELSE 0)

(* Looking up a path only reads.  namei() reads directories with readi(),  *)
(* whose bmap() would allocate a block for a hole; sys_chdir() and         *)
(* forkret() call it outside a transaction, where log_write() panics.      *)
LookupsOnlyRead == \A path \in Paths : namei(fs, cwd, path).d = fs

(* Words of a line and elements of a path, by where they begin.            *)
Parts(s, seps) ==
  LET begins == {k \in 1 .. Len(s) : s[k] \notin seps /\ (k = 1 \/ s[k - 1] \in seps)}
      end(k) == Max({j \in k .. Len(s) : \A x \in k .. j : s[x] \notin seps})
      at == SetToSortSeq(begins, <)
  IN [n \in 1 .. Len(at) |-> SubSeq(s, at[n], end(at[n]))]

Resolve(path) ==
  LET t == Tree(fs)
      Step(i, name) ==
        IF i \in FT!Dirs(t) /\ (i = ROOTINO \/ FT!Names(t, i) # {}) /\ Short(name) \in DOMAIN t[i].ents
        THEN t[i].ents[Short(name)] ELSE 0
      from == IF path # <<>> /\ path[1] = "/" THEN ROOTINO ELSE cwd
  IN IF Len(path) < MAXPATH THEN FoldLeft(Step, from, Parts(path, {"/"})) ELSE 0

IsProgram(i) ==
  i # 0 /\ fs.ino[i].type = "file" /\ fs.ino[i].size > 0 /\ Content(fs, i)[1] = Elf

(* The shell does what the line says.  A line whose words are few enough   *)
(* and that has none of the symbols runs the program that its first word   *)
(* names, from the root or from the current directory, with the words that *)
(* sys_exec() passes on; "cd" goes to what its path names, if sys_chdir()  *)
(* accepts it; any other line changes nothing.                             *)
RunsWhatWasTyped ==
  [][pc = "main" =>
       \E words \in {Parts(buf, whitespace)} :
         LET named == Resolve(words[1])
             dir == Resolve(SubSeq(buf, 4, Len(buf) - 1))
             fine == words # <<>> /\ Len(words) < MAXARGS /\ (linked => Len(words) < MAXARG) /\ Range(buf) \cap symbols = {}
         IN IF IsCd THEN pc' = "gets" /\ cwd' = IF Accepts(fs, dir) THEN dir ELSE cwd
            ELSE IF fine /\ IsProgram(named)
            THEN pc' = "running" /\ prog' = [inum |-> named, argv |-> Passed(words)] /\ fs' = fs
            ELSE pc' = "gets" /\ fs' = fs /\ cwd' = cwd]_vars
=============================================================================
