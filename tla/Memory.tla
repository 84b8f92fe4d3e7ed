------------------------------- MODULE Memory -------------------------------
(***************************************************************************)
(* Physical pages and address spaces: the allocator of kernel/kalloc.c,    *)
(* the page tables of kernel/vm.c, and the calls of kernel/proc.c and      *)
(* kernel/exec.c that build and tear them down.  Page tables are trees     *)
(* kept in pages themselves, as the hardware walks them.                   *)
(*                                                                         *)
(* Processes run at the same time and share only the free list.  A step is *)
(* one turn of a loop that allocates, so that another process may take the *)
(* last page between any two turns and every allocation may fail.          *)
(*                                                                         *)
(* Virtual addresses are page numbers, sizes are in units of which a page  *)
(* has PGSIZE.  Physical pages differ in nothing but their address; a page *)
(* is named here for what it is taken for: the tree it belongs to, and its *)
(* level and place in that tree.  How many there are is what matters.      *)
(***************************************************************************)
EXTENDS Integers, Sequences, FiniteSets, FiniteSetsExt, TLC

CONSTANTS
  NPROC,      \* process slots
  NPAGES,     \* physical pages
  PGSIZE,     \* page size in units
  LEVELS,     \* levels of a page table (3 in the code)
  FANOUT,     \* entries of a page-table page (512 in the code)
  MAXVA,      \* number of virtual pages
  USERSTACK,  \* param.h: pages of stack below the heap
  Programs,   \* executable files, as sequences of segments
  Deltas,     \* arguments of sbrk()
  Stores      \* virtual pages that programs and system calls write

Procs == 1 .. NPROC
Trampoline == <<0, 0, 0, 0>>       \* the kernel's page, not from kalloc()
NoPage == <<>>
TRAMPOLINE == MAXVA - 1
TRAPFRAME == MAXVA - 2

ASSUME MemoryAssumption ==
  /\ NPROC \in Nat \ {0} /\ NPAGES \in Nat \ {0} /\ PGSIZE \in Nat \ {0}
  /\ LEVELS \in Nat \ {0} /\ FANOUT \in Nat \ {0, 1}
  /\ MAXVA \in 2 .. FANOUT ^ LEVELS /\ USERSTACK \in Nat /\ Deltas \subseteq Int

VARIABLES
  ram,    \* the pages in use and what they hold; whether a panic was reached
  st,     \* p->state
  tf,     \* p->trapframe
  pt,     \* p->pagetable
  sz,     \* p->sz
  call    \* the system call each process is in, with its local variables

vars == <<ram, st, tf, pt, sz, call>>

-----------------------------------------------------------------------------
(* kalloc.c.                                                               *)

Entry(pa, perm) == [pa |-> pa, perm |-> perm]
Invalid == Entry(NoPage, {})
Valid(e) == e.pa # NoPage

(* What a page holds: page-table entries, or data.                         *)
Empty == [entry |-> [i \in 0 .. FANOUT - 1 |-> Invalid]]
Holds(v) == [data |-> v]
Table(m, pg) ==
  IF pg \in DOMAIN m.page /\ "entry" \in DOMAIN m.page[pg] THEN m.page[pg] ELSE Empty

CanAlloc(m) == Cardinality(DOMAIN m.page) < NPAGES

(* kalloc(), and the caller's memset() or memmove() into the page.         *)
Kalloc(m, pg, v) ==
  IF pg \in DOMAIN m.page THEN [m EXCEPT !.bad = TRUE]
  ELSE [m EXCEPT !.page = (pg :> v) @@ @]

(* kfree() panics if the page is not one of kalloc()'s.  It does not       *)
(* notice that a page is on the list already; that is as bad.              *)
Kfree(m, pg) ==
  IF pg \notin DOMAIN m.page THEN [m EXCEPT !.bad = TRUE]
  ELSE [m EXCEPT !.page = Restrict(@, DOMAIN @ \ {pg})]

-----------------------------------------------------------------------------
(* vm.c: operators from the memory before to the memory after.             *)

PX(level, va) == (va \div FANOUT ^ level) % FANOUT

(* The page taken for va, at a level of the tree below root; level -1 is   *)
(* the user's page.                                                        *)
PageFor(root, level, va) == <<root[1], root[2], level, va \div FANOUT ^ (level + 1)>>

(* walk(): the page that holds the last-level entry for va, or NoPage if a *)
(* page-table page is missing and cannot be had.                           *)
RECURSIVE WalkFrom(_, _, _, _, _)
WalkFrom(m, pg, level, va, alloc) ==
  LET i == PX(level, va)
      e == Table(m, pg).entry[i]
      new == PageFor(pg, level - 1, va)
  IN IF level = 0 THEN [mem |-> m, pg |-> pg]
     ELSE IF Valid(e) THEN WalkFrom(m, e.pa, level - 1, va, alloc)
     ELSE IF ~alloc \/ ~CanAlloc(m) THEN [mem |-> m, pg |-> NoPage]
     ELSE WalkFrom([Kalloc(m, new, Empty) EXCEPT !.page[pg].entry[i] = Entry(new, {})],
                   new, level - 1, va, alloc)

Walk(m, root, va, alloc) == WalkFrom(m, root, LEVELS - 1, va, alloc)

(* The entry of va, invalid if there is none.                              *)
Pte(m, root, va) ==
  LET w == Walk(m, root, va, FALSE)
  IN IF w.pg = NoPage THEN Invalid ELSE Table(m, w.pg).entry[PX(0, va)]

SetPte(m, root, va, e) ==
  LET w == Walk(m, root, va, FALSE)
  IN [m EXCEPT !.page[w.pg].entry[PX(0, va)] = e]

(* walkaddr(): whether a user program can get at va.                       *)
Walkaddr(m, root, va) == va < MAXVA /\ "U" \in Pte(m, root, va).perm

(* mappages() for one page.  When it fails, page-table pages it got on the *)
(* way stay in the tree.                                                   *)
Mappages(m, root, va, pa, perm) ==
  LET w == Walk(m, root, va, TRUE) IN
  IF w.pg = NoPage THEN [mem |-> w.mem, ok |-> FALSE]
  ELSE IF Valid(Pte(m, root, va)) THEN [mem |-> [w.mem EXCEPT !.bad = TRUE], ok |-> FALSE]
  ELSE [mem |-> SetPte(w.mem, root, va, Entry(pa, perm)), ok |-> TRUE]

Uvmunmap(m, root, va, n, do_free) ==
  LET Clear(a, acc) ==
        LET e == Pte(acc, root, a) IN
        IF ~Valid(e) THEN acc
        ELSE SetPte(IF do_free THEN Kfree(acc, e.pa) ELSE acc, root, a, Invalid)
  IN FoldSet(Clear, m, va .. va + n - 1)

RECURSIVE Freewalk(_, _)
Freewalk(m, pg) ==
  LET Down(i, acc) ==
        LET e == Table(m, pg).entry[i] IN
        IF ~Valid(e) THEN acc
        ELSE IF e.perm = {} THEN Freewalk(acc, e.pa)
        ELSE [acc EXCEPT !.bad = TRUE]
  IN Kfree(FoldSet(Down, m, 0 .. FANOUT - 1), pg)

PgRoundUp(n) == (n + PGSIZE - 1) \div PGSIZE       \* in pages

Uvmfree(m, root, n) == Freewalk(Uvmunmap(m, root, 0, PgRoundUp(n), TRUE), root)

(* Mutant: uvmdealloc() rounds the new size down.                          *)
UvmdeallocDown(m, root, oldsz, newsz) ==
  Uvmunmap(m, root, newsz \div PGSIZE, PgRoundUp(oldsz) - newsz \div PGSIZE, TRUE)

Uvmdealloc(m, root, oldsz, newsz) ==
  IF PgRoundUp(newsz) < PgRoundUp(oldsz)
  THEN Uvmunmap(m, root, PgRoundUp(newsz), PgRoundUp(oldsz) - PgRoundUp(newsz), TRUE)
  ELSE m

(* Mutant: the page is not given back when it cannot be mapped.            *)
MapNewLeaks(m, root, va, v, perm) ==
  LET mem == PageFor(root, -1, va) IN
  IF CanAlloc(m) THEN Mappages(Kalloc(m, mem, v), root, va, mem, perm)
  ELSE [mem |-> m, ok |-> FALSE]

(* A turn of the loops of uvmalloc() and uvmcopy(): a page with contents v *)
(* at va, or nothing.                                                      *)
MapNew(m, root, va, v, perm) ==
  LET mem == PageFor(root, -1, va)
      r == Mappages(Kalloc(m, mem, v), root, va, mem, perm)
  IN IF ~CanAlloc(m) THEN [mem |-> m, ok |-> FALSE]
     ELSE IF r.ok THEN r
     ELSE [mem |-> Kfree(r.mem, mem), ok |-> FALSE]

-----------------------------------------------------------------------------
(* proc.c: the page table of a process.                                    *)

Frame(p) == <<p, 0, LEVELS, 0>>

(* A root that is not in use: exec() builds a table beside the old one.    *)
NewRoot(m, p) == <<p, Min({g \in 0 .. 1 : <<p, g, LEVELS - 1, 0>> \notin DOMAIN m.page}),
                   LEVELS - 1, 0>>

Uvmcreate(m, root) == Kalloc(m, root, Empty)

ProcPagetable(m, p) ==
  LET root == NewRoot(m, p)
      r1 == Mappages(Uvmcreate(m, root), root, TRAMPOLINE, Trampoline, {"R", "X"})
      r2 == Mappages(r1.mem, root, TRAPFRAME, Frame(p), {"R", "W"})
  IN IF ~CanAlloc(m) THEN [mem |-> m, root |-> NoPage]
     ELSE IF ~r1.ok THEN [mem |-> Uvmfree(r1.mem, root, 0), root |-> NoPage]
     ELSE IF ~r2.ok
     THEN [mem |-> Uvmfree(Uvmunmap(r2.mem, root, TRAMPOLINE, 1, FALSE), root, 0),
           root |-> NoPage]
     ELSE [mem |-> r2.mem, root |-> root]

ProcFreepagetable(m, root, n) ==
  Uvmfree(Uvmunmap(Uvmunmap(m, root, TRAMPOLINE, 1, FALSE), root, TRAPFRAME, 1, FALSE),
          root, n)

Freeproc(m, q) ==
  /\ ram' = ProcFreepagetable(Kfree(m, tf[q]), pt[q], sz[q])
  /\ tf' = [tf EXCEPT ![q] = NoPage]
  /\ pt' = [pt EXCEPT ![q] = NoPage]
  /\ sz' = [sz EXCEPT ![q] = 0]
  /\ st' = [st EXCEPT ![q] = "UNUSED"]

(* A process outside the kernel, and the local variables of a call: the    *)
(* table being built, its size so far, the segments still to load, the     *)
(* loop variable and its limit, the child of kfork().                      *)
User == [at |-> "user", root |-> NoPage, size |-> 0, prog |-> <<>>, a |-> 0,
         new |-> 0, child |-> 0]

Calls(p) == call[p].at = "user" /\ st[p] = "RUNNABLE"
More(p) == call[p].a * PGSIZE < call[p].new
Returns(p) == call' = [call EXCEPT ![p] = User]

(* The boot: kinit(), then userinit(), which takes more pages than one for *)
(* its program and for which memory suffices.                              *)
InitPages == 2
Uvmfirst(m, root) == MapNew(m, root, 0, Holds("text"), {"R", "W", "X", "U"}).mem
UserInit ==
  LET m0 == [page |-> Frame(1) :> Holds("frame"), bad |-> FALSE]
      r == ProcPagetable(m0, 1)
      UserPage(va, m) == MapNew(m, r.root, va, Holds("zero"), {"R", "W", "U"}).mem
  IN [r EXCEPT !.mem = FoldSet(UserPage, Uvmfirst(r.mem, r.root), 1 .. InitPages - 1)]

Init ==
  /\ ram = UserInit.mem
  /\ st = [p \in Procs |-> IF p = 1 THEN "RUNNABLE" ELSE "UNUSED"]
  /\ tf = [p \in Procs |-> IF p = 1 THEN Frame(1) ELSE NoPage]
  /\ pt = [p \in Procs |-> IF p = 1 THEN UserInit.root ELSE NoPage]
  /\ sz = [p \in Procs |-> IF p = 1 THEN InitPages * PGSIZE ELSE 0]
  /\ call = [p \in Procs |-> User]

-----------------------------------------------------------------------------
(* growproc().                                                             *)

Grow(p, n) ==
  /\ Calls(p)
  /\ n > 0 /\ sz[p] + n < TRAPFRAME * PGSIZE
  /\ call' = [call EXCEPT ![p] = [User EXCEPT !.at = "sbrk", !.size = sz[p],
                                  !.a = PgRoundUp(sz[p]), !.new = sz[p] + n]]
  /\ UNCHANGED <<ram, st, tf, pt, sz>>

Shrink(p, n) ==
  /\ Calls(p)
  /\ n < 0 /\ -n <= sz[p]
  /\ ram' = Uvmdealloc(ram, pt[p], sz[p], sz[p] + n)
  /\ sz' = [sz EXCEPT ![p] = @ + n]
  /\ UNCHANGED <<st, tf, pt, call>>

Grown(p) ==
  /\ call[p].at = "sbrk" /\ ~More(p)
  /\ sz' = [sz EXCEPT ![p] = call[p].new]
  /\ Returns(p)
  /\ UNCHANGED <<ram, st, tf, pt>>

(* sys_sbrk(); growproc() refuses what would not fit below the trapframe.  *)
Sbrk(p, n) == Grow(p, n) \/ Shrink(p, n)

(* The loop of uvmalloc(), for growproc() and for kexec().                 *)
XPerm(c) ==
  IF c.at = "segment" THEN IF Head(c.prog).w THEN {"W"} ELSE {} ELSE {"W"}

Uvmalloc(p) ==
  LET c == call[p]
      root == IF c.at = "sbrk" THEN pt[p] ELSE c.root
      first == PgRoundUp(c.size)
      r == MapNew(ram, root, c.a, Holds("zero"), {"R", "U"} \cup XPerm(c))
  IN /\ c.at \in {"sbrk", "segment", "stack"} /\ More(p)
     /\ IF r.ok
        THEN ram' = r.mem /\ call' = [call EXCEPT ![p].a = @ + 1]
        ELSE /\ ram' = Uvmunmap(r.mem, root, first, c.a - first, TRUE)
             /\ IF c.at = "sbrk" THEN Returns(p)
                ELSE call' = [call EXCEPT ![p].at = "bad"]
     /\ UNCHANGED <<st, tf, pt, sz>>

-----------------------------------------------------------------------------
(* kfork(), kexit() and kwait().                                           *)

Fork(p) ==
  LET q == Min({x \in Procs : st[x] = "UNUSED"})
      r == ProcPagetable(Kalloc(ram, Frame(q), Holds("frame")), q)
  IN /\ Calls(p)
     /\ \E x \in Procs : st[x] = "UNUSED"
     /\ CanAlloc(ram)
     /\ IF r.root = NoPage
        THEN ram' = Kfree(r.mem, Frame(q)) /\ UNCHANGED <<st, tf, pt, call>>
        ELSE /\ ram' = r.mem
             /\ tf' = [tf EXCEPT ![q] = Frame(q)]
             /\ pt' = [pt EXCEPT ![q] = r.root]
             /\ st' = [st EXCEPT ![q] = "USED"]
             /\ call' = [call EXCEPT ![p] = [User EXCEPT !.at = "uvmcopy", !.child = q,
                                                        !.new = sz[p]]]
     /\ UNCHANGED sz

Uvmcopy(p) ==
  LET c == call[p]
      e == Pte(ram, pt[p], c.a)
      r == MapNew(ram, pt[c.child], c.a, ram.page[e.pa], e.perm)
  IN /\ c.at = "uvmcopy" /\ More(p)
     /\ IF ~Valid(e) \/ r.ok
        THEN /\ ram' = IF Valid(e) THEN r.mem ELSE ram
             /\ call' = [call EXCEPT ![p].a = @ + 1]
             /\ UNCHANGED <<st, tf, pt, sz>>
        ELSE /\ Freeproc(Uvmunmap(r.mem, pt[c.child], 0, c.a, TRUE), c.child)
             /\ Returns(p)

Forked(p) ==
  /\ call[p].at = "uvmcopy" /\ ~More(p)
  /\ sz' = [sz EXCEPT ![call[p].child] = sz[p]]
  /\ st' = [st EXCEPT ![call[p].child] = "RUNNABLE"]
  /\ Returns(p)
  /\ UNCHANGED <<ram, tf, pt>>

Exit(p) ==
  /\ Calls(p) /\ p # 1
  /\ st' = [st EXCEPT ![p] = "ZOMBIE"]
  /\ UNCHANGED <<ram, tf, pt, sz, call>>

Reap(p) == st[p] = "ZOMBIE" /\ Freeproc(ram, p) /\ UNCHANGED call

-----------------------------------------------------------------------------
(* kexec() of exec.c.                                                      *)

(* What comes next: the first segment left, or the stack.                  *)
Header(c) ==
  IF c.prog = <<>>
  THEN LET size == PgRoundUp(c.size) * PGSIZE
       IN [c EXCEPT !.at = "stack", !.size = size, !.a = PgRoundUp(size),
                    !.new = size + (USERSTACK + 1) * PGSIZE]
  ELSE LET ph == Head(c.prog) IN
       IF ph.memsz < ph.filesz THEN [c EXCEPT !.at = "bad"]
       ELSE [c EXCEPT !.at = "segment", !.a = PgRoundUp(c.size),
                      !.new = Max({c.size, ph.vaddr * PGSIZE + ph.memsz})]

(* copyin() of n pages succeeds if the program can reach them all, and     *)
(* copyinstr() if it can reach those up to the end of the string.          *)
Copyin(m, root, va, n) == \A a \in va .. va + n - 1 : Walkaddr(m, root, a)
Copyinstr(m, root) == \E va \in 0 .. MAXVA - 1, n \in {1, 2} : Copyin(m, root, va, n)

(* The path of the program is in the memory of the caller.                 *)
ExecCall(p, prog) ==
  LET r == ProcPagetable(ram, p) IN
  /\ Calls(p)
  /\ Copyinstr(ram, pt[p])
  /\ ram' = r.mem
  /\ IF r.root = NoPage THEN UNCHANGED call
     ELSE call' = [call EXCEPT ![p] = Header([User EXCEPT !.root = r.root, !.prog = prog])]
  /\ UNCHANGED <<st, tf, pt, sz>>

(* loadseg() after the pages of the segment are there.                     *)
Loadseg(p) ==
  LET c == call[p]
      ph == Head(c.prog)
      range == ph.vaddr .. ph.vaddr + PgRoundUp(ph.filesz) - 1
      Load(va, m) == IF Walkaddr(m, c.root, va)
                     THEN [m EXCEPT !.page[Pte(m, c.root, va).pa] = Holds("text")]
                     ELSE [m EXCEPT !.bad = TRUE]
  IN /\ c.at = "segment" /\ ~More(p)
     /\ ram' = FoldSet(Load, ram, range)
     /\ call' = [call EXCEPT ![p] = Header([c EXCEPT !.size = c.new, !.prog = Tail(@)])]
     /\ UNCHANGED <<st, tf, pt, sz>>

(* The file is shorter than its header says: readi() fails.                *)
LoadFails(p) ==
  /\ call[p].at = "segment" /\ ~More(p)
  /\ call' = [call EXCEPT ![p].at = "bad", ![p].size = call[p].new]
  /\ UNCHANGED <<ram, st, tf, pt, sz>>

(* uvmclear(): the lowest page of the stack is out of reach.               *)
Guarded(m, c) ==
  LET va == c.new \div PGSIZE - (USERSTACK + 1)
  IN SetPte(m, c.root, va, [Pte(m, c.root, va) EXCEPT !.perm = @ \ {"U"}])

(* The arguments go on the stack and the new image takes the place of the  *)
(* old one.                                                                *)
Writable(m, root, va) == Walkaddr(m, root, va) /\ "W" \in Pte(m, root, va).perm
Stored(m, root, va) == [m EXCEPT !.page[Pte(m, root, va).pa] = Holds("data")]

Commit(p) ==
  LET c == call[p]
      m == Guarded(ram, c)
      top == c.new \div PGSIZE - 1
  IN /\ c.at = "stack" /\ ~More(p)
     /\ Writable(m, c.root, top)
     /\ ram' = ProcFreepagetable(Stored(m, c.root, top), pt[p], sz[p])
     /\ pt' = [pt EXCEPT ![p] = c.root]
     /\ sz' = [sz EXCEPT ![p] = c.new]
     /\ Returns(p)
     /\ UNCHANGED <<st, tf>>

(* The arguments do not fit on the stack.                                  *)
ArgsTooLong(p) ==
  /\ call[p].at = "stack" /\ ~More(p)
  /\ ram' = Guarded(ram, call[p])
  /\ call' = [call EXCEPT ![p].at = "bad", ![p].size = call[p].new]
  /\ UNCHANGED <<st, tf, pt, sz>>

Bad(p) ==
  /\ call[p].at = "bad"
  /\ ram' = ProcFreepagetable(ram, call[p].root, call[p].size)
  /\ Returns(p)
  /\ UNCHANGED <<st, tf, pt, sz>>

(* copyout() of n pages by a system call of p, which stops at a page that  *)
(* p may not write; with n = 1 also a store of the program itself.         *)
Copyout(p, va, n) ==
  LET Put(k, m) ==
        IF \A j \in va .. k : Writable(ram, pt[p], j) THEN Stored(m, pt[p], k) ELSE m
  IN /\ Calls(p)
     /\ ram' = FoldSet(Put, ram, va .. va + n - 1)
     /\ UNCHANGED <<st, tf, pt, sz, call>>

Next ==
  \E p \in Procs :
    \/ \E n \in Deltas : Sbrk(p, n)
    \/ Grown(p) \/ Uvmalloc(p)
    \/ Fork(p) \/ Uvmcopy(p) \/ Forked(p) \/ Exit(p) \/ Reap(p)
    \/ \E prog \in Programs : ExecCall(p, prog)
    \/ Loadseg(p) \/ LoadFails(p) \/ Commit(p) \/ ArgsTooLong(p) \/ Bad(p)
    \/ \E va \in Stores, n \in {1, 2} : Copyout(p, va, n)

Spec == Init /\ [][Next]_vars

-----------------------------------------------------------------------------
(* Properties.                                                             *)

Roots == {<<p, pt[p]>> : p \in {q \in Procs : pt[q] # NoPage}}
         \cup {<<p, call[p].root>> : p \in {q \in Procs : call[q].root # NoPage}}

(* The places that name page pg: entries of page-table pages, but for the  *)
(* mappings of the trapframe, and the variables of the kernel.             *)
Owners(pg) ==
  LET aliases == {<<Walk(ram, r[2], TRAPFRAME, FALSE).pg, PX(0, TRAPFRAME)>> : r \in Roots}
      entries == ((DOMAIN ram.page) \X (0 .. FANOUT - 1)) \ aliases
  IN Cardinality({e \in entries : Table(ram, e[1]).entry[e[2]].pa = pg})
     + Cardinality({p \in Procs : tf[p] = pg})
     + Cardinality({r \in Roots : r[2] = pg})

(* No page is lost and none is used twice: whichever allocation of         *)
(* uvmalloc(), uvmcopy(), mappages() or proc_pagetable() fails, a page     *)
(* that is not free is in one place of one page table, or the trapframe of *)
(* one process; and every table maps the trapframe of its process.         *)
(* None of the panics of kfree(), mappages(), freewalk() and loadseg() is  *)
(* reached.                                                                *)
PagesOwnedOnce ==
  /\ ~ram.bad
  /\ \A pg \in DOMAIN ram.page : Owners(pg) = 1
  /\ \A r \in Roots : /\ Pte(ram, r[2], TRAPFRAME).pa = tf[r[1]]
                      /\ Pte(ram, r[2], TRAMPOLINE).pa = Trampoline

None == [sz |-> -1]

SpaceOf(p) ==
  [sz |-> sz[p],
   pages |-> [k \in 1 .. PgRoundUp(sz[p]) |->
     LET e == Pte(ram, pt[p], k - 1) IN
     IF "U" \in e.perm THEN [val |-> ram.page[e.pa].data, w |-> "W" \in e.perm]
     ELSE [val |-> "guard", w |-> FALSE]]]

(* The address space that a program defines: its segments, zeros where the *)
(* file has nothing, an unreachable page, and the stack.                   *)
Image(prog) ==
  LET top == Max({s.vaddr * PGSIZE + s.memsz : s \in Range(prog)})
      n == PgRoundUp(top)
      In(k, s) == k \in s.vaddr + 1 .. s.vaddr + PgRoundUp(s.filesz)
      first(k) == CHOOSE i \in DOMAIN prog :
                    /\ k <= PgRoundUp(prog[i].vaddr * PGSIZE + prog[i].memsz)
                    /\ \A j \in 1 .. i - 1 :
                         k > PgRoundUp(prog[j].vaddr * PGSIZE + prog[j].memsz)
  IN [sz |-> (n + USERSTACK + 1) * PGSIZE,
      pages |-> [k \in 1 .. n + USERSTACK + 1 |->
        IF k = n + 1 THEN [val |-> "guard", w |-> FALSE]
        ELSE IF k > n
        THEN [val |-> IF k = n + USERSTACK + 1 THEN "data" ELSE "zero", w |-> TRUE]
        ELSE [val |-> IF \E s \in Range(prog) : In(k, s) THEN "text" ELSE "zero",
              w |-> prog[first(k)].w]]]

Images == {Image(g) : g \in {h \in Programs : \A s \in Range(h) : s.filesz <= s.memsz}}
InitImage == [sz |-> InitPages * PGSIZE,
              pages |-> [k \in 1 .. InitPages |->
                [val |-> IF k = 1 THEN "text" ELSE "zero", w |-> TRUE]]]

AS == INSTANCE AddressSpaces WITH
        Zeros <- "zero", Data <- "data", MaxSize <- MAXVA * PGSIZE,
        space <- [p \in Procs |->
                    IF st[p] \in {"RUNNABLE", "ZOMBIE"} THEN SpaceOf(p) ELSE None]

(* Address spaces are private and calls are atomic.  A process sees zeros  *)
(* in the pages sbrk() adds, a copy of its parent after fork(), the        *)
(* program and nothing of its former self after exec(); whatever the other *)
(* processes do, and when a call fails halfway, its memory stays as it is. *)
Isolated == AS!Spec
=============================================================================
