--------------------------- MODULE AddressSpaces ---------------------------
(***************************************************************************)
(* What the kernel promises a user program about its memory: every process *)
(* has pages of its own, and only its own stores and calls change them.    *)
(* A call that fails changes nothing, except that a copy to the user may   *)
(* have written the pages before the first one it may not write.           *)
(***************************************************************************)
EXTENDS Integers, Sequences

CONSTANTS
  Procs,      \* process slots
  PGSIZE,     \* page size
  MaxSize,    \* the largest size of an address space
  Zeros,      \* contents of a new page
  Data,       \* contents a program or a system call stores
  Images,     \* what exec() may turn a process into
  InitImage,  \* what the first process starts with
  None        \* "no process"

VARIABLE space    \* for each process None, or its size and its pages

NPages(sz) == (sz + PGSIZE - 1) \div PGSIZE
Live(p) == space[p] # None

Init == \E p \in Procs :
          space = [q \in Procs |-> IF q = p THEN InitImage ELSE None]

(* What may become of the pages of a process.  The program writes a page,  *)
(* or a system call a run of pages, none of which is read-only.            *)
Stored(old, new) ==
  /\ new.sz = old.sz
  /\ \E i, j \in DOMAIN old.pages :
       /\ \A k \in i .. j : old.pages[k].w
       /\ new.pages = [k \in DOMAIN old.pages |->
            IF k \in i .. j THEN [old.pages[k] EXCEPT !.val = Data] ELSE old.pages[k]]

(* sbrk(): new pages are zero, the others stay as they are.                *)
Resized(old, new) ==
  /\ new.sz \in 0 .. MaxSize
  /\ new.pages = [k \in 1 .. NPages(new.sz) |->
       IF k <= Len(old.pages) THEN old.pages[k] ELSE [val |-> Zeros, w |-> TRUE]]

(* exec() replaces the pages, kwait() frees those of a zombie.             *)
Change(p) ==
  \E old \in {space[p]}, new \in {space'[p]} :
     /\ \A q \in Procs \ {p} : space'[q] = space[q]
     /\ \/ new = None \/ new \in Images
        \/ new # None /\ (Stored(old, new) \/ Resized(old, new))

(* fork(): the child has a copy of the pages.                              *)
Fork(p, q) == ~Live(q) /\ space' = [space EXCEPT ![q] = space[p]]

Next == \E p \in Procs : Live(p) /\ (Change(p) \/ \E q \in Procs : Fork(p, q))

Spec == Init /\ [][Next]_space
=============================================================================
