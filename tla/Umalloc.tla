------------------------------ MODULE Umalloc ------------------------------
(***************************************************************************)
(* The allocator of user programs, user/umalloc.c.  Addresses count        *)
(* headers (struct header): 0 is base, 1 the first of the heap.  The heap  *)
(* h has the fields of the headers, freep, and heaptop, which is the       *)
(* process's break as long as only the allocator calls sbrk().  Fields     *)
(* that nobody reads any more, because their block has joined another or   *)
(* is in use, are 0.                                                       *)
(***************************************************************************)
EXTENDS Integers

CONSTANTS
  GROW,      \* 256: the heap grows by at least so much, and shrinks to it
  SHRINK,    \* 1024: the size at which its last block is shrunk
  MaxHeap,   \* memory that sbrk() can give
  Requests   \* sizes that a program asks for, headers included

VARIABLES
  h,       \* the heap
  blocks,  \* blocks that the program holds
  call     \* the call of malloc() in progress: its nunits, p and prevp

vars == <<h, blocks, call>>

Idle == [nunits |-> 0, p |-> 0, prevp |-> 0]

(* base is on the list once the first call of malloc() has run.            *)
Init ==
  /\ h = [ptr |-> [a \in 0 .. MaxHeap |-> 0], size |-> [a \in 0 .. MaxHeap |-> 0],
          freep |-> 0, heaptop |-> 1]
  /\ blocks = {} /\ call = Idle

(* The loop of free(): the free block after which bp belongs.              *)
RECURSIVE Before(_, _, _)
Before(g, bp, p) ==
  IF \/ bp > p /\ bp < g.ptr[p]
     \/ p >= g.ptr[p] /\ (bp > p \/ bp < g.ptr[p])
  THEN p ELSE Before(g, bp, g.ptr[p])

JoinNext(g, bp, p) ==
  LET next == g.ptr[p] IN
  IF bp + g.size[bp] = next
  THEN [g EXCEPT !.size = [@ EXCEPT ![bp] = @ + g.size[next], ![next] = 0],
                 !.ptr = [@ EXCEPT ![bp] = g.ptr[next], ![next] = 0]]
  ELSE [g EXCEPT !.ptr[bp] = g.ptr[p]]

JoinPrevious(g, bp, p) ==
  IF p + g.size[p] = bp
  THEN [g EXCEPT !.size = [@ EXCEPT ![p] = @ + g.size[bp], ![bp] = 0],
                 !.ptr = [@ EXCEPT ![p] = g.ptr[bp], ![bp] = 0], !.freep = p]
  ELSE [g EXCEPT !.ptr[p] = bp, !.freep = p]

(* The last block is shrunk by add_heaptop(GROW - size).                   *)
Shrunk(g, bp) ==
  IF bp + g.size[bp] >= g.heaptop /\ g.size[bp] >= SHRINK
  THEN [g EXCEPT !.heaptop = @ + GROW - g.size[bp], !.size[bp] = GROW] ELSE g

free(g, bp) ==
  LET p == Before(g, bp, g.freep)
      joined == p + g.size[p] = bp
  IN Shrunk(JoinPrevious(JoinNext(g, bp, p), bp, p), IF joined THEN p ELSE bp)

(* add_heaptop() of a positive number; sbrk() may refuse.                  *)
Refused(g, nu) == g.heaptop + nu > MaxHeap + 1
add_heaptop(g, nu) ==
  free([g EXCEPT !.size[g.heaptop] = nu, !.heaptop = @ + nu], g.heaptop)

-----------------------------------------------------------------------------
Malloc(n) ==
  /\ call = Idle
  /\ call' = [nunits |-> n, p |-> h.ptr[h.freep], prevp |-> h.freep]
  /\ UNCHANGED <<h, blocks>>

(* The turns of malloc()'s loop: p is large enough, whole or in part ...   *)
Take ==
  LET p == call.p
      n == call.nunits
      rest == h.size[p] - n
  IN /\ call # Idle /\ h.size[p] >= n
     /\ IF rest = 0
        THEN /\ h' = [h EXCEPT !.ptr = [@ EXCEPT ![call.prevp] = h.ptr[p], ![p] = 0],
                               !.freep = call.prevp]
             /\ blocks' = blocks \cup {p}
        ELSE /\ h' = [h EXCEPT !.size = [@ EXCEPT ![p] = rest, ![p + rest] = n],
                               !.freep = call.prevp]
             /\ blocks' = blocks \cup {p + rest}
     /\ call' = Idle

(* ... or the loop goes on, ...                                            *)
Go ==
  /\ call # Idle /\ h.size[call.p] < call.nunits /\ call.p # h.freep
  /\ call' = [call EXCEPT !.p = h.ptr[call.p], !.prevp = call.p]
  /\ UNCHANGED <<h, blocks>>

(* ... or all of the list has been seen and the heap grows, or cannot.     *)
Grow ==
  LET nu == IF call.nunits < GROW THEN GROW ELSE call.nunits IN
  /\ call # Idle /\ h.size[call.p] < call.nunits /\ call.p = h.freep
  /\ IF Refused(h, nu) THEN call' = Idle /\ UNCHANGED h
     ELSE /\ h' = add_heaptop(h, nu)
          /\ call' = [call EXCEPT !.p = h'.ptr[h'.freep], !.prevp = h'.freep]
  /\ UNCHANGED blocks

Free(bp) ==
  /\ call = Idle
  /\ h' = free(h, bp)
  /\ blocks' = blocks \ {bp}
  /\ UNCHANGED call

Turn == Take \/ Go \/ Grow

Next == Turn \/ (\E n \in Requests : Malloc(n)) \/ (\E bp \in blocks : Free(bp))

(* A program that computes goes on (the scheduler runs it).                *)
Spec == Init /\ [][Next]_vars /\ WF_vars(Turn)

-----------------------------------------------------------------------------
(* malloc() returns a block, or 0 when sbrk() refuses: the test "mem" of   *)
(* user/usertests.c asks for 1024 * 20 bytes, and "grow, by 4KB at the     *)
(* minimum" is there to make the next turn find a block.                   *)
MallocReturns == call # Idle ~> call = Idle
=============================================================================
