------------------------------ MODULE Console ------------------------------
(***************************************************************************)
(* The console of kernel/console.c on top of the UART driver of            *)
(* kernel/uart.c.                                                          *)
(*                                                                         *)
(* Typed characters go through uartintr() and consoleintr() into a ring    *)
(* with three indices: r, where consoleread() takes characters, w, up to   *)
(* where it may take them, and e, up to where the line is edited.  Written *)
(* bytes go through a second ring, which uartwrite() and uartintr() both   *)
(* empty into the transmitter; echoed characters pass the ring by.  The    *)
(* indices are uint and wrap; IdxMod and TxMod stand for 2^32.             *)
(***************************************************************************)
EXTENDS Integers, Sequences, FiniteSets

CONSTANTS
  Procs, NoProc,     \* processes, "not locked"
  INPUT_BUF_SIZE,
  UART_TX_BUF_SIZE,
  IdxMod, TxMod,     \* the indices of the rings count modulo these
  Bytes,             \* what is written
  MaxRead,           \* the largest n of read()
  NoChar

(* Typed: a letter, newline, ^D, ^U, backspace.                            *)
Chars == {"a", "nl", "eof", "kill", "bs"}

ASSUME ConsoleAssumption ==
  /\ INPUT_BUF_SIZE \in Nat \ {0} /\ UART_TX_BUF_SIZE \in Nat \ {0}
  /\ IdxMod % INPUT_BUF_SIZE = 0 /\ TxMod % UART_TX_BUF_SIZE = 0
  /\ IdxMod > INPUT_BUF_SIZE /\ TxMod > UART_TX_BUF_SIZE
  /\ NoProc \notin Procs /\ NoChar \notin Chars \cup Bytes /\ MaxRead \in Nat

VARIABLES
  buf, r, w, e,          \* cons
  conslock,              \* cons.lock, while consoleread() has it
  tx_buf, tx_r, tx_w,    \* the transmit ring
  busy,                  \* transmitter: a byte is on its way
  rx,                    \* receiver: has a character
  irq,                   \* interrupt pending
  handler,               \* uartintr(): "off", "start", "wake", "rx"
  pc,                    \* a process: "idle", "read", "write"
  n, some,               \* consoleread(): n, and whether n < target
  asleep, killed

input == <<buf, r, w, e>>
output == <<tx_buf, tx_r, tx_w>>
uart == <<busy, rx, irq>>
local == <<n, some>>
vars == <<input, conslock, output, uart, handler, pc, local, asleep, killed>>

Idx == 0 .. IdxMod - 1
(* b - a for uint.                                                         *)
Between(a, b) == (b - a) % IdxMod
TxBetween(a, b) == (b - a) % TxMod
Go(p, l) == pc' = [pc EXCEPT ![p] = l]

(* Mutant: nobody is woken.                                                *)
WokenNone(call) == {}

(* wakeup(): the processes that sleep in a call.                           *)
Woken(call) == {p \in asleep : pc[p] = call}

uartinit ==
  /\ tx_buf = [i \in 0 .. UART_TX_BUF_SIZE - 1 |-> NoChar] /\ tx_r = 0 /\ tx_w = 0
  /\ busy = FALSE /\ rx = FALSE /\ irq = FALSE /\ handler = "off"

Init ==
  /\ buf = [i \in 0 .. INPUT_BUF_SIZE - 1 |-> NoChar] /\ r = 0 /\ w = 0 /\ e = 0
  /\ conslock = NoProc
  /\ uartinit
  /\ pc = [p \in Procs |-> "idle"]
  /\ n = [p \in Procs |-> 0] /\ some = [p \in Procs |-> FALSE]
  /\ asleep = {} /\ killed = {}

-----------------------------------------------------------------------------
(* The device.                                                             *)

(* The byte has been sent.                                                 *)
Sent ==
  /\ busy
  /\ busy' = FALSE /\ irq' = TRUE
  /\ UNCHANGED <<input, conslock, output, rx, handler, pc, local, asleep, killed>>

(* A character is typed; which one is chosen when consoleintr() gets it.   *)
Type ==
  /\ ~rx
  /\ rx' = TRUE /\ irq' = TRUE
  /\ UNCHANGED <<input, conslock, output, busy, handler, pc, local, asleep, killed>>

-----------------------------------------------------------------------------
(* The transmit ring.  A place that has been emptied is set to NoChar.     *)

(* How many of the ring's bytes the loop of uartstart() sends: more than   *)
(* one if the transmitter is as fast as the loop.                          *)
Sendable(len) == IF busy \/ len = 0 THEN {0} ELSE 1 .. len

(* uartstart(), with the ring up to last.                                  *)
UartStart(ring, last) ==
  \E k \in Sendable(TxBetween(tx_r, last)) :
    /\ tx_r' = (tx_r + k) % TxMod
    /\ tx_buf' = [i \in DOMAIN ring |->
                    IF \E j \in 0 .. k - 1 : i = (tx_r + j) % UART_TX_BUF_SIZE
                    THEN NoChar ELSE ring[i]]
    /\ busy' = (busy \/ k > 0) /\ irq' = (irq \/ k > 1)

(* consolewrite() of one byte.                                             *)
WriteCall(p) ==
  /\ pc[p] = "idle"
  /\ Go(p, "write")
  /\ UNCHANGED <<input, conslock, output, uart, handler, local, asleep, killed>>

(* Mutant: the ring is taken for full one byte too late.                   *)
TxFullLate == TxBetween(tx_r, tx_w) = UART_TX_BUF_SIZE + 1

TxFull == tx_w = (tx_r + UART_TX_BUF_SIZE) % TxMod

(* uartwrite(), which has tx_lock: sleep while the ring is full, or append *)
(* the byte and start the transmitter.                                     *)
WriteSleeps(p) ==
  /\ pc[p] = "write" /\ p \notin asleep /\ TxFull
  /\ asleep' = asleep \cup {p}
  /\ UNCHANGED <<input, conslock, output, uart, handler, pc, local, killed>>

WriteByte(p, b) ==
  /\ pc[p] = "write" /\ p \notin asleep /\ ~TxFull
  /\ tx_w' = (tx_w + 1) % TxMod
  /\ UartStart([tx_buf EXCEPT ![tx_w % UART_TX_BUF_SIZE] = b], tx_w')
  /\ Go(p, "idle")
  /\ UNCHANGED <<input, conslock, rx, handler, local, asleep, killed>>

-----------------------------------------------------------------------------
(* uartintr(), of which the interrupt controller runs one at a time.       *)

IntrEnter ==
  /\ irq /\ handler = "off"
  /\ irq' = FALSE /\ handler' = "start"
  /\ UNCHANGED <<input, conslock, output, busy, rx, pc, local, asleep, killed>>

IntrStart ==
  /\ handler = "start"
  /\ UartStart(tx_buf, tx_w) /\ handler' = "wake"
  /\ UNCHANGED <<input, conslock, tx_w, rx, pc, local, asleep, killed>>

IntrWake ==
  /\ handler = "wake"
  /\ asleep' = asleep \ Woken("write")
  /\ handler' = "rx"
  /\ UNCHANGED <<input, conslock, output, uart, pc, local, killed>>

IntrLeave ==
  /\ handler = "rx" /\ ~rx
  /\ handler' = "off"
  /\ UNCHANGED <<input, conslock, output, uart, pc, local, asleep, killed>>

-----------------------------------------------------------------------------
(* consoleintr(), which has cons.lock throughout and is one step.  Its     *)
(* echo waits in uartputc_sync() for an idle transmitter; the echo of an   *)
(* erased line is one byte.                                                *)

Place(i) == i % INPUT_BUF_SIZE
Pred(i) == (i - 1) % IdxMod
GetsConsole == handler = "rx" /\ rx /\ conslock = NoProc /\ rx' = FALSE
Echo == ~busy /\ busy' = TRUE

(* printf() on any hart writes the same way.                               *)
Printf ==
  /\ Echo
  /\ UNCHANGED <<input, conslock, output, rx, irq, handler, pc, local, asleep, killed>>

(* Mutant: all of the ring is edited, lines already given up included.     *)
EditedAll == {i \in Idx : Between(r, i) < Between(r, e)}

(* The line being edited.                                                  *)
Edited == {i \in Idx : Between(w, i) < Between(w, e)}

(* What goes: the last character for backspace, all after the last newline *)
(* for ^U.                                                                 *)
Erased(c) ==
  IF c = "bs" THEN Edited \cap {Pred(e)}
  ELSE {i \in Edited : \A j \in Edited :
          Between(w, i) <= Between(w, j) => buf[Place(j)] # "nl"}

Erase(c) ==
  /\ GetsConsole /\ c \in {"kill", "bs"}
  /\ IF Erased(c) = {} THEN UNCHANGED <<buf, e, busy>>
     ELSE /\ Echo
          /\ e' = (e - Cardinality(Erased(c))) % IdxMod
          /\ buf' = [k \in DOMAIN buf |->
                       IF \E i \in Erased(c) : Place(i) = k THEN NoChar ELSE buf[k]]
  /\ UNCHANGED <<r, w, conslock, output, irq, handler, pc, local, asleep, killed>>

Room == Between(r, e) < INPUT_BUF_SIZE

(* Mutant: only newline and ^D hand a line over, not a full ring.          *)
CompletesByChar(c) == c \in {"nl", "eof"}

Completes(c) == c \in {"nl", "eof"} \/ Between(r, e) + 1 = INPUT_BUF_SIZE

(* The characters that go into the ring.                                   *)
Stored == {"a", "nl", "eof"}

Store(c) ==
  /\ GetsConsole /\ c \in Stored
  /\ IF ~Room THEN UNCHANGED <<buf, w, e, busy, asleep>>
     ELSE /\ Echo
          /\ buf' = [buf EXCEPT ![Place(e)] = c]
          /\ e' = (e + 1) % IdxMod
          /\ IF Completes(c)
             THEN w' = e' /\ asleep' = asleep \ Woken("read")
             ELSE UNCHANGED <<w, asleep>>
  /\ UNCHANGED <<r, conslock, output, irq, handler, pc, local, killed>>

-----------------------------------------------------------------------------
(* consoleread()                                                           *)

ReadCall(p, k) ==
  /\ pc[p] = "idle"
  /\ Go(p, "read") /\ n' = [n EXCEPT ![p] = k]
  /\ UNCHANGED <<input, conslock, output, uart, handler, some, asleep, killed>>

HasConsole(p) == pc[p] = "read" /\ p \notin asleep /\ conslock \in {NoProc, p}

(* A killed process exits when its call returns, and p is another one.     *)
Return(p) ==
  /\ Go(p, "idle") /\ conslock' = NoProc
  /\ n' = [n EXCEPT ![p] = 0] /\ some' = [some EXCEPT ![p] = FALSE]
  /\ killed' = killed \ {p}

(* Nothing to read: sleep ...                                              *)
ReadSleeps(p) ==
  /\ HasConsole(p) /\ r = w /\ p \notin killed
  /\ asleep' = asleep \cup {p} /\ conslock' = NoProc
  /\ UNCHANGED <<input, output, uart, handler, pc, local, killed>>

(* ... or return -1.                                                       *)
ReadKilled(p) ==
  /\ HasConsole(p) /\ r = w /\ p \in killed
  /\ Return(p)
  /\ UNCHANGED <<input, output, uart, handler, asleep>>

(* Mutant: a ^D after other characters is consumed.                        *)
KeepsEofNever(p) == FALSE

(* A ^D after other characters stays for the next read.                    *)
KeepsEof(p) == buf[Place(r)] = "eof" /\ some[p]

(* One character; a line ends with newline, ^D, n or a failed copyout().   *)
ReadChar(p) ==
  LET c == buf[Place(r)] IN
  /\ HasConsole(p) /\ r # w
  /\ IF KeepsEof(p) THEN UNCHANGED <<buf, r>>
     ELSE r' = (r + 1) % IdxMod /\ buf' = [buf EXCEPT ![Place(r)] = NoChar]
  /\ \/ c = "a" /\ n[p] > 1
        /\ n' = [n EXCEPT ![p] = @ - 1] /\ some' = [some EXCEPT ![p] = TRUE]
        /\ conslock' = p /\ UNCHANGED <<pc, killed>>
     \/ Return(p)
  /\ UNCHANGED <<w, e, output, uart, handler, asleep>>

(* kkill() of a process in a call, asleep or not; uartwrite() does not     *)
(* look at killed.                                                         *)
Kill(p) ==
  /\ \/ pc[p] = "read" /\ p \notin killed /\ killed' = killed \cup {p}
     \/ pc[p] = "write" /\ p \in asleep /\ UNCHANGED killed
  /\ asleep' = asleep \ {p}
  /\ UNCHANGED <<input, conslock, output, uart, handler, pc, local>>

Next ==
  \/ Sent \/ Type \/ Printf
  \/ IntrEnter \/ IntrStart \/ IntrWake \/ IntrLeave
  \/ \E c \in Chars : Erase(c) \/ Store(c)
  \/ \E p \in Procs :
       \/ WriteCall(p) \/ WriteSleeps(p)
       \/ \E b \in Bytes : WriteByte(p, b)
       \/ \E k \in 1 .. MaxRead : ReadCall(p, k)
       \/ ReadSleeps(p) \/ ReadKilled(p) \/ ReadChar(p)
       \/ Kill(p)

Spec == Init /\ [][Next]_vars
-----------------------------------------------------------------------------
(* Properties.                                                             *)

(* Types.                                                                  *)
TypeOK ==
  /\ buf \in [0 .. INPUT_BUF_SIZE - 1 -> {"a", "nl", "eof", NoChar}]
  /\ r \in Idx /\ w \in Idx /\ e \in Idx /\ tx_r \in 0 .. TxMod - 1 /\ tx_w \in 0 .. TxMod - 1
  /\ tx_buf \in [0 .. UART_TX_BUF_SIZE - 1 -> Bytes \cup {NoChar}]
  /\ conslock \in Procs \cup {NoProc}
  /\ busy \in BOOLEAN /\ irq \in BOOLEAN /\ rx \in BOOLEAN
  /\ handler \in {"off", "start", "wake", "rx"}
  /\ pc \in [Procs -> {"idle", "read", "write"}]
  /\ n \in [Procs -> 0 .. MaxRead] /\ some \in [Procs -> BOOLEAN]
  /\ asleep \subseteq Procs /\ killed \subseteq Procs

(* The contents of a ring.                                                 *)
Contents(ring, a, len, size) == [i \in 1 .. len |-> ring[(a + i - 1) % size]]

Lines == Contents(buf, r, Between(r, w), INPUT_BUF_SIZE)
Queued == Contents(tx_buf, tx_r, TxBetween(tx_r, tx_w), UART_TX_BUF_SIZE)

(* r, w and e stay in this order, at most INPUT_BUF_SIZE apart, also when  *)
(* one has wrapped and another has not; the characters between them are    *)
(* those that were typed.  A full ring is handed to the readers: typing is *)
(* not refused for ever because a line is too long to end.                 *)
InputRing ==
  /\ TypeOK
  /\ Between(r, w) <= Between(r, e) /\ Between(r, e) <= INPUT_BUF_SIZE
  /\ \A i \in 1 .. Between(r, w) : Lines[i] # NoChar
  /\ Between(r, e) = INPUT_BUF_SIZE => w = e

(* Lines given up for reading are not edited any more: they only lose      *)
(* their first character, to a reader, or gain characters at their end.    *)
LinesStable ==
  [][LET old == Len(Lines)
         new == Len(Lines') IN
     \/ UNCHANGED <<buf, r, w>>
     \/ new >= old /\ SubSeq(Lines', 1, old) = Lines
     \/ new = old - 1 /\ Lines' = Tail(Lines)]_vars

(* A ^D that ends a read which returned characters is still there, so that *)
(* the next read returns 0.                                                *)
EofIsSeen ==
  [][\A p \in Procs :
       (pc[p] = "read" /\ some[p] /\ r # w /\ buf[Place(r)] = "eof"
          /\ pc'[p] = "idle") => (r' # w' /\ buf'[Place(r')] = "eof")]_vars

(* Bytes are sent in the order in which calls of uartwrite() put them into *)
(* the ring, when the transmitter is idle; none is lost or overwritten, by *)
(* a writer or by the handler.                                             *)
Returning == {p \in Procs : pc[p] = "write" /\ pc'[p] = "idle"}
Written == IF Returning = {} THEN {<<>>} ELSE {<<b>> : b \in Bytes}
QueueIsFIFO ==
  [][\/ UNCHANGED output /\ Returning = {}
     \/ \E new \in Written :
          LET all == Queued \o new
              sent == Len(all) - Len(Queued') IN
          /\ sent >= 0 /\ Queued' = SubSeq(all, sent + 1, Len(all))
          /\ sent > 0 => ~busy /\ busy']_vars

(* Nobody sleeps through the wakeup() it waits for.  A reader sleeps only  *)
(* while there is nothing to read; a writer only while a byte is on its    *)
(* way, an interrupt is pending, or the handler has yet to wake it.        *)
SleepersHaveWaker ==
  /\ \A p \in asleep : pc[p] = "read" => r = w
  /\ (\E p \in asleep : pc[p] = "write") => busy \/ irq \/ handler \in {"start", "wake"}
=============================================================================
