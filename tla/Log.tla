-------------------------------- MODULE Log --------------------------------
(***************************************************************************)
(* The write-ahead log of kernel/log.c, with the part of the buffer cache  *)
(* (kernel/bio.c) its correctness depends on: a cached block may differ    *)
(* from its copy on disk, and only a block whose reference count is zero   *)
(* may be recycled.                                                        *)
(*                                                                         *)
(* Processes make file-system calls between begin_op() and end_op(); the   *)
(* last one to finish commits for all of them.  The machine may crash      *)
(* between any two steps, and in the middle of a block write: a block is   *)
(* two disk sectors (BSIZE is 1024), so an interrupted write may leave     *)
(* neither the old nor the new contents.  The header is the exception: n   *)
(* and block[] take 124 bytes, one sector.                                 *)
(*                                                                         *)
(* Disk addresses are relative to log.start: the header is block 0, log    *)
(* slots are blocks 1 .. LOGBLOCKS, and the image mkfs built reserves      *)
(* blocks 0 .. NLog-1 for the log, so that home blocks start at NLog.      *)
(***************************************************************************)
EXTENDS Integers, Sequences, FiniteSets

CONSTANTS
  Procs,        \* processes that make file-system calls
  Home,         \* disk addresses of the blocks of the file system
  Val,          \* block contents
  Zero,         \* the contents mkfs gave a block
  Torn,         \* the contents an interrupted block write leaves
  NoVal,        \* "no valid buffer for this block"
  NoProc,       \* "buffer not locked"
  MAXOPBLOCKS,  \* param.h: log space begin_op() reserves for a call
  LOGBLOCKS,    \* param.h: size of logheader.block[]
  NLog,         \* superblock.nlog: blocks the image reserves for the log
  OpBlocks,     \* distinct blocks a call writes at most
  MaxCommit     \* bound on log.ncommit

ASSUME LogAssumption ==
  /\ MAXOPBLOCKS \in Nat \ {0}
  /\ LOGBLOCKS \in Nat /\ MAXOPBLOCKS <= LOGBLOCKS
  /\ NLog \in Nat
  /\ OpBlocks \in Nat /\ OpBlocks <= MAXOPBLOCKS
  /\ MaxCommit \in Nat
  /\ Home \subseteq Nat /\ \A b \in Home : NLog <= b
  /\ Zero \in Val
  /\ Torn \notin Val /\ NoVal \notin Val /\ NoVal # Torn
  /\ NoProc \notin Procs /\ IsFiniteSet(Procs)

VARIABLES
  disk,         \* contents of the log slots and of the home blocks
  dhead,        \* on-disk header: block[0..n-1]
  cache,        \* data of the valid buffers
  pin,          \* references bpin() holds on each buffer
  lock,         \* holder of each buffer's sleep-lock
  lh,           \* log.lh: block[0..n-1]
  outstanding,  \* log.outstanding
  committing,   \* log.committing
  ncommit,      \* log.ncommit
  tail,         \* the loop variable of write_log() and install_trans()
  pc,           \* where each process is
  asleep,       \* processes in sleep(&log, &log.lock)
  goal,         \* the local n of each process's sys_sync()
  boot,         \* progress of recover_from_log(); "up" once it is done
  wrote,        \* history: blocks the current call of a process has written
  unsaved,      \* history: a finished call's writes await their commit
  owed          \* history: sys_sync() callers promised such a commit

memory == <<cache, pin, lock>>
loghdr == <<lh, outstanding, committing, ncommit>>
history == <<wrote, unsaved, owed>>
vars == <<disk, dhead, memory, loghdr, tail, pc, asleep, goal, boot, history>>

Slots == 1 .. LOGBLOCKS
Blocks(s) == {s[i] : i \in 1 .. Len(s)}
InOp == {"op", "held"}
InCommit == {"write_log", "write_head", "install", "clear", "finish"}
PC == {"idle", "begin", "read", "sync", "panic"} \cup InOp \cup InCommit

(* What bread(b) returns: the cached data, or the block read from disk.    *)
Data(b) == IF cache[b] = NoVal THEN disk[b] ELSE cache[b]

(* A kernel that starts on the image mkfs wrote.                           *)
Init ==
  /\ disk = [a \in Slots \cup Home |-> Zero]
  /\ dhead = <<>>
  /\ cache = [b \in Home |-> NoVal]
  /\ pin = [b \in Home |-> 0]
  /\ lock = [b \in Home |-> NoProc]
  /\ lh = <<>> /\ outstanding = 0 /\ committing = FALSE /\ ncommit = 0
  /\ tail = 0
  /\ pc = [p \in Procs |-> "idle"] /\ asleep = {}
  /\ goal = [p \in Procs |-> 0]
  /\ boot = "read_head"
  /\ wrote = [p \in Procs |-> {}] /\ unsaved = FALSE /\ owed = {}

-----------------------------------------------------------------------------
(* Recovery at boot, before any process makes a file-system call.          *)

ReadHead ==
  /\ boot = "read_head"
  /\ lh' = dhead
  /\ boot' = IF dhead = <<>> THEN "clear" ELSE "install"
  /\ UNCHANGED <<disk, dhead, memory, outstanding, committing, ncommit, tail,
                 pc, asleep, goal, history>>

(* One iteration of install_trans(1).                                      *)
RecoverBlock ==
  /\ boot = "install"
  /\ disk' = [disk EXCEPT ![lh[tail + 1]] = disk[tail + 1]]
  /\ cache' = [cache EXCEPT ![lh[tail + 1]] = disk[tail + 1]]
  /\ IF tail + 1 < Len(lh)
     THEN tail' = tail + 1 /\ boot' = boot
     ELSE tail' = 0 /\ boot' = "clear"
  /\ UNCHANGED <<dhead, pin, lock, loghdr, pc, asleep, goal, history>>

ClearLog ==
  /\ boot = "clear"
  /\ lh' = <<>>
  /\ dhead' = <<>>
  /\ boot' = "up"
  /\ UNCHANGED <<disk, memory, outstanding, committing, ncommit, tail, pc,
                 asleep, goal, history>>

-----------------------------------------------------------------------------
(* System calls.                                                           *)

LogHasRoom == Len(lh) + (outstanding + 1) * MAXOPBLOCKS <= LOGBLOCKS

MayBegin == ~committing /\ LogHasRoom

BeginOp(p) ==
  /\ boot = "up" /\ p \notin asleep
  /\ pc[p] = "begin" \/ (pc[p] = "idle" /\ ncommit < MaxCommit)
  /\ MayBegin
  /\ outstanding' = outstanding + 1
  /\ pc' = [pc EXCEPT ![p] = "op"]
  /\ wrote' = [wrote EXCEPT ![p] = {}]
  /\ UNCHANGED <<disk, dhead, memory, lh, committing, ncommit, tail, asleep,
                 goal, boot, unsaved, owed>>

BeginOpSleep(p) ==
  /\ boot = "up" /\ p \notin asleep
  /\ pc[p] = "begin" \/ (pc[p] = "idle" /\ ncommit < MaxCommit)
  /\ ~MayBegin
  /\ asleep' = asleep \cup {p}
  /\ pc' = [pc EXCEPT ![p] = "begin"]
  /\ UNCHANGED <<disk, dhead, memory, loghdr, tail, goal, boot, history>>

(* A call locks a buffer; so may a reader outside any transaction.         *)
Bread(p, b) ==
  /\ boot = "up"
  /\ pc[p] \in {"op", "idle"}
  /\ lock[b] = NoProc
  /\ lock' = [lock EXCEPT ![b] = p]
  /\ cache' = [cache EXCEPT ![b] = Data(b)]
  /\ pc' = [pc EXCEPT ![p] = IF pc[p] = "op" THEN "held" ELSE "read"]
  /\ UNCHANGED <<disk, dhead, pin, loghdr, tail, asleep, goal, boot, history>>

Brelse(p) ==
  /\ pc[p] \in {"held", "read"}
  /\ lock' = [b \in Home |-> IF lock[b] = p THEN NoProc ELSE lock[b]]
  /\ pc' = [pc EXCEPT ![p] = IF pc[p] = "held" THEN "op" ELSE "idle"]
  /\ UNCHANGED <<disk, dhead, cache, pin, loghdr, tail, asleep, goal, boot,
                 history>>

(* Mutant: log_write() does not look for the block in the log.             *)
AbsentAlways(b) == TRUE

(* log_write() absorbs a block that is in the log already.                 *)
Absent(b) == b \notin Blocks(lh)

(* Modify b->data, then log_write(b).                                      *)
LogWrite(p, b, v) ==
  /\ pc[p] = "held" /\ lock[b] = p
  /\ b \in wrote[p] \/ Cardinality(wrote[p]) < OpBlocks
  /\ cache' = [cache EXCEPT ![b] = v]
  /\ IF Len(lh) >= LOGBLOCKS \/ outstanding < 1
     THEN /\ pc' = [pc EXCEPT ![p] = "panic"]
          /\ UNCHANGED <<lh, pin, wrote>>
     ELSE /\ lh' = IF Absent(b) THEN Append(lh, b) ELSE lh
          /\ pin' = IF Absent(b) THEN [pin EXCEPT ![b] = @ + 1] ELSE pin
          /\ wrote' = [wrote EXCEPT ![p] = @ \cup {b}]
          /\ pc' = pc
  /\ UNCHANGED <<disk, dhead, lock, outstanding, committing, ncommit, tail,
                 asleep, goal, boot, unsaved, owed>>

(* The last call to finish goes on to commit() for the whole group.        *)
EndOp(p) ==
  /\ pc[p] = "op"
  /\ outstanding' = outstanding - 1
  /\ IF committing
     THEN /\ pc' = [pc EXCEPT ![p] = "panic"]
          /\ UNCHANGED <<committing, asleep, unsaved>>
     ELSE /\ committing' = (outstanding' = 0)
          /\ asleep' = IF outstanding' = 0 THEN asleep ELSE {}
          /\ pc' = [pc EXCEPT ![p] = IF outstanding' # 0 THEN "idle"
                                     ELSE IF lh = <<>> THEN "finish"
                                     ELSE "write_log"]
          /\ unsaved' = (unsaved \/ wrote[p] # {})
  /\ UNCHANGED <<disk, dhead, memory, lh, ncommit, tail, goal, boot, wrote,
                 owed>>

(* Mutant: sys_sync() takes the count of finished commits for its goal.    *)
SyncStartEarlyGoal(p) ==
  /\ boot = "up" /\ pc[p] = "idle"
  /\ committing \/ outstanding > 0
  /\ goal' = [goal EXCEPT ![p] = ncommit]
  /\ asleep' = asleep \cup {p}
  /\ pc' = [pc EXCEPT ![p] = "sync"]
  /\ owed' = IF unsaved THEN owed \cup {p} ELSE owed
  /\ UNCHANGED <<disk, dhead, memory, loghdr, tail, boot, wrote, unsaved>>

SyncStart(p) ==
  /\ boot = "up" /\ pc[p] = "idle"
  /\ committing \/ outstanding > 0
  /\ goal' = [goal EXCEPT ![p] = ncommit + 1]
  /\ asleep' = asleep \cup {p}
  /\ pc' = [pc EXCEPT ![p] = "sync"]
  /\ owed' = IF unsaved THEN owed \cup {p} ELSE owed
  /\ UNCHANGED <<disk, dhead, memory, loghdr, tail, boot, wrote, unsaved>>

SyncLoop(p) ==
  /\ pc[p] = "sync" /\ p \notin asleep
  /\ IF ncommit < goal[p]
     THEN asleep' = asleep \cup {p} /\ UNCHANGED <<pc, goal>>
     ELSE /\ pc' = [pc EXCEPT ![p] = "idle"]
          /\ goal' = [goal EXCEPT ![p] = 0]
          /\ UNCHANGED asleep
  /\ UNCHANGED <<disk, dhead, memory, loghdr, tail, boot, history>>

(* kkill() makes a sleeping process runnable: sleep() returns early.       *)
Kick(p) ==
  /\ p \in asleep
  /\ asleep' = asleep \ {p}
  /\ UNCHANGED <<disk, dhead, memory, loghdr, tail, pc, goal, boot, history>>

-----------------------------------------------------------------------------
(* commit(), run by the last call to finish, without log.lock.             *)

(* The loop over lh.block[]: on to the next block, or out of the loop.     *)
NextTail(p, out) ==
  IF tail + 1 < Len(lh)
  THEN tail' = tail + 1 /\ pc' = pc
  ELSE tail' = 0 /\ pc' = [pc EXCEPT ![p] = out]

(* Mutant: the loop of write_log() stops one block short.                  *)
WriteLogShort(p) ==
  LET from == lh[tail + 1] IN
  /\ pc[p] = "write_log"
  /\ lock[from] = NoProc
  /\ cache' = [cache EXCEPT ![from] = Data(from)]
  /\ disk' = [disk EXCEPT ![tail + 1] = Data(from)]
  /\ IF tail + 2 < Len(lh) THEN tail' = tail + 1 /\ pc' = pc
     ELSE tail' = 0 /\ pc' = [pc EXCEPT ![p] = "write_head"]
  /\ UNCHANGED <<dhead, pin, lock, loghdr, asleep, goal, boot, history>>

WriteLog(p) ==
  LET from == lh[tail + 1] IN
  /\ pc[p] = "write_log"
  /\ lock[from] = NoProc
  /\ cache' = [cache EXCEPT ![from] = Data(from)]
  /\ disk' = [disk EXCEPT ![tail + 1] = Data(from)]
  /\ NextTail(p, "write_head")
  /\ UNCHANGED <<dhead, pin, lock, loghdr, asleep, goal, boot, history>>

WriteHead(p) ==
  /\ pc[p] = "write_head"
  /\ dhead' = lh
  /\ pc' = [pc EXCEPT ![p] = "install"]
  /\ unsaved' = FALSE /\ owed' = {}
  /\ UNCHANGED <<disk, memory, loghdr, tail, asleep, goal, boot, wrote>>

(* One iteration of install_trans(0).                                      *)
InstallBlock(p) ==
  LET dst == lh[tail + 1] IN
  /\ pc[p] = "install"
  /\ lock[dst] = NoProc
  /\ disk' = [disk EXCEPT ![dst] = disk[tail + 1]]
  /\ cache' = [cache EXCEPT ![dst] = disk[tail + 1]]
  /\ pin' = [pin EXCEPT ![dst] = @ - 1]
  /\ NextTail(p, "clear")
  /\ UNCHANGED <<dhead, lock, loghdr, asleep, goal, boot, history>>

(* Mutant: commit() forgets the transaction in memory but not on disk.     *)
EraseHeadInMemory(p) ==
  /\ pc[p] = "clear"
  /\ lh' = <<>>
  /\ pc' = [pc EXCEPT ![p] = "finish"]
  /\ UNCHANGED <<disk, dhead, memory, outstanding, committing, ncommit, tail,
                 asleep, goal, boot, history>>

EraseHead(p) ==
  /\ pc[p] = "clear"
  /\ lh' = <<>>
  /\ dhead' = <<>>
  /\ pc' = [pc EXCEPT ![p] = "finish"]
  /\ UNCHANGED <<disk, memory, outstanding, committing, ncommit, tail, asleep,
                 goal, boot, history>>

(* Mutants: end_op() does not wake the sleepers; it does not count the     *)
(* commit.                                                                 *)
FinishCommitSilently(p) ==
  /\ pc[p] = "finish"
  /\ committing' = FALSE
  /\ ncommit' = ncommit + 1
  /\ pc' = [pc EXCEPT ![p] = "idle"]
  /\ UNCHANGED <<disk, dhead, memory, lh, outstanding, tail, asleep, goal, boot,
                 history>>

FinishCommitUncounted(p) ==
  /\ pc[p] = "finish"
  /\ committing' = FALSE
  /\ asleep' = {}
  /\ pc' = [pc EXCEPT ![p] = "idle"]
  /\ UNCHANGED <<disk, dhead, memory, lh, outstanding, ncommit, tail, goal,
                 boot, history>>

FinishCommit(p) ==
  /\ pc[p] = "finish"
  /\ committing' = FALSE
  /\ ncommit' = ncommit + 1
  /\ asleep' = {}
  /\ pc' = [pc EXCEPT ![p] = "idle"]
  /\ UNCHANGED <<disk, dhead, memory, lh, outstanding, tail, goal, boot,
                 history>>

-----------------------------------------------------------------------------
(* bget() recycles a buffer that nobody references.                        *)
Recycle(b) ==
  /\ cache[b] # NoVal /\ pin[b] = 0 /\ lock[b] = NoProc
  /\ cache' = [cache EXCEPT ![b] = NoVal]
  /\ UNCHANGED <<disk, dhead, pin, lock, loghdr, tail, pc, asleep, goal, boot,
                 history>>

(* The block a bwrite() may be transferring when the power fails.          *)
InFlight ==
  IF \E p \in Procs : pc[p] = "write_log" THEN {tail + 1}
  ELSE IF boot = "install" \/ \E p \in Procs : pc[p] = "install"
  THEN {lh[tail + 1]} ELSE {}

(* The machine restarts: memory is lost.                                   *)
Crash(torn) ==
  /\ disk' = [a \in Slots \cup Home |-> IF a \in torn THEN Torn ELSE disk[a]]
  /\ dhead' = dhead
  /\ cache' = [b \in Home |-> NoVal]
  /\ pin' = [b \in Home |-> 0]
  /\ lock' = [b \in Home |-> NoProc]
  /\ lh' = <<>> /\ outstanding' = 0 /\ committing' = FALSE /\ ncommit' = 0
  /\ tail' = 0
  /\ pc' = [p \in Procs |-> "idle"] /\ asleep' = {}
  /\ goal' = [p \in Procs |-> 0]
  /\ boot' = "read_head"
  /\ wrote' = [p \in Procs |-> {}] /\ unsaved' = FALSE /\ owed' = {}

CommitStep(p) ==
  \/ WriteLog(p) \/ WriteHead(p) \/ InstallBlock(p) \/ EraseHead(p)
  \/ FinishCommit(p)

Next ==
  \/ ReadHead \/ RecoverBlock \/ ClearLog
  \/ \E p \in Procs :
       \/ BeginOp(p) \/ BeginOpSleep(p) \/ EndOp(p) \/ Brelse(p)
       \/ SyncStart(p) \/ SyncLoop(p) \/ Kick(p) \/ CommitStep(p)
       \/ \E b \in Home : Bread(p, b) \/ \E v \in Val : LogWrite(p, b, v)
  \/ \E b \in Home : Recycle(b)
  \/ \E torn \in SUBSET InFlight : Crash(torn)

(* Recovery runs, and a process in the kernel keeps running.  Strong       *)
(* fairness where a step may be disabled again and again: the committer    *)
(* waits for buffers that readers lock and release (releasesleep() wakes   *)
(* it every time), and a call stops locking buffers and ends.              *)
Fairness ==
  /\ WF_vars(ReadHead \/ RecoverBlock \/ ClearLog)
  /\ \A p \in Procs : /\ SF_vars(CommitStep(p))
                      /\ WF_vars(Brelse(p))
                      /\ WF_vars(SyncLoop(p))
                      /\ SF_vars(EndOp(p))

Spec == Init /\ [][Next]_vars
FairSpec == Spec /\ Fairness
-----------------------------------------------------------------------------
(* Properties.                                                             *)

(* Types.  pin is a natural number: bunpin() never takes a reference that  *)
(* bpin() did not take, also in the recovery of a committed transaction.   *)
TypeOK ==
  /\ disk \in [Slots \cup Home -> Val \cup {Torn}]
  /\ dhead \in Seq(Home) /\ lh \in Seq(Home)
  /\ cache \in [Home -> Val \cup {Torn, NoVal}]
  /\ pin \in [Home -> Nat]
  /\ lock \in [Home -> Procs \cup {NoProc}]
  /\ outstanding \in Nat /\ committing \in BOOLEAN /\ ncommit \in Nat
  /\ tail \in Nat
  /\ pc \in [Procs -> PC] /\ asleep \subseteq Procs
  /\ goal \in [Procs -> Nat]
  /\ boot \in {"read_head", "install", "clear", "up"}
  /\ wrote \in [Procs -> SUBSET Home]
  /\ unsaved \in BOOLEAN /\ owed \subseteq Procs

(* What the disk will hold once recover_from_log() has run: the home       *)
(* blocks, overlaid by the log slots if the header says they count.        *)
Recovered(b) ==
  IF b \in Blocks(dhead)
  THEN disk[CHOOSE i \in 1 .. Len(dhead) : dhead[i] = b]
  ELSE disk[b]

Dur == [b \in Home |-> Recovered(b)]
Cur == [b \in Home |-> IF boot = "up" THEN Data(b) ELSE Recovered(b)]
Active == {p \in Procs : pc[p] \in InOp}

AD == INSTANCE AtomicDisk WITH cur <- Cur, dur <- Dur, active <- Active

(* Crash atomicity.  log.c:12-16: a commit writes all the updates of the   *)
(* finished calls and nothing of an unfinished one.  Whatever the point of *)
(* the crash, during commit() or during recovery itself, and whether or    *)
(* not a block write was torn, recovery brings back the contents of the    *)
(* last commit; and while the system is up a read sees every write before  *)
(* it, although unpinned buffers may be recycled at any time.              *)
CrashAtomic == AD!Spec

(* None of the panics of log.c is reached: "too big a transaction" and     *)
(* "log_write outside of trans" in log_write(), "log.committing" in        *)
(* end_op().                                                               *)
NoPanic == \A p \in Procs : pc[p] # "panic"

(* The slots the log fills lie in the blocks the image reserves for it:    *)
(* write_log() never writes at or beyond superblock.inodestart.            *)
LogInsideRegion == Len(lh) < NLog

(* The space that begin_op() sets aside suffices: calls that keep to their *)
(* reservation, however often they write a block, neither make log_write() *)
(* panic nor fill a slot that the image gave to the inodes.                *)
LogFits == NoPanic /\ LogInsideRegion

(* While a process is in commit(), which runs without log.lock, nobody     *)
(* else is in commit() and no call is between begin_op() and end_op().     *)
CommitAlone ==
  \A p, q \in Procs :
    pc[p] \in InCommit => (q = p \/ pc[q] \notin InOp \cup InCommit)

(* The reference that log_write() takes on a buffer is dropped exactly     *)
(* once: a buffer is pinned, with a single reference, from the moment its  *)
(* block enters the log to the moment install_trans(0) has written it.     *)
PinsMatchLog ==
  boot = "up" =>
    \A b \in Home :
      pin[b] = IF \E i \in 1 .. Len(lh) :
                    /\ lh[i] = b
                    /\ \A p \in Procs : /\ pc[p] = "install" => tail < i
                                        /\ pc[p] # "clear"
               THEN 1 ELSE 0

(* sys_sync() returns only when every call that had finished before it was *)
(* invoked is on disk, also when it returns at once.                       *)
SyncDurable ==
  /\ \A p \in Procs : (pc[p] = "sync" /\ ncommit >= goal[p]) => p \notin owed
  /\ (boot = "up" /\ ~committing /\ outstanding = 0) => ~unsaved

(* No wakeup is lost: a process sleeping on &log, in begin_op() or in      *)
(* sys_sync(), has somebody left to wake it.                               *)
SleepersHaveWaker == asleep # {} => (committing \/ outstanding > 0)

(* A process that sleeps on &log is woken.                                 *)
SleepersWake == \A p \in Procs : []<>(p \notin asleep)

(* A call of sys_sync() returns.                                           *)
SyncReturns == \A p \in Procs : []<>(pc[p] # "sync")
=============================================================================
