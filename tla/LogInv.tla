------------------------------- MODULE LogInv -------------------------------
(***************************************************************************)
(* The inductive invariant behind the theorems of LogProofs, in named      *)
(* parts.                                                                  *)
(***************************************************************************)
EXTENDS Log

(* The geometry and the discipline of the callers that keep the log from   *)
(* filling up: the image reserves a block for the header and one for every *)
(* slot but the last, and a call writes fewer blocks than begin_op()       *)
(* reserved for it.                                                        *)
OpsFit == OpBlocks < MAXOPBLOCKS /\ LOGBLOCKS <= NLog

At(set) == \E p \in Procs : pc[p] \in set

Injective(s) == \A i, j \in 1 .. Len(s) : s[i] = s[j] => i = j

(* Log space promised to the calls in progress: one token for each block a *)
(* call may still write.                                                   *)
Unused == {t \in Active \X (1 .. MAXOPBLOCKS) : Cardinality(wrote[t[1]]) < t[2]}

SpaceInv ==
  /\ Len(lh) < LOGBLOCKS
  /\ boot = "up" => Len(lh) + Cardinality(Unused) <= LOGBLOCKS
  /\ \A p \in Procs : /\ IsFiniteSet(wrote[p])
                      /\ Cardinality(wrote[p]) <= OpBlocks
                      /\ pc[p] \in InOp => wrote[p] \subseteq Blocks(lh)

(* log.outstanding counts the calls; commit() excludes them.               *)
CountInv ==
  /\ outstanding = Cardinality(Active)
  /\ committing <=> At(InCommit)
  /\ committing => outstanding = 0
  /\ CommitAlone
  /\ NoPanic
  /\ (boot = "up" /\ ~committing /\ outstanding = 0) => lh = <<>>

(* Nothing runs before recovery has finished.                              *)
BootInv ==
  boot # "up" => /\ \A p \in Procs : pc[p] = "idle"
                 /\ \A b \in Home : pin[b] = 0
                 /\ \A b \in Home : cache[b] \in {NoVal, disk[b]}
                 /\ boot = "read_head" => lh = <<>>
                 /\ boot # "read_head" => lh = dhead

(* The position in the loops over lh.block[].                              *)
TailInv ==
  /\ (boot = "install" \/ At({"write_log", "install"})) => tail < Len(lh)
  /\ (boot # "install" /\ ~At({"write_log", "install"})) => tail = 0
  /\ At({"write_head", "clear"}) => lh # <<>>
  /\ At({"finish"}) => lh = <<>>

(* The two headers.                                                        *)
HeadInv ==
  /\ Injective(lh) /\ Injective(dhead)
  /\ Len(dhead) < LOGBLOCKS
  /\ boot = "up" => dhead = IF At({"install", "clear"}) THEN lh ELSE <<>>

(* Where the copies of a logged block agree.                               *)
CopyInv ==
  /\ At({"write_log"}) => \A i \in 1 .. tail : disk[i] = Data(lh[i])
  /\ At({"write_head", "install", "clear"}) =>
       \A i \in 1 .. Len(lh) : disk[i] = Data(lh[i])
  /\ (boot = "install" \/ At({"install"})) =>
       \A i \in 1 .. tail : disk[lh[i]] = disk[i]
  /\ (boot = "clear" \/ At({"clear"})) =>
       \A i \in 1 .. Len(lh) : disk[lh[i]] = disk[i]

(* A buffer that differs from the disk cannot be recycled.                 *)
CleanInv ==
  /\ PinsMatchLog
  /\ boot = "up" => \A b \in Home : IF pin[b] = 0 THEN cache[b] \in {NoVal, disk[b]}
                                    ELSE cache[b] # NoVal

(* A caller of sys_sync() that is owed a commit waits for the current one. *)
SyncInv ==
  /\ unsaved => lh # <<>>
  /\ At({"install", "clear", "finish"}) => ~unsaved
  /\ owed # {} => unsaved
  /\ \A p \in owed : pc[p] = "sync" /\ goal[p] = ncommit + 1
  /\ \A p \in Procs : pc[p] = "sync" => goal[p] <= ncommit + 1
  /\ \A p \in Procs : (pc[p] = "sync" /\ ncommit < goal[p]) =>
                          (committing \/ outstanding > 0)
  /\ boot # "up" => ~unsaved
  /\ SleepersHaveWaker

(* The inductive invariant: where the two headers, the slots, the buffers  *)
(* and the home blocks agree at every point of begin_op(), log_write(),    *)
(* end_op(), commit() and recover_from_log().                              *)
IInv == /\ TypeOK /\ SpaceInv /\ CountInv /\ BootInv /\ TailInv /\ HeadInv
        /\ CopyInv /\ CleanInv /\ SyncInv
=============================================================================
