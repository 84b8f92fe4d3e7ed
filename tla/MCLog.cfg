SPECIFICATION Spec
CONSTANTS
  p1 = p1
  p2 = p2
  v0 = v0
  v1 = v1
  Procs = {p1, p2}
  Home = {6, 7}
  Val = {v0, v1}
  Zero = v0
  Torn = torn
  NoVal = noval
  NoProc = noproc
  MAXOPBLOCKS = 3
  LOGBLOCKS = 6
  NLog = 6
  OpBlocks = 2
  MaxCommit = 2
INVARIANTS SyncDurable  IInv
PROPERTIES CrashAtomic
