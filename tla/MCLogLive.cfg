SPECIFICATION FairSpec
CONSTANTS
  p1 = p1
  p2 = p2
  v0 = v0
  v1 = v1
  Procs = {p1, p2}
  Home = {4, 5}
  Val = {v0, v1}
  Zero = v0
  Torn = torn
  NoVal = noval
  NoProc = noproc
  MAXOPBLOCKS = 2
  LOGBLOCKS = 4
  NLog = 4
  OpBlocks = 1
  MaxCommit = 1
PROPERTIES SleepersWake 
