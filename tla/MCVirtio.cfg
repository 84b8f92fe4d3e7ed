SPECIFICATION FairSpec
CONSTANTS
  p1 = p1
  p2 = p2
  p3 = p3
  Procs = {p1, p2, p3}
  NoProc = noproc
  NUM = 6
  IdxMod = 12
INVARIANTS  DeviceSafe Transferred
PROPERTIES RequestReturns
