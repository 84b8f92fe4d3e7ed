SPECIFICATION Spec
CONSTANTS
  p1 = p1
  p2 = p2
  n1 = n1
  n2 = n2
  Procs = {p1, p2}
  NoProc = noproc
  Names = {n1, n2}
  NInodes = 2
  NINODE = 2
  Blocks = {1}
  NLINK_MAX = 2
  MaxGroup = 2
SYMMETRY SymP
INVARIANTS  MemoryMatchesDisk DiskConsistent NobodyStuck
