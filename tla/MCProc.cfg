SPECIFICATION Spec
CONSTANTS
  c1 = c1
  c2 = c2
  NPROC = 3
  CPUs = {c1, c2}
  NoCpu = nocpu
  KillPids = {0, 2}
  MaxPid = 5
SYMMETRY SymC
INVARIANTS OneStack SchedChecks NoLostExit 
