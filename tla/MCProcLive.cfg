SPECIFICATION FairSpec
CONSTANTS
  c1 = c1
  c2 = c2
  NPROC = 3
  CPUs = {c1}
  NoCpu = nocpu
  KillPids = {2}
  MaxPid = 4
CHECK_DEADLOCK FALSE
PROPERTIES RunnableRuns OrphansReaped KilledExits
