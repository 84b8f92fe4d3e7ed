SPECIFICATION FairSpec
CONSTANTS
  p1 = p1
  p2 = p2
  v0 = v0
  v1 = v1
  Procs = {p1, p2}
  NoProc = noproc
  NBUF = 2
  Blocks = {1, 2, 3}
  NoBlock = noblock
  Val = {v0, v1}
  Zero = v0
  MaxHeld = 2
  MaxPins = 1
CHECK_DEADLOCK FALSE
INVARIANTS RefCounts RingWhole
PROPERTIES PanicOnlyWhenFull Coherent BreadReturns
