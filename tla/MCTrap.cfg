SPECIFICATION Spec
CONSTANTS
  t1 = t1
  t2 = t2
  NCPU = 2
  Threads = {t1, t2}
  TickMod = 3
  Naps = {0, 2}
  None = none
SYMMETRY Sym
INVARIANTS TrapsComeHome InterruptsFollowLocks SleepsOnTime
