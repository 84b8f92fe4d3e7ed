SPECIFICATION Spec
CONSTANTS
  NPROC = 2
  NPAGES = 16
  PGSIZE = 2
  LEVELS = 3
  FANOUT = 2
  MAXVA = 8
  USERSTACK = 1
  Programs <- MCPrograms
  Deltas <- MCDeltas
  Stores = {1}
INVARIANT PagesOwnedOnce
PROPERTY Isolated
