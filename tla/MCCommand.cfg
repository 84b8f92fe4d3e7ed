SPECIFICATION Spec
CONSTANTS
  BSIZE = 2
  NDIRECT = 2
  NINDIRECT = 1
  DIRSIZ = 2
  FSSIZE = 8
  NMETA = 1
  NINODES = 4
  MaxChunk = 2
  NLINK_MAX = 2
  MAXARGS = 3
  NBUF = 7
  MAXPATH = 5
  MAXARG = 4
  MaxWork = 6
  Elf <- MCElf
  Image <- MCImage
  Data <- MCData
  Writes <- MCWrites
  Paths <- MCPaths
  Keys <- MCKeys
INVARIANTS Accounted 
PROPERTIES KeepsTree 
CHECK_DEADLOCK FALSE
