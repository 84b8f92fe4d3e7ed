SPECIFICATION Spec
CONSTANTS
  p1 = p1
  p2 = p2
  b1 = b1
  b2 = b2
  Procs = {p1, p2}
  NoProc = noproc
  INPUT_BUF_SIZE = 2
  UART_TX_BUF_SIZE = 2
  IdxMod = 4
  TxMod = 4
  Bytes = {b1, b2}
  MaxRead = 2
  NoChar = nochar
INVARIANTS InputRing SleepersHaveWaker
PROPERTIES LinesStable EofIsSeen QueueIsFIFO
SYMMETRY Sym
