SPECIFICATION AllSpec
SYMMETRY Users
CONSTANTS
  User = {p1, p2}
  Buf = {b1, b2}
  Blk = {1, 2, 3}
  Val = {0, 1}
  None = none
  Caller = {p1, p2}
  Datum = {0, 1}
  NoReq = noreq
  Sizes = {4, 6}
  Rounds = 1
  Writer = {p1, p2}
  Out = {"a", "b"}
  NoChar = nochar
  UART_TX_BUF_SIZE = 2
  TxMod = 4
  Echoes = {0, 1, 3}
  Reader = {p1, p2}
  Intr = intr
  Free = free
  INPUT_BUF_SIZE = 3
  ConsMod = 6
  ReadCounts = {2}
  Keys = {"x", "cr", "^D", "^H", "^U", "nul"}
INVARIANTS BuffersExact DriverExact OutputFlows ReadersServed
PROPERTIES CacheIsBlocks TransfersOnce OutputIsFifo InputIsLines
