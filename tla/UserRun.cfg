SPECIFICATION AllSpec
CONSTANTS
  NPROC = 2
  NPAGES = 2
  NFRAMES = 9
  TextPages = 0
  Val = {0, 1}
  PipeProc = {q1, q2}
  Maker = q1
  Nobody = nobody
  Byte = {0, 1}
  PIPESIZE = 2
  UintMod = 4
  Counts = {3}
  NSH = 6
  Sessions <- SessionsDef
  TypedChars = {"w", " ", "|", "<", ">", "&", ";", "(", ")"}
  MaxLine = 5
  MAXARGS = 3
  Heap = 7
  MinCore = 3
  Requests = {1, 2, 4}
INVARIANTS FramesExact PipeSafe Plumbing ForegroundDone LinesParsed HeapExact
PROPERTIES PrivateMemory PipeIsFifo
