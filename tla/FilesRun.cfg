SPECIFICATION AllSpec
SYMMETRY Processes
CONSTANTS
  FProc = {p1, p2}
  Inum = {1, 2, 3}
  Name = {"a", "b"}
  File = {f1}
  Calls <- CallsDef
  Nil = nil
  DProc = {q1, q2}
  NoProc = np
  Zero = zero
  Garbage = garbage
  Ino = {1, 2}
  Fd = {"f1", "f2"}
  InoOf <- InoOfDef
  NBlocks = 3
  NDIRECT = 1
  NINDIRECT = 1
  BSIZE = 2
  Counts = {3}
  MaxChunk = 2
INVARIANTS InodesExact NoLockCycle FilesExact
PROPERTIES OffsetsMoveOn
