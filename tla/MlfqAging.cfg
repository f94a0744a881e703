SPECIFICATION Spec
CONSTANTS
  NPROC = 3
  MaxProcs = 2
  NQ = 3
  MAXWAITTIME = 1
INVARIANT NeverPopsNothing
CHECK_DEADLOCK FALSE
