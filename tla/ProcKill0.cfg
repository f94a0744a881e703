CONSTANTS
  NPROC = 3
  CPU = {c1}
  NoCPU = NoCPU
  RR = FALSE
  KillArgs = {0}
  MaxPid = 4
SPECIFICATION Spec
INVARIANTS OnlyKilledIfAsked
CHECK_DEADLOCK FALSE
