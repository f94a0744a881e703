CONSTANTS
  NPROC = 3
  CPU = {c1}
  NoCPU = NoCPU
  RR = TRUE
  KillArgs = {2}
  MaxPid = 4
SPECIFICATION LiveSpec
PROPERTIES WaitReturns KilledSleeperExits
CHECK_DEADLOCK FALSE
