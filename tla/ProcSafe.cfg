CONSTANTS
  NPROC = 4
  CPU = {c1, c2}
  NoCPU = NoCPU
  RR = FALSE
  KillArgs = {2}
  MaxPid = 5
SYMMETRY CpuSymmetry
SPECIFICATION Spec
INVARIANTS TypeOK Exclusive SchedPanics ChildrenCollected OnlyKilledIfAsked
CHECK_DEADLOCK FALSE
