SPECIFICATION Spec
CONSTANTS
  NPROC = 2
  NPAGES = 3
  NFRAMES = 10
  TextPages = 1
  Val = {0}
INVARIANT PermissionsKept
CHECK_DEADLOCK FALSE
