SPECIFICATION AllSpec
SYMMETRY Harts
CONSTANTS
  NPROC = 3
  MaxProcs = 2
  NQ = 3
  MAXWAITTIME = 1
  CPU = {h1, h2}
  NSLOT = 3
  Nobody = nobody
  Builds = {"FCFS", "PBS", "LBS"}
  Priorities <- PriorityArgs
  TicketNums = {2}
  MaxCt = 1
  MaxTicks = 1
  Hart = {c1, c2}
  Thread = {t1, t2}
  Lock = {l1, l2}
  NoLock = nolock
  NoHart = nohart
INVARIANTS QueuesExact RunsOnOneHart SchedLocksExact PbsChoiceStands NoSelfDeadlock NestingExact
