SPECIFICATION AllLive
CONSTANTS
  Op = {o1, o2}
  Block = {b1, b2}
  Val = {0, 1}
  NoBlock = NoBlock
  LOGSIZE = 4
  MAXOPBLOCKS = 2
  nlog = 3
  Main = {m1, m2}
  Handler = {h1, h2}
  entry = h1
  A0 <- A0Values
  Intervals <- AlarmIntervals
  MaxCalls = 3
  NTASK = 2
  TickMod = 4
  MaxLife = 2
  SleepArgs = {2}
INVARIANTS LogSafe AlarmSafe ClockSafe
PROPERTIES AllOrNothing SleeperWakes ResumesWhereInterrupted TicksServed
