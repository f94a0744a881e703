SPECIFICATION AlarmSpec
CONSTANTS
  Main = {m1, m2}
  Handler = {h1, h2}
  entry = h1
  A0 <- A0Values
  Intervals <- AlarmIntervals
  MaxCalls = 2
PROPERTY AllRegistersRestored
CHECK_DEADLOCK FALSE
