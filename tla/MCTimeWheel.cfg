CONSTANTS
  Timers = {x, y}
  NumSlot = 5
  Unit = 2
  Delays = {2, 3, 5}
  Intervals = {3}
  RoundedDown = {4, 6}
  Prompt = TRUE
  CancelAny = FALSE
  MaxLag = 4
  MaxTime = 10
SPECIFICATION WheelFairSpec
INVARIANTS
  NoFault
  TimersOnTime
PROPERTIES
  TimerFires
CHECK_DEADLOCK FALSE
