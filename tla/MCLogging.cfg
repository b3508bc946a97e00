SPECIFICATION Spec
CONSTANTS
  a = a
  b = b
  Threads = {a, b}
  NoThread = NoThread
  Scenarios <- MCScenarios
  Size = 4000
  MaxNumericSize = 32
  RollSize = 200
  FlushInterval = 1
  CheckEveryN = 2
  RollPerSeconds = 4
  StartClock = 4
INVARIANTS MessagesIntact BufferedIsFresh FilesBounded LinesRight EndsOnDisk
CHECK_DEADLOCK FALSE
