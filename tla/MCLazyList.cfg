SPECIFICATION FairSpec
CONSTANTS
  Threads = {t1, t2}
  NoThread = NoThread
  Len = 2
  Keys <- MCKeys
  Values = {v1, v2}
  NoValue = NoValue
  DefaultKey = 0
  MaxKey = 4
  MaxCalls = 2
INVARIANTS ReadersSafe
PROPERTIES Implements CallsReturn
CHECK_DEADLOCK FALSE
