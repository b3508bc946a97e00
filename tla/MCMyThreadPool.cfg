SPECIFICATION FairSpec
CONSTANTS
  r1 = r1
  r2 = r2
  c1 = c1
  c2 = c2
  Tasks = {r1, r2, c1, c2}
  NoTask = NoTask
  MaxThreads = 3
  Scenarios <- MCScenarios
PROPERTIES Implements EveryTaskRuns DtorReturns
CHECK_DEADLOCK FALSE
