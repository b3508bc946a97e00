CONSTANTS
  Owner = owner
  Others = {t1, t2}
  Functors = {f1, f2, f3}
  MaxStops = 2
  MaxDispatches = 2
  OwnerQueuesEarly = FALSE
SPECIFICATION FairSpec
INVARIANTS
  NoSleepOnPending
  NoSleepAfterStop
PROPERTIES
  BatchIsFixed
  Implements
  EveryFunctorRuns
  StopEndsDispatch
CHECK_DEADLOCK FALSE
