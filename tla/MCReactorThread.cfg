CONSTANTS
  Owner = owner
  Creator = creator
  Others = {creator, t1}
  Functors = {f1, f2}
  MaxStops = 2
  MaxDispatches = 1
  OwnerQueuesEarly = TRUE
  FunctorsMayStop = TRUE
  DestroyAfterStart = TRUE
SPECIFICATION FairThreadSpec
INVARIANTS
  NoMemberUseAfterDtor
PROPERTIES
  DtorReturns
CHECK_DEADLOCK FALSE
