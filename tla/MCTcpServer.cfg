CONSTANTS
  Main = main
  Listen = listen
  sub1 = sub1
  sub2 = sub2
  Subs <- TwoSubs
  SubNums = {0, 2}
  Conns = {c1, c2}
  None = none
SPECIFICATION FairSpec
INVARIANTS
  CallbacksPaired
  NoDanglingEvent
  AssertionsHold
PROPERTIES
  NoCallbackAfterDtor
  ClosedIsDeleted
CHECK_DEADLOCK FALSE
