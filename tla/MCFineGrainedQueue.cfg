CONSTANTS
  Producers = {p1, p2}
  Consumers = {c1, c2}
  Values = {a, b}
  Default = none
  Nobody = nobody
  MaxPush = 2
SPECIFICATION FairSpec
INVARIANTS
  NodesSafe
PROPERTIES
  Implements
  CallsReturn
