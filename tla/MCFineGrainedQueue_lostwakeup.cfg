CONSTANTS
  Producers = {p1}
  Consumers = {c1}
  Values = {a}
  Default = none
  Nobody = nobody
  MaxPush = 2
SPECIFICATION FairSpec
PROPERTIES
  WaitAndPopReturns
