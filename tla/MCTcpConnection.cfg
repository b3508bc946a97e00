CONSTANTS
  a = a
  b = b
  c = c
  d = d
  x = x
  y = y
  Others = {t1}
  Messages <- TwoMessages
  Room = 2
  Inbound <- TwoBytes
  MaxSends = 3
SPECIFICATION FairSpec
INVARIANTS
  WritingWhileOutput
  StreamIntact
PROPERTIES
  NoWriteAfterClose
  EverythingArrives
CHECK_DEADLOCK FALSE
