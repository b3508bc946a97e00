CONSTANTS
  x = x
  y = y
  CRLF = crlf
  None = none
  c1 = c1
  c2 = c2
  Clients = {c1, c2}
  Keys = {k1, k2}
  Values <- MCValues
  Bytes = {x, y}
  KeyLen = 1
  kMaxValue = 2
  FirstKeyLen = 1
  FirstFree = 1
  MaxRequests <- MCMaxRequests
SPECIFICATION FairSpec
INVARIANTS
  EntryFits
  StoredWasSent
PROPERTIES
  GetsAreAnswered
CHECK_DEADLOCK FALSE
