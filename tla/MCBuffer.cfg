CONSTANTS
  a = a
  b = b
  Zero = zero
  Byte <- MCByte
  Strings <- MCStrings
  kCheapPrepend = 1
  kInitialSize = 2
  MaxSize = 6
SPECIFICATION BufferSpec
INVARIANTS
  MovesToTheFront
PROPERTIES
  Implements
  CallsAreExact
