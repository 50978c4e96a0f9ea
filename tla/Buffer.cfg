SPECIFICATION Spec
CONSTANTS
  Byte <- MCByte
  Zero = 0
  Space = 32
  kCheapPrepend = 1
  initialSize = 2
  sizeofExtrabuf = 2
  Messages <- MCMessages
  Lengths <- MCLengths
  MaxReadable = 4
  MaxMessage = 3
INVARIANTS TypeOK SizeBounded
PROPERTIES ImplementsByteQueue
