CONSTANTS
  None = None
  Readers = {r1, r2}
  Console = con
  Size = 3
  HwDepth = 2
  MaxBytes = 6
SPECIFICATION FairSpec
CHECK_DEADLOCK FALSE
INVARIANTS
  EachByteOnce
  RequestIsInOnePlace
PROPERTIES
  BytesEndUp
  AbstractSpec
