CONSTANTS
  Sizes = {1, 2, 3, 5}
  InitLen = 3
  GrowMin = 4
  Fallback = 2
  MaxLimit = 9
SPECIFICATION Spec
CHECK_DEADLOCK FALSE
INVARIANTS
  HeapIsTiled
  FreeListIsRight
PROPERTIES
  AbstractSpec
