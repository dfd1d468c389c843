CONSTANTS
  MaxProcesses = 3
  MaxThreads = 3
  NumFrames = 25
  SectPages = 10
  Bss = 8
  StacksBase = 20
  StackPages = 2
  AreaPages = 5
  MemLimit = 40
  Amounts = {1, 3, 32}
SPECIFICATION Spec
CHECK_DEADLOCK FALSE
INVARIANTS
  NoFrameLeaks
  MemoryIsOfTheLiving
PROPERTIES
  OnlyWhenOutOfMemory
