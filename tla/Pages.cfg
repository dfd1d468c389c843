CONSTANTS
  NumPages = 6
  BootPages = 1
  MemPages = 8
  Requests <- AllRequests
SPECIFICATION PagesSpec
CHECK_DEADLOCK FALSE
INVARIANTS
  NoneFreeBelowFirst
  RegionsAreDisjoint
  BytesMatchRegions
PROPERTIES
  AbstractSpec
