\* A cleared cache entry passes for page 0's.
CONSTANTS
  VPSize = 3
  RPSize = 2
  Words = {"a", "b"}
  NSlots = 2
  IoRegionPage = 1
  FirstBlock = 1
  DisplayPages = 1
  Accessed <- AllPages
  FlagsSet <- AllFlags
SPECIFICATION Spec
CHECK_DEADLOCK FALSE
INVARIANTS
  NeverNullPointer
