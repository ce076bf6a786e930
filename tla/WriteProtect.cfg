\* A fetch lets later stores to a protected page through.
CONSTANTS
  VPSize = 3
  RPSize = 2
  Words = {"a", "b"}
  NSlots = 2
  IoRegionPage = 1
  FirstBlock = 1
  DisplayPages = 1
  Accessed <- AllButPage0
  FlagsSet <- AllFlags
SPECIFICATION Spec
CHECK_DEADLOCK FALSE
PROPERTIES
  ProtectedPagesKept
