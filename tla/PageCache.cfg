\* Programs that protect no page and keep off page 0: the cache is invisible.
CONSTANTS
  VPSize = 3
  RPSize = 2
  Words = {"a", "b"}
  NSlots = 1
  IoRegionPage = 1
  FirstBlock = 1
  DisplayPages = 1
  Accessed <- AllButPage0
  FlagsSet <- NotProtected
SPECIFICATION Spec
INVARIANTS
  TypeOK
  CacheCoherent
PROPERTIES
  ImplementsVirtualMemory
