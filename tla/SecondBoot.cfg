\* boot is called again with stopThread still set.
CONSTANTS
  Devices = {"disk"}
  MaxDisable = 2
  MaxWord = 3
  Boots = 2
  MayFail = FALSE
SPECIFICATION Spec
CHECK_DEADLOCK FALSE
PROPERTIES
  TicksCome
