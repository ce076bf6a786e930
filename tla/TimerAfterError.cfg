\* An opcode may end in ErrorError, which leaves stopThread alone.
CONSTANTS
  Devices = {"disk", "network"}
  MaxDisable = 2
  MaxWord = 3
  Boots = 1
  MayFail = TRUE
SPECIFICATION Spec
CHECK_DEADLOCK FALSE
PROPERTIES
  TimerStops
