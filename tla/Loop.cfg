\* Two devices, the timer, the watchdog; two boots, no ErrorError.
CONSTANTS
  Devices = {"disk", "network"}
  MaxDisable = 2
  MaxWord = 3
  Boots = 2
  MayFail = FALSE
SPECIFICATION Spec
CHECK_DEADLOCK FALSE
INVARIANTS
  TypeOK
  NoLostInterrupt
PROPERTIES
  InterruptServed
  StopHonoured
