\* Timed waits of up to a whole turn of PTC, which has 3 values (0 is skipped).
CONSTANTS
  NPsb = 3
  NPri = 2
  Monitors = {"m"}
  Conditions = {"c"}
  PlainQueues = {}
  Ready = "ready"
  Permanent = {}
  StateVectors = {"s1", "s2"}
  Abortable = {"c"}
  MonitorOf <- OneMonitor
  Enters <- EnterAll
  InterruptConditions <- LevelOnC
  FaultConditions <- NoFaults
  WaitTicks = {0, 1, 3}
  Ticks = 4
  SettablePriorities = {}
  InitPriority <- Pri_100
  InitState <- OneEach
SPECIFICATION TSpec
INVARIANTS
  NoWaitTooLong
PROPERTIES
  NoWaitTooShort
  ImplementsMesaMonitors
