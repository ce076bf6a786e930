\* Three processes, one of them permanent, use a monitor with one condition, to
\* which an interrupt level and the page faults also belong; a pool of processes.
CONSTANTS
  NPsb = 3
  NPri = 2
  Monitors = {"m"}
  Conditions = {"c"}
  PlainQueues = {"pageFaults", "pool"}
  Ready = "ready"
  Permanent = {1}
  StateVectors = {"s1", "s2"}
  Abortable = {"c"}
  MonitorOf <- OneMonitor
  Enters <- EnterAll
  InterruptConditions <- LevelOnC
  FaultConditions <- PageFaults
  WaitTicks = {0, 1}
  Ticks = 2
  SettablePriorities = {1}
  InitPriority <- Pri_100
  InitState <- OneEach
SPECIFICATION Spec
INVARIANTS
  QueuesSound
  PendingConsistent
  MutualExclusion
  NoStrandedEntry
  NoWaiterBesideWakeup
  HighestPriorityRuns
  PreemptionPossible
  StateVectorsConserved
PROPERTIES
  WakeupOnlyConsumedByWait
