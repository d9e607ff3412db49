SPECIFICATION MonitorSpec
CONSTANTS
  None = None
  Interval = 2
  Loads <- MCLoads
  MaxRestarts = 1
  MaxTime = 7
INVARIANTS
  EverythingCountedOnce
  TrafficNotOverstated
  RateTimesFit
CHECK_DEADLOCK FALSE
