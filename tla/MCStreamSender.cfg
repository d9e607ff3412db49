SPECIFICATION FairSpec
CONSTANTS
  None = None
  SessionId = 7
  Warmup = 6
  Duration = 3
  Period = 2
  DiscoveryTimeout = 1
  PayloadSize = 1
  LastStart = 2
  MaxTime = 13
INVARIANTS
  NumberedWithoutGap
  RowsAreMeasuredTail
  RateNotExceeded
  ExitJustified
PROPERTIES
  Terminates
CHECK_DEADLOCK FALSE
