SPECIFICATION FairSpec
CONSTANTS
  None = None
  SessionId = 0
  Warmup = 1
  Duration = 1
  DiscoveryTimeout = 1
  PayloadSize = 2
  ClockSync = "offset"
  ClockOffset = 1
  MaxClockOffset = 1
  WallSkew = 1
  Packets <- MCPackets
  MaxRows = 4
  LastStart = 2
  MaxTime = 5
INVARIANTS
  RowsInWindow
  ExitJustified
  LatenciesMatchRows
  SummaryMatchesRows
PROPERTIES
  AnchorKept
  Terminates
CHECK_DEADLOCK FALSE
