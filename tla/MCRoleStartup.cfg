SPECIFICATION FairSpec
CONSTANTS
  None = None
  CommandLines <- MCCommandLines
  MaxPayload = 3
  MaxSession = 7
  MaxDomain = 2
  RandomIds <- MCRandomIds
INVARIANTS
  RejectedLeavesNothing
  StreamIsWellPosed
PROPERTIES
  Ends
CHECK_DEADLOCK FALSE
