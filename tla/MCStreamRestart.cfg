SPECIFICATION RestartSpec
CONSTANTS
  None = None
  SenderSession = 7
  SecondSessions <- MCSessions
  SenderWarmup = 1
  SenderDuration = 2
  SenderTimeout = 6
  SenderPayload = 1
  ReceiverSession = 0
  ReceiverWarmup = 1
  ReceiverDuration = 2
  ReceiverTimeout = 6
  ReceiverPayload = 1
  Period = 1
  Depth = 2
  Impairments <- MCNone
  LastStart = 6
  MaxTime = 6
  MaxHeard = 5
INVARIANTS
  SessionsKeptApart
  DamageIsBounded
CHECK_DEADLOCK FALSE
