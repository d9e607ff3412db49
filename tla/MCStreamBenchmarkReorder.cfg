SPECIFICATION Spec
CONSTANTS
  None = None
  SenderSession = 7
  SenderWarmup = 2
  SenderDuration = 2
  SenderTimeout = 1
  SenderPayload = 1
  ReceiverSession = 0
  ReceiverWarmup = 1
  ReceiverDuration = 1
  ReceiverTimeout = 2
  ReceiverPayload = 1
  Period = 1
  Depth = 2
  Impairments <- MCReorder
  LastStart = 0
  MaxTime = 5
  MaxHeard = 4
INVARIANTS
  LossIsNeverHeard
CHECK_DEADLOCK FALSE
