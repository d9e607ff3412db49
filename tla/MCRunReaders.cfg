SPECIFICATION ReadersFairSpec
CONSTANTS
  Recorders <- MCRecorders
  SampleSystem = TRUE
  DiskMayFail = TRUE
INVARIANTS
  SummaryIsLast
  NoOrphanRecorder
  ReadAfterRunIsCurrent
  SummaryVouchesForSamples
PROPERTIES
  Terminates
CHECK_DEADLOCK FALSE
