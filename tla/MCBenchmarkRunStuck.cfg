SPECIFICATION Spec
CONSTANTS
  Recorders <- MCRecorders
  SampleSystem = TRUE
  DiskMayFail = FALSE
INVARIANTS
  RunDirectoryWritten
CHECK_DEADLOCK FALSE
