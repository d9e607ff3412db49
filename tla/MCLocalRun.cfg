SPECIFICATION LocalFairSpec
CONSTANTS
  MaxSignals <- MCMaxSignals
INVARIANTS
  NoReceiverLeft
  ResultsMeanSuccess
PROPERTIES
  Ends
CHECK_DEADLOCK FALSE
