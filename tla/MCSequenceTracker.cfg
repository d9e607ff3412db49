SPECIFICATION Spec
CONSTANTS
  None = None
  Seqs <- MCSeqs
  ExpectedStarts <- MCStarts
  MaxEvents = 5
INVARIANTS
  TypeOK
  CountersMatchEvents
  LossReconciles
PROPERTIES
  LossMovesByStep
  ImplementsAudit
CHECK_DEADLOCK FALSE
