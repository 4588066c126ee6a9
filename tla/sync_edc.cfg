SPECIFICATION FairSpec
CONSTANTS
  Clients = {c1, c2}
  NumRounds = 3
  WithEdc = TRUE
  Samples = {0, 1}
  Faults <- TransferFaults
  None = None
INVARIANTS
  TypeOK
PROPERTIES
  AveragesCurrentWork
  ImplementsBulkRounds
  TrainingCompletes
CHECK_DEADLOCK FALSE
