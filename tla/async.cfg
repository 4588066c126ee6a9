SPECIFICATION FairSpec
CONSTANTS
  Clients = {c1, c2}
  NumRounds = 2
  Modes = {TRUE, FALSE}
  Samples = {0, 1}
  FaultSets <- AllFaults
  None = None
INVARIANTS
  TypeOK
  StalenessCoversBase
  AppliesOwnWork
  UpdatesCountOnce
  CompletionDropsNothing
PROPERTIES
  RunsOut
  EveryPostIsHandled
  TrainingCompletes
  ImplementsSerialUpdates
CHECK_DEADLOCK FALSE
