SPECIFICATION FairSpec
CONSTANTS
  Clients = {c1, c2}
  NumRounds = 3
  WithEdc = FALSE
  Samples = {1}
  Faults <- LateRounds
  None = None
INVARIANTS
  RefusalMeansLostRound
  ResetLosesNoUpdate
PROPERTIES
  WaitsForAll
  ModelStableWhileTraining
  TrainingEnds
