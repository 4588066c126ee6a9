SPECIFICATION Spec
CONSTANTS
  Clients = {c1, c2}
  NumRounds = 2
  WithEdc = TRUE
  Samples = {1}
  Faults <- UploadFaults
  None = None
INVARIANTS
  PublishedModelIsCurrent
CHECK_DEADLOCK FALSE
