SPECIFICATION Spec
CONSTANTS
  Clients = {c1, c2}
  NumRounds = 3
  WithEdc = TRUE
  Samples = {1}
  Faults <- DataspaceFaults
  None = None
PROPERTIES
  AveragesFetchedFiles
  RunsOut
CHECK_DEADLOCK FALSE
