SPECIFICATION Spec
CONSTANTS
  Clients = {c1, c2}
  NumRounds = 2
  WithEdc = FALSE
  Samples = {1}
  Faults <- LateRounds
  None = None
INVARIANTS
  OnlyThisRoundsUpdates
