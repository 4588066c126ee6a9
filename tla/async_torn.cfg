SPECIFICATION Spec
CONSTANTS
  Clients = {c1, c2}
  NumRounds = 2
  Modes = {FALSE}
  Samples = {1}
  FaultSets <- NoFaults
  None = None
INVARIANTS
  DownloadsAreWhole
