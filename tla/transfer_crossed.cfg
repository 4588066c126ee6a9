SPECIFICATION Spec
CONSTANTS
  Clients = {c1, c2}
  Keys = {k1}
  KeyAssignments <- OneKey
  Concurrencies = {TRUE}
  MaxPolls = 2
  FaultSets <- NoFaults
  None = None
INVARIANTS
  ReceivesOwnFile
CHECK_DEADLOCK FALSE
