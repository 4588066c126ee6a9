SPECIFICATION FairSpec
CONSTANTS
  Clients = {c1, c2}
  Keys = {k1, k2}
  KeyAssignments <- AnyKeys
  Concurrencies = {TRUE, FALSE}
  MaxPolls = 1
  FaultSets <- AllFaults
  None = None
INVARIANTS
  TypeOK
  DistinctKeysKeepFilesApart
  OneByOneKeepsFilesApart
PROPERTIES
  FetchesEnd
  ImplementsModelFetch
CHECK_DEADLOCK FALSE
