SPECIFICATION FairSpec
CONSTANTS
  NumClients = 2
  MaxPosts = 3
  MaxOverlap = 2
  MaxLooks = 2
  Setups <- SlowOrFaulty
  DataSets <- Splits
  None = None
INVARIANTS
  TypeOK
  SplitsEverything
  PublishedIsListed
  NoDuplicatesOneByOne
  DiscoveryFindsEveryone
  EnrolledUnlessFailed
PROPERTIES
  StartUpEnds
CHECK_DEADLOCK TRUE
