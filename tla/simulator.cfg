SPECIFICATION FairSpec
CONSTANTS
  Clients = {c1, c2}
  ModelSize = 2
  SendBuffer = 1
  NumRounds = 3
  Setups <- OneOrAll
INVARIANTS
  TypeOK
  CommandsAligned
  ResponsesInOrder
  UploadFollowsDownload
  FinishedMeansUploaded
  LoneSenderNeverStalls
PROPERTIES
  BothEnd
  ImplementsRoundService
CHECK_DEADLOCK TRUE
