SPECIFICATION ExchangeSpec
CONSTANTS
  Clients = {c1, c2}
  ModelSize = 3
  SendBuffer = 1
INVARIANTS
  NoStalledSender
CHECK_DEADLOCK FALSE
