\* A message without payload to the pseudo-DMA service.
CONSTANTS
  MaxMsgWords = 8
  MinMsgWords = 2
  RawChunkWords = 2
  FixErrors = TRUE
  NumReadWindows = 3
  IOCountLimit = 1
  Payloads = {1}
  DMAPayloads = {0}
  MaxMessages = 4
  MaxFill = 0
SPECIFICATION Spec
INVARIANTS
  WindowOwnership
CHECK_DEADLOCK TRUE
