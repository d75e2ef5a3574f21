\* Three windows in the ring and the NULL window; transfers of 2 or 4 words; two
\* messages of 0 or 3 payload chunks, or of 1 or 2 to the pseudo-DMA service.
CONSTANTS
  MaxMsgWords = 4
  MinMsgWords = 2
  RawChunkWords = 2
  FixErrors = TRUE
  NumReadWindows = 4
  IOCountLimit = 1
  Payloads = {0, 3}
  DMAPayloads = {1, 2}
  MaxMessages = 2
  MaxFill = 1
SPECIFICATION FairSpec
INVARIANTS
  WindowOwnership
PROPERTIES
  MessagesInOrder
  MessagesArrive
  TryReadReturns
CHECK_DEADLOCK TRUE
