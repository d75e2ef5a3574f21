\* Three windows of 8 words (6 of data), five messages of 1, 2 or 4 chunks.
CONSTANTS
  MaxMsgWords = 8
  MinMsgWords = 4
  RawChunkWords = 4
  FixErrors = TRUE
  NumWriteWindows = 3
  MsgChunks = {1, 2, 4}
  MaxWrites = 5
SPECIFICATION FairSpec
INVARIANTS
  Ownership
  RingInv
  CheckBitsFit
PROPERTIES
  BufferStable
  InOrderDelivery
  WriteReturns
  WrittenIsDelivered
CHECK_DEADLOCK TRUE
