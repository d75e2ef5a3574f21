\* A message of 5 chunks: within NALLATECH_MAX_MSG_WORDS (8), larger than fits.
CONSTANTS
  MaxMsgWords = 8
  MinMsgWords = 4
  RawChunkWords = 4
  FixErrors = TRUE
  NumWriteWindows = 3
  MsgChunks = {1, 5}
  MaxWrites = 3
SPECIFICATION FairSpec
PROPERTIES
  WriteReturns
CHECK_DEADLOCK TRUE
