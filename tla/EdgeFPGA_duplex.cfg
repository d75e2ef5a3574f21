\* Both directions, one corrupted chunk; messages of 5 words cross replies of 4 or 8.
CONSTANTS
  MaxMsgWords = 8
  MinMsgWords = 4
  RawChunkWords = 4
  FixErrors = TRUE
  H2FPayloads = {2}
  F2HPayloads = {4}
  ReadSizes = {4,8}
  StaleSums = {TRUE}
  SpinCycles = 1
  MaxH2F = 1
  MaxF2H = 2
  MaxErrors = 1
SPECIFICATION FairSpec
INVARIANTS
  ReplyIsWellFormed
PROPERTIES
  F2HInOrder
  TransactionEnds
  H2FArrives
CHECK_DEADLOCK TRUE
