\* Raw chunks of 3 data words; buffers of 2 or 4 chunks; 2 messages, two corrupted chunks.
CONSTANTS
  MaxMsgWords = 16
  MinMsgWords = 8
  RawChunkWords = 4
  FixErrors = TRUE
  H2FPayloads = {0, 3}
  F2HPayloads = {1}
  ReadSizes = {8}
  StaleSums = {TRUE, FALSE}
  SpinCycles = 1
  MaxH2F = 2
  MaxF2H = 0
  MaxErrors = 2
SPECIFICATION Spec
INVARIANTS
  TypeOK
  AckMeansTaken
  CountersMeet
PROPERTIES
  H2FInOrder
CHECK_DEADLOCK TRUE
