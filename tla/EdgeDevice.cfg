\* Two words each way between the FPGAs; the fewest windows that the ring code takes.
CONSTANTS
  MaxMsgWords = 4
  MinMsgWords = 2
  RawChunkWords = 2
  FixErrors = TRUE
  QueueDepth = 2
  MaxWords = 2
  Variants = {"v2", "debugger", "null"}
  NumWriteWindows = 2
  NumReadWindows = 3
SPECIFICATION FairSpec
INVARIANTS
  WorkspaceIsLive
  ClosedOnce
  WordsInOrder
PROPERTIES
  PairTalks
  DestructorReturns
CHECK_DEADLOCK FALSE
