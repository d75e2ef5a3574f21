\* Bursts of two beats, two credits; the debugging method changes the credits.
\* The client may stop.
CONSTANTS
  MaxReads = 2
  BurstLength = 2
  NumAddrs = 2
  SyncDepth = 2
  MergeDepth = 1
  CtrlDepth = 1
  MaxReadSettings = {0, 2}
  MaxRequests = 3
SPECIFICATION FairSpec
INVARIANTS
  TypeOK
  ReadPathNeverBlocks
  DataFollowsRequest
  ReadsSeeEarlierWrites
PROPERTIES
  ReadsComplete
CHECK_DEADLOCK FALSE
