CONSTANTS
  TotalSize = 11
  StartOffset = 1
  ChunkSize = 3
  MaxDepth = 3
  MaxInflight = 4
  MinDepth = 3
  MinRead = 0
  CancelFaults = FALSE
SPECIFICATION FairSpec
INVARIANTS
  Contiguous
  OkMeansComplete
  NothingLostOrDoubled
PROPERTIES
  ImplementsPrefixCopy
  Terminates
CHECK_DEADLOCK FALSE
