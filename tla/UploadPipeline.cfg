CONSTANTS
  TotalSize = 9
  ChunkSize = 2
  MaxDepth = 3
  MaxInflight = 4
  MinDepth = 3
  LocalSizes = {3, 9, 11}
SPECIFICATION UploadFairSpec
INVARIANTS
  OkMeansStored
PROPERTY Terminates
CHECK_DEADLOCK FALSE
