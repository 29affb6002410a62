CONSTANTS
  Procs = {p1, p2}
  FirstProc = p1
  Inodes = {1, 4, 7}
  FileSize = 1
  MaxNum = 2
  Std = 1
  BucketCount = 3
  MaxObjects = 12
  MaxOffset = 2
  MaxCalls = 5
  Null = null
SPECIFICATION FairSpec

  
  
PROPERTIES
  OffsetsPrivate
  OpenReturns
CHECK_DEADLOCK FALSE
