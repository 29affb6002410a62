CONSTANTS
  SectorSize = 2
  BlockSize = 4
  WordBits = 2
  RootInode = 3
  Garbage = 1
  Trees <- MCTrees
  Listings <- MCListings
  Chunks <- MCChunks
  Offsets = {0, 3, 9, 20}
  Spares = {4, 100}
  MaxCalls = 2
  MaxOffs = 1
SPECIFICATION Spec
INVARIANTS
  BlocksMarked
  SuperblockKept
  TreeFound
 
CHECK_DEADLOCK FALSE
