CONSTANTS
  Words = 22
  Requests = {1, 12, 20}
  Look = 2
  Junk = 4
SPECIFICATION MCSpec
INVARIANTS
  BlocksConsistent
  ContentsKept
  SearchesFind
