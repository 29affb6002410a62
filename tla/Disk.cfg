CONSTANTS
  Threads = {t1, t2}
  Nodes = {n1}
  InodeSector <- MCInodeSector
  DataSectors = {"data"}
  Values = {0, 1}
  FileLength = 9
  Nobody = none
  MaxCalls = 3
SPECIFICATION Spec
INVARIANT LenIsFileLength
CHECK_DEADLOCK FALSE
