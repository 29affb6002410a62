CONSTANTS
  MaxPid = 2
  Codes = {0, 7}
  NoCode = none
  Madt <- MCMadt
  Beyond <- MCBeyond
SPECIFICATION MCSpec
INVARIANTS
  TouchesLive
  
  ParentStalls
  SleepersKept
  StacksApart
  UsedAfterInit
PROPERTIES
  
  BootFinishes
CHECK_DEADLOCK FALSE
