CONSTANTS
  MaxPid = 2
  Codes = {0, 7}
  NoCode = none
SPECIFICATION SpecWithDisown
INVARIANT TouchesLive
CHECK_DEADLOCK FALSE
