CONSTANTS
  p1 = p1
  Procs = {p1, p2, p3}
  First = p1
  Pages = {va1, va2}
  NoPage = none
  Values = {0, 1}
  Zero = 0
  Limit = 3
  MaxInDec = 2
SPECIFICATION Spec
INVARIANT AllocatesUnused
SYMMETRY MCSymmetry
CHECK_DEADLOCK FALSE
