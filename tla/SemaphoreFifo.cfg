CONSTANTS
  c1 = c1
  c2 = c2
  b1 = b1
  b2 = b2
  Cpus = {c1, c2}
  Threads = {b1, b2, r, w}
  Reaper = r
  NoThread = none
  MaxIrqs = 0
  Permits = 1
  Boot <- MCBoot
SPECIFICATION SemSpec
PROPERTY ImplementsPermitQueue
SYMMETRY MCSymmetry
