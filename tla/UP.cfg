CONSTANTS
  c1 = c1
  c2 = c2
  b1 = b1
  b2 = b2
  Cpus = {c1}
  Threads = {b1, r, w}
  Reaper = r
  NoThread = none
  MaxIrqs = 3
  Permits = 1
  Boot <- MCBoot
SPECIFICATION FairSemSpec
INVARIANT ZombiesKept
PROPERTIES
  WaitersServed
  ReadyRuns
  ZombiesReaped
