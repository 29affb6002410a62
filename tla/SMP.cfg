CONSTANTS
  c1 = c1
  c2 = c2
  b1 = b1
  b2 = b2
  Cpus = {c1, c2}
  Threads = {b1, b2, r}
  Reaper = r
  NoThread = none
  MaxIrqs = 2
  Permits = 1
  Boot <- MCBoot
SPECIFICATION SemSpec
INVARIANTS
  TypeOK
  OneCpuPerThread
  FlagProtects
  QueuedOnce
  TimerOnRunner
  NoFreedThread
  StopNeverReturns
  ThreadsKept
  LinkedOnce
  LockHolderRuns
PROPERTIES
  ImplementsPermitQueue
  ResumesSaved
SYMMETRY MCSymmetry
