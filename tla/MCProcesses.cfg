SPECIFICATION ProcFairSpec
CONSTANTS
  MAX = 4
  NULL = NULL
  kernel = kernel
  idle = idle
  a = a
  b = b
  p = p
  q = q
  r = r
  Kernel = kernel
  Idle = idle
  Addr = {kernel, idle, a, b}
  PMAX = 2
  Proc = {p, q, r}
  THREAD_IDS = 4
  PROC_IDS = 3
INVARIANTS
  PointsToOwn
PROPERTIES
  FreedWhenEnded
  ImplementsScheduler
  KilledCleaned
CHECK_DEADLOCK FALSE
