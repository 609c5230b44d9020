SPECIFICATION FairSpec
CONSTANTS
  MAX = 5
  NULL = NULL
  kernel = kernel
  idle = idle
  a = a
  b = b
  c = c
  d = d
  Kernel = kernel
  Idle = idle
  Addr = {kernel, idle, a, b, c, d}
INVARIANTS
  NoDangling
  ContextsKept
  NeverRecurses
PROPERTIES
  ImplementsMultitasking
  KernelRuns
  EveryTurn
  EndedReaped
CHECK_DEADLOCK FALSE
