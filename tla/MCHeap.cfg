SPECIFICATION Spec
CONSTANTS
  COUNT_MAX = 5
  MEM_ALIGN = 2
  UINT = 32
  DATA_BASE = 2
  DATA_END = 14
  Sizes = {1, 2, 3, 6}
INVARIANTS
  NoOverlap
  NothingLost
  Accounting
PROPERTY
  AllocatorPromise
CHECK_DEADLOCK FALSE
