SPECIFICATION PSpec
CONSTANTS
  COUNT_MAX = 4
  MEM_ALIGN = 2
  UINT = 32
  DATA_BASE = 2
  DATA_END = 8
  LOW = 4
  THREE = 8
  Sizes = {2, 4}
INVARIANT
  HeapSurvives
CHECK_DEADLOCK FALSE
