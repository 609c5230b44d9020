SPECIFICATION Spec
CONSTANTS
  COUNT_MAX = 6
  PER_SECTOR = 3
  UINT = 32
  DATA_START = 2
  DISK_END = 10
  FILE_SECTORS = 1
  Sizes = {1, 2, 3}
CONSTRAINT Explored
INVARIANTS
  NoOverlap
  NothingLost
PROPERTIES
  AllocatorPromise
CHECK_DEADLOCK FALSE
