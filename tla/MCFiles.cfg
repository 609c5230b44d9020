SPECIFICATION FSpec
CONSTANTS
  COUNT_MAX = 5
  PER_SECTOR = 2
  UINT = 16
  DATA_START = 3
  DISK_END = 8
  FILE_SECTORS = 1
  Sizes = {1, 2}
  FMAX = 2
  x = x
  y = y
  NUL = nul
  WIDTH = 2
  Name <- MCName
  Stack <- MCStack
  u = u
  v = v
  Value = {u, v}
  JUNK = junk
  TORN = torn
SYMMETRY Symmetry
CONSTRAINT Explored
INVARIANTS
  OwnBlock
  ReadsBack
  NoLeak
CHECK_DEADLOCK FALSE
