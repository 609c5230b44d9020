SPECIFICATION Spec
CONSTANTS
  MAX = 4
  PER_SECTOR = 2
  DEPTH = 3
  WIDTH = 2
  a = a
  b = b
  r = r
  NUL = nul
  Name <- MCName
  LABEL <- MCLabel
  Stack <- MCStack
CONSTRAINT Explored
INVARIANT MissingParentIsEmpty
CHECK_DEADLOCK FALSE
