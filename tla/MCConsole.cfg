SPECIFICATION Spec
CONSTANTS
  a = a
  Char = {a}
  SPACE = space
  NUL = nul
  SIZE = 5
INVARIANTS
  CommandIsTyped
  BoundsNeedNoLuck
PROPERTIES
  OneRunPerPress
  EnterAnswered
  ReadyAgain
CHECK_DEADLOCK FALSE
