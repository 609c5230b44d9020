SPECIFICATION Spec
CONSTANTS
  SIZE = 6
  UINT = 256
  Alphabet = {65, 97, 49}
  Words <- MCWords
  Shown = {0, 1, 10, 29, 105, 127, 128, 255}
  MEM_ALIGN = 4
  LONGEST = 5
  Moments <- MCMoments
  PER_MILLI = 2
  MILLIS = 3
  TICKS = 40
INVARIANTS
  StringsKept
  NumbersReadBack
  TimeKept
CHECK_DEADLOCK FALSE
