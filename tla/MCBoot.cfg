SPECIFICATION Spec
CONSTANTS
  Thread = {kernel, program}
  KERNEL = kernel
  NONE = none
  RTC_INIT = rtc_init
  WIDTH = 2
  HEIGHT = 2
  DRIFT = 1
  Slots = 5
  Registers <- MCRegisters
  STATUS_C = "status C"
  HALF = 2
  QUEUE = 2
INVARIANTS
  CursorOnScreen
  KeyboardAnswers
  ReadsOwnRegister
CHECK_DEADLOCK FALSE
