SPECIFICATION Spec
CONSTANTS
  DISK = 13
  UINT = 32
  BLK_SECTORS = 1
  PER_SECTOR = 4
  FILE_SECTORS = 2
  FPER_SECTOR = 2
  Formats = {4, 10, 13}
  NUL = nul
  WIDTH = 3
  v = v
  w = w
  LABEL <- MCLabel
  Relabel <- MCRelabel
INVARIANT
  VolumeSound
PROPERTIES
  BootSectorKept
CHECK_DEADLOCK FALSE
