SPECIFICATION Spec
CONSTANTS
  WriteTime = 1
  Window = 3
  None = None
PROPERTY EndsOff
