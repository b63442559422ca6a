CONSTANTS
  Byte = 4
  WordSize = 2
  BigEndian = FALSE
SPECIFICATION Spec
INVARIANT Multiplies
CHECK_DEADLOCK FALSE
