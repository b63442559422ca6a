CONSTANTS
  Byte = 4
  WordSize = 2
  BigEndian = FALSE
SPECIFICATION Spec
INVARIANTS DivisionKept Divides Carries
CHECK_DEADLOCK FALSE
