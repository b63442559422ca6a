SPECIFICATION ArraySpec
CONSTANTS
  x = x
  y = y
  Char <- MCChar
  Nul = x
  PipeSize = 3
  MaxGiven = 6
INVARIANT InArray
INVARIANT Fifo
PROPERTY ImplementsQueue
CHECK_DEADLOCK FALSE
