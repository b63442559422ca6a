CONSTANTS
  t = t
  LF = LF
  CR = CR
  XON = XON
  XOFF = XOFF
  ACK = ACK
  Mode <- AllModes
  Signals = TRUE
  Option <- MCOption
  Typed <- MCTyped
  Sent <- MCSent
  Char <- MCChar
  PipeSize = 2
  MaxChars = 4
  StdoutWhole = TRUE
SPECIFICATION Spec
INVARIANTS
  LeftAsFound
  RelaysInOrder
  XoffHolds
PROPERTY BridgeEnds
CHECK_DEADLOCK FALSE
