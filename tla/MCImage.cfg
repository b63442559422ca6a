CONSTANTS
  Byte = 256
  WordSize = 2
  BigEndian = FALSE
  DoubleArith = FALSE
  Align = 2
  BBlk = 2
  Origin = 1200
  LatestAt = 16
  ConstantsAt = 18
  CodesAt = 58
  CmdAt = 178
  S0 = 280
  R0 = 320
  User = 320
  First = 384
  Limit = 400
  DictionaryAt = 420
  Pad = 400
  Size = 2300
  BootBlock = 77
  Spelling <- MCSpelling
  Answer <- MCAnswer
  Discs <- MCDiscs
SPECIFICATION ImageSpec
INVARIANTS RunsAsMeant BlocksInOrder HeadersChain OnlyRunsWords LinksInPlace ImageTypeOK
PROPERTY Halts
CHECK_DEADLOCK FALSE
