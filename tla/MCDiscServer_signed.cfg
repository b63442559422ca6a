CONSTANTS
  a = a
  x = x
  NDrive = 2
  NSector = 1
  SectorLen = 2
  BufSize = 5
  MaxFrame = 2
  PipeSize = 3
  WireSize = 2
  Discs = 1
  Data <- MCData
  SOH = SOH
  ACK = ACK
  NAK = NAK
  ENQ = ENQ
  EOT = EOT
  CommandError = CommandError
  ReadyError = ReadyError
  HardDiskError = HardDiskError
  Zero = Zero
  NoByte = NoByte
  NoDisc = NoDisc
  NoFile = NoFile
  HostFile <- MCHostFile
  StaticImage = {}
  Heap <- MCHeap
  Fault <- MCFault
  HostPlace <- MCPlace
  HostBlock <- MCBlock
  Char <- MCChar
  MinusOne = x
  CharSigned = TRUE
  Ending = {}
SPECIFICATION Spec
INVARIANTS
  NothingDropped
