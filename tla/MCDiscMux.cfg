CONSTANTS
  a = a
  b = b
  j = j
  k = k
  NDrive = 2
  NSector = 1
  SectorLen = 1
  BufSize = 4
  MaxFrame = 1
  PipeSize = 2
  WireSize = 2
  Discs = 1
  Data <- MCData
  SOH = SOH
  ACK = ACK
  NAK = NAK
  ENQ = ENQ
  EOT = EOT
  CommandError = CommandError
  ReadyError = ReadyError
  HardDiskError = HardDiskError
  Zero = Zero
  NoByte = NoByte
  NoDisc = NoDisc
  NoFile = NoFile
  HostFile <- MCHostFile
  StaticImage = {}
  Heap <- MCHeap
  Fault = {}
  HostPlace <- MCPlace
  HostBlock <- MCBlock
  Char <- MCData
  Key <- MCKey
  Printed <- MCPrinted
  BS = BS
  Blank = Blank
  MaxKeys = 2
  MaxPrints = 3
SPECIFICATION Spec
INVARIANTS
  ConsoleFifo
  KeysInOrder
  DiscUndisturbed
PROPERTIES
  ImplementsDevice
  RequestAnswered
CHECK_DEADLOCK FALSE
