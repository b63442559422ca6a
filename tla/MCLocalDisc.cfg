CONSTANTS
  a = a
  b = b
  NDrive = 2
  NSector = 1
  SectorLen = 2
  BufSize = 5
  MaxFrame = 2
  Data <- MCData
  SOH = SOH
  ACK = ACK
  NAK = NAK
  ENQ = ENQ
  EOT = EOT
  CommandError = CommandError
  ReadyError = ReadyError
  HardDiskError = HardDiskError
  Zero = Zero
  NoByte = NoByte
  NoDisc = NoDisc
  NoFile = NoFile
  HostFile <- MCHostFile
  StaticImage <- MCStaticImage
  Heap <- MCHeap
  Fault <- MCFault
  HostPlace <- MCPlace
  HostBlock <- MCBlock
  Args = {0, 1, 2}
  Nothing = Nothing
SPECIFICATION Spec
INVARIANTS
  InStep
  KeepsRunning
PROPERTIES
  ImplementsDevice
  RequestAnswered
CHECK_DEADLOCK FALSE
