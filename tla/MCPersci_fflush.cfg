SPECIFICATION CallersSpec
CONSTANTS
  b = b
  Data <- MCData
  SOH = SOH
  ACK = ACK
  NAK = NAK
  ENQ = ENQ
  EOT = EOT
  CommandError = CommandError
  ReadyError = ReadyError
  HardDiskError = HardDiskError
  Zero = Zero
  NoByte = NoByte
  NoDisc = NoDisc
  NoFile = NoFile
  NDrive = 1
  NSector = 1
  SectorLen = 3
  BufSize = 6
  MaxFrame = 3
  HostFile <- MCHostFile
  StaticImage = {}
  Heap <- MCData
  Fault = {"fflush"}
INVARIANT ImageMatchesFile
