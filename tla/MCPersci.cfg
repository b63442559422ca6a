SPECIFICATION CallersSpec
CONSTANTS
  b = b
  Data <- MCData
  SOH = SOH
  ACK = ACK
  NAK = NAK
  ENQ = ENQ
  EOT = EOT
  CommandError = CommandError
  ReadyError = ReadyError
  HardDiskError = HardDiskError
  Zero = Zero
  NoByte = NoByte
  NoDisc = NoDisc
  NoFile = NoFile
  NDrive = 2
  NSector = 2
  SectorLen = 1
  BufSize = 4
  MaxFrame = 4
  HostFile <- MCHostFile
  StaticImage <- MCStaticImage
  Heap <- MCData
  Fault = {"fseek", "fwrite"}
INVARIANT TypeOK
INVARIANT BufferFollowsState
INVARIANT ImageMatchesFile
PROPERTY StopsOnlyForStrays
PROPERTY WriteStaysInSector
CHECK_DEADLOCK FALSE
