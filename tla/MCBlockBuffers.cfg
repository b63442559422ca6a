CONSTANTS
  zeros = zeros
  v = v
  NBuf = 4
  NBlock = 4
  Flushed = 99
  BScr = 1
  Val = {zeros, v}
  Erased = zeros
  RWFails = {"write"}
  First = 1
  Words <- MCWords
  CopyOver = FALSE
SPECIFICATION Spec
INVARIANTS
  TypeOK
  Coherent
PROPERTIES
  KeepsStores
  ImplementsMemory
  FlushLeavesOne
