SPECIFICATION FairSpec
CONSTANTS
  AddrSpace = 8
  MemSize = 4
  PageSize = 2
  MaxCycle = 2
  MaxLen = 3
  b0 = b0
  b1 = b1
  Byte <- OneByte
  Ops <- AllOps
  Faults <- AllFaults
  StaticInst = FALSE
INVARIANTS
  TypeOK
  NeverAddressesBusyDevice
  AddressTracked
PROPERTIES
  CallsReturn
