SPECIFICATION Spec
CONSTANTS
  AddrSpace = 8
  MemSize = 4
  PageSize = 2
  MaxCycle = 1
  MaxLen = 2
  b0 = b0
  b1 = b1
  Byte <- OneByte
  Ops <- WriteBytesOnly
  Faults <- NoFaults
  StaticInst = TRUE
INVARIANTS
  AddressTrackedAfterWriteBytes
