SPECIFICATION EraseSpec
CONSTANTS
  AddrSpace = 8
  MemSize = 4
  PageSize = 2
  MaxCycle = 1
  MaxLen = 2
  b0 = b0
  blank = blank
  Byte <- TwoBytes
  Ops <- StoreOps
  Faults <- WholeFrameFaults
  StaticInst = TRUE
  Methods <- EraseMethods
  BufferSize = 4
  Blank = blank
INVARIANTS
  EraseTypeOK
  ErasedIsBlank
PROPERTIES
  ImplementsStore
