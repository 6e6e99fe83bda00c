SPECIFICATION Spec
CONSTANTS
  BufferSize = 4
  Overlong <- NonBlockingOnly
  ByteBefore = "text"
INVARIANTS
  WritesStayInside
