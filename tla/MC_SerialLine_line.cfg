SPECIFICATION Spec
CONSTANTS
  BufferSize = 5
  Overlong <- BlockingOnly
  ByteBefore = "text"
INVARIANTS
  TypeOK
  WritesStayInside
  ReturnsEditedLine
