SPECIFICATION Spec
CONSTANTS
  Firmwares <- OneProgram
  Value <- Bits
  MaxFailing = 0
INVARIANTS
  WrittenFits
