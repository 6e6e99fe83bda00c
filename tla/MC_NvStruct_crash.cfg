SPECIFICATION Spec
CONSTANTS
  Firmwares <- TwoPrograms
  Value <- Bits
  MaxFailing = 3
INVARIANTS
  TypeOK
PROPERTIES
  CrashAtomic
