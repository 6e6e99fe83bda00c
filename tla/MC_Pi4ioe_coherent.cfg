SPECIFICATION FairSpec
CONSTANTS
  NPins = 2
  Written <- InterruptRegisters
  CallbackWritten <- Outputs
  Values <- FirstBit
  Usage <- NoRisk
INVARIANTS
  TypeOK
  Coherent
PROPERTIES
  OnlySelectedBits
  ResetIsNoticed
