SPECIFICATION Spec
CONSTANTS
  NPins = 2
  Written <- InterruptRegisters
  CallbackWritten <- InterruptRegisters
  Values <- FirstBit
  Usage <- NoRisk
PROPERTIES
  OnlySelectedBits
