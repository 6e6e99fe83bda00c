SPECIFICATION Spec
CONSTANTS
  PioDepth = 4
  SpiDepth = 8
  AdcSpi = "spi0"
  DacSpi = "spi1"
  AdsUsage <- NoRisk
  Dac121Data <- MoreThanTheDacHas
  Dac081Data <- Bytes
  Fans = {f1, f2}
  Slices = {s1, s2}
  MaxFanSpeed = 4
  LevelSize = 8
  Speeds = {1, 3, 5}
  MinSpeeds = {0, 2}
  Curves <- RisingCurve
  Inputs <- Measured
  NaN = NaN
  Asserts = TRUE
  Programs <- Together
INVARIANTS
  PowerDownArrives
CHECK_DEADLOCK FALSE
