--------------------------- MODULE MC_Peripherals ---------------------------
(***************************************************************************)
(* An instance of Peripherals for TLC.                                     *)
(***************************************************************************)
EXTENDS Peripherals

NoRisk == {}
Together == {{"ads7042", "dac121s101"}, {"dac081c08x"}, {"fan_control"}}

MoreThanTheDacHas == {0, 4095, 4097}
Bytes == {0, 15, 16, 165}

Curve(min_speed, max_speed, min_input, max_input) ==
  [min_speed |-> min_speed, max_speed |-> max_speed,
   min_input |-> min_input, max_input |-> max_input]
RisingCurve == {Curve(1, 4, 0, 4)}
Measured == {-1, 0, 2, 3, 5}
=============================================================================
