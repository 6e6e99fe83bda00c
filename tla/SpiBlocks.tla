----------------------------- MODULE SpiBlocks -----------------------------
(***************************************************************************)
(* The serial interfaces the converters hang on: the two hardware SPI      *)
(* blocks and a PIO state machine, and the number of bits in a word that   *)
(* each is set to.  The drivers of different converters share them: a      *)
(* block's format is set with the block as a plain argument.               *)
(***************************************************************************)
EXTENDS Naturals

VARIABLE format     \* per interface, the bits in a word; 0 before it is set

Spis == {"spi0", "spi1"}
Interfaces == Spis \cup {"pio"}

WordBits == {0, 14, 16, 32}

FormatTypeOK == format \in [Interfaces -> WordBits]

Unformatted == format = [i \in Interfaces |-> 0]
=============================================================================
