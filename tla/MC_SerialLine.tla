--------------------------- MODULE MC_SerialLine ---------------------------
(***************************************************************************)
(* Instances of SerialLine for TLC: lines too long to fit are typed while  *)
(* one reader or the other reads.                                          *)
(***************************************************************************)
EXTENDS SerialLine

BlockingOnly == {"serial_read_line_blocking"}
NonBlockingOnly == {"serial_read_line"}
=============================================================================
