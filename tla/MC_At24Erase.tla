---------------------------- MODULE MC_At24Erase ----------------------------
(***************************************************************************)
(* An instance for TLC of the driver with at24cs0x_erase, and of the store *)
(* it implements.                                                          *)
(***************************************************************************)
EXTENDS At24Erase, At24cs0xStore

CONSTANTS b0, blank

TwoBytes == {b0, blank}
StoreOps == {"read_single_byte", "read_bytes", "write_single_byte", "write_bytes"}
WholeFrameFaults == {"noack", "abort"}
=============================================================================
