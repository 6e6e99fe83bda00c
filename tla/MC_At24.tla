------------------------------ MODULE MC_At24 ------------------------------
(***************************************************************************)
(* Instances of At24cs0x for TLC: see the .cfg files.                      *)
(***************************************************************************)
EXTENDS At24cs0x

CONSTANTS b0, b1

OneByte == {b0}
TwoBytes == {b0, b1}

AllOps == ApiOps
WriteBytesOnly == {"write_bytes"}

NoFaults == {}
DataByteFaults == {"short"}
AllFaults == FaultKinds
=============================================================================
