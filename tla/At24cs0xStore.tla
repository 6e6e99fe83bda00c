--------------------------- MODULE At24cs0xStore ---------------------------
(***************************************************************************)
(* The driver and its EEPROM implement LinearStore: page splitting, page   *)
(* wrap-around, ACK polling and the 8-bit address arithmetic of            *)
(* at24cs0x_write_bytes are invisible to the client.                       *)
(***************************************************************************)
EXTENDS At24cs0x

InCall == pc \in {"check", "transfer", "stamp"}

(* Between the transfer of a frame and its time stamp the frame is stored, *)
(* though addr, remains and i have not moved past it yet.                  *)
FrameInFlight ==
  IF pc = "stamp" THEN FrameSize(call.addr, Len(call.data)) ELSE 0

KindOf(op) ==
  CASE op \in {"write_single_byte", "write_bytes"} -> "write"
    [] op \in {"read_single_byte", "read_bytes"} -> "read"
    [] OTHER -> "other"

Request ==
  LET n == FrameInFlight IN
  [kind |-> KindOf(call.op),
   at |-> Cell(call.addr + n),
   bytes |-> SubSeq(call.data, n + 1, Len(call.data)),
   len |-> IF KindOf(call.op) = "read" THEN call.len ELSE 0]

Status ==
  IF InCall THEN "pending"
  ELSE IF last.ret \in {"ok", "yes", "no"} THEN "ok" ELSE "failed"

(* No call is about more bytes than there are addresses.                   *)
Store == INSTANCE LinearStore WITH
  MaxLen <- AddrSpace, store <- mem, request <- Request, status <- Status, got <- dest

(* Every step of driver, EEPROM and clock is a step of LinearStore or none *)
(* at all: a write that returned PICO_OK is in the EEPROM completely, at   *)
(* the addresses asked for and nowhere else, and a read that returned      *)
(* PICO_OK delivered what is stored there.                                 *)
ImplementsStore == Store!Spec
=============================================================================
