---------------------------- MODULE LinearStore ----------------------------
(***************************************************************************)
(* What include/at24cs0x.h promises the client of the EEPROM: a ring of    *)
(* bytes without pages, busy times or address counters.  A write is stored *)
(* from its first byte on, in any number of pieces, and returns ok only    *)
(* when all of it is stored; one that fails or is interrupted has stored a *)
(* prefix.  A read that returns ok delivers what is stored where it asked. *)
(***************************************************************************)
EXTENDS Integers, Sequences

CONSTANTS MemSize, Byte, MaxLen

VARIABLES
  store,    \* the stored bytes
  request,  \* what the current call still has to do
  status,   \* "pending" in a call, then what it came to
  got       \* the bytes the last call delivered

vars == <<store, request, status, got>>

Ring == 0..(MemSize - 1)
Strings == UNION {[1..n -> Byte] : n \in 0..MaxLen}

Requests == [kind : {"write", "other"}, at : Ring, bytes : Strings, len : {0}]
              \cup [kind : {"read"}, at : Ring, bytes : {<<>>}, len : 0..MaxLen]
None == [kind |-> "other", at |-> 0, bytes |-> <<>>, len |-> 0]

(* m with bytes, at most a ring full, stored one after the other from at.  *)
Overlay(m, at, bytes) ==
  [c \in Ring |->
     IF \E k \in DOMAIN bytes : (at + k - 1) % MemSize = c
     THEN bytes[CHOOSE k \in DOMAIN bytes : (at + k - 1) % MemSize = c]
     ELSE m[c]]

Init ==
  /\ store \in [Ring -> Byte]
  /\ request = None
  /\ status = "failed"
  /\ got = <<>>

Begin ==
  /\ status # "pending"
  /\ status' = "pending"
  /\ request' \in Requests
  /\ got' = <<>>
  /\ UNCHANGED store

StorePiece ==
  /\ status = "pending"
  /\ request.kind = "write"
  /\ \E n \in 1..Len(request.bytes) :
       /\ n <= MemSize
       /\ store' = Overlay(store, request.at, SubSeq(request.bytes, 1, n))
       /\ request' = [request EXCEPT
                        !.at = (@ + n) % MemSize,
                        !.bytes = SubSeq(@, n + 1, Len(@))]
  /\ UNCHANGED <<status, got>>

Succeed ==
  /\ status = "pending"
  /\ request.bytes = <<>>
  /\ status' = "ok"
  /\ CASE request.kind = "write" -> got' = got
       [] request.kind = "read" ->
            got' = [k \in 1..request.len |-> store[(request.at + k - 1) % MemSize]]
       [] request.kind = "other" -> got' \in Strings
  /\ request' = None
  /\ UNCHANGED store

(* The call fails, or the caller is reset.                                 *)
GiveUp ==
  /\ status' = "failed"
  /\ request' = None
  /\ got' = <<>>
  /\ UNCHANGED store

(* The caller starts anew between two calls.                               *)
Restart ==
  /\ status # "pending"
  /\ status' \in {"ok", "failed"}
  /\ got' = <<>>
  /\ UNCHANGED <<store, request>>

Next == Begin \/ StorePiece \/ Succeed \/ GiveUp \/ Restart

Spec == Init /\ [][Next]_vars
=============================================================================
