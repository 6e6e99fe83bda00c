------------------------------ MODULE At24cs0x ------------------------------
(***************************************************************************)
(* The AT24CS0x EEPROM driver (src/at24cs0x.c) together with the EEPROM it *)
(* talks to over I2C.  One client calls the library; each call is broken   *)
(* at the points where time can pass or the bus can fail: the write-in-    *)
(* progress check, the I2C transfer, and the time stamp taken after it.    *)
(* Time and the EEPROM's self-timed write cycle advance between the steps. *)
(***************************************************************************)
EXTENDS Integers, Sequences

CONSTANTS
  AddrSpace,   \* number of uint8_t values (256 in the code)
  MemSize,     \* bytes in the EEPROM: inst->size / 8 (128 or 256)
  PageSize,    \* AT24CS0X_PAGE_SIZE
  MaxCycle,    \* AT24CS0X_MAX_WRITE_CYCLE_TIME_MS, in clock ticks
  Byte,        \* contents of a memory cell
  MaxLen,      \* bound on the buffers the client passes
  Ops,         \* the API functions the client calls
  Faults,      \* what may go wrong on the bus, a subset of FaultKinds
  StaticInst   \* the instance struct has static storage, so starts zeroed

FaultKinds == {"noack",   \* an address byte is not acknowledged
               "short",   \* a data byte is not acknowledged
               "abort"}   \* another abort: arbitration lost, ...

ApiOps == {"check", "read_current_addr", "read_single_byte", "read_bytes",
           "write_single_byte", "write_bytes"}

ASSUME At24Assumption ==
  /\ AddrSpace \in Nat \ {0} /\ MemSize \in Nat \ {0}
  /\ PageSize \in Nat \ {0}  /\ MaxCycle \in Nat \ {0}
  /\ AddrSpace % MemSize = 0 /\ MemSize % PageSize = 0
  /\ Byte # {}
  /\ MaxLen \in 0..(AddrSpace - 1)
  /\ Ops \subseteq ApiOps
  /\ Faults \subseteq FaultKinds
  /\ StaticInst \in BOOLEAN

VARIABLES
  current_address,    \* inst->current_address
  write_in_progress,  \* inst->write_in_progress
  elapsed,            \* ticks since inst->last_write_time; see Elapsed
  mem,                \* the EEPROM array
  counter,            \* the EEPROM's internal address counter
  cycleLeft,          \* ticks left in its write cycle, 0 when it is idle
  pc,                 \* where the client is in a call
  call,               \* the call's arguments; data and addr advance
  last,               \* between calls, the last one and what it returned
  dest,               \* bytes the last call delivered to the client
  tracked             \* history: see TrackedAfter

inst == <<current_address, write_in_progress, elapsed>>
eeprom == <<mem, counter, cycleLeft>>
client == <<pc, call, last, dest, tracked>>
vars == <<inst, eeprom, client>>

Cells == 0..(MemSize - 1)
Address == 0..(AddrSpace - 1)

(* The code reads last_write_time only to ask whether more than MaxCycle   *)
(* has passed since, so the age is kept up to MaxCycle + 1.  -1 is a time  *)
(* so far ahead of the clock that the run never gets past it: a value an   *)
(* instance that was never zeroed may hold.                                *)
Elapsed == -1..(MaxCycle + 1)
InitialElapsed == IF StaticInst THEN {0} ELSE Elapsed

NoCall == [op |-> "none", addr |-> 0, len |-> 0, data |-> <<>>]
NoResult == [op |-> "none", ret |-> "none"]
Buffers == UNION {[1..n -> Byte] : n \in 0..MaxLen}

---------------------------------------------------------------------------
(* Address arithmetic                                                      *)

TooWide(n) == n
u8(n) == n % AddrSpace

(* The length of the next frame of a multi-byte write: up to the end of    *)
(* the page addr is in.                                                    *)
FrameSizeIgnoringPages(addr, remains) ==
  IF PageSize > remains THEN remains ELSE PageSize
FrameSize(addr, remains) ==
  LET room == PageSize - (addr % PageSize)
  IN  IF room > remains THEN remains ELSE room

(* "on write the address counter wraps on page boundary"                   *)
PageWrapForgotten(a) == u8(a)
PageWrapped(a) == IF u8(a) % PageSize = 0 THEN u8(u8(a) - PageSize) ELSE u8(a)

(* The address after a read of len bytes from addr.                        *)
AfterRead(addr, len) == u8(addr + len) % MemSize

(* More than the longest write cycle has passed since last_write_time.     *)
CycleTimeIgnored == FALSE
CycleTimeOver == elapsed > MaxCycle

---------------------------------------------------------------------------
(* The EEPROM, as the driver relies on it.  Addresses beyond the array are *)
(* taken modulo its size, reads wrap around the array, writes around the   *)
(* page (a frame is never longer than one); a device in its write cycle    *)
(* acknowledges nothing.                                                   *)

Cell(addr) == addr % MemSize
Landing(addr, k) ==
  PageSize * (Cell(addr) \div PageSize) + ((addr + k) % PageSize)

Programmed(m, addr, frame) ==
  [c \in Cells |->
     IF \E k \in DOMAIN frame : Landing(addr, k - 1) = c
     THEN frame[CHOOSE k \in DOMAIN frame : Landing(addr, k - 1) = c]
     ELSE m[c]]

DeviceReads(addr, len) == [k \in 1..len |-> mem[Cell(addr + k - 1)]]

(* The frame is latched and, at the STOP, the write cycle starts.          *)
DeviceWrites(addr, frame) ==
  /\ mem' = Programmed(mem, addr, frame)
  /\ counter' = Landing(addr, Len(frame))
  /\ cycleLeft' \in 1..MaxCycle

Refused == cycleLeft > 0 \/ "noack" \in Faults

---------------------------------------------------------------------------
(* Calls                                                                   *)

(* tracked records that the last call to place the EEPROM's address was a  *)
(* successful init, read or single-byte write, followed by nothing but     *)
(* successful reads at the current address and checks.                     *)
TrackedAfter(op, r) ==
  /\ r # "error" /\ op # "write_bytes"
  /\ op \in {"check", "read_current_addr"} => tracked

Begin(op, addr, len, data) ==
  /\ pc = "idle"
  /\ op \in Ops
  /\ pc' = "check"
  /\ call' = [op |-> op, addr |-> addr, len |-> len, data |-> data]
  /\ dest' = <<>>
  /\ last' = NoResult
  /\ UNCHANGED <<inst, eeprom, tracked>>

Return(r) ==
  /\ pc' = "idle"
  /\ last' = [op |-> call.op, ret |-> r]
  /\ tracked' = TrackedAfter(call.op, r)
  /\ call' = NoCall

at24cs0x_check_write_in_progress == Begin("check", 0, 0, <<>>)
at24cs0x_read_current_addr == Begin("read_current_addr", 0, 1, <<>>)
at24cs0x_read_single_byte == \E a \in Address : Begin("read_single_byte", a, 1, <<>>)
at24cs0x_read_bytes ==
  \E a \in Address, n \in 0..MaxLen : Begin("read_bytes", a, n, <<>>)
at24cs0x_write_single_byte ==
  \E a \in Address, b \in Byte : Begin("write_single_byte", a, 1, <<b>>)
at24cs0x_write_bytes ==
  \E a \in Address, d \in Buffers : Begin("write_bytes", a, Len(d), d)

(* at24cs0x_init: the serial number is read and the address counter set to *)
(* 0; the first transfer to be refused fails the call and leaves the       *)
(* instance as it was.                                                     *)
at24cs0x_init ==
  /\ pc \in {"down", "idle"}
  /\ dest' = <<>>
  /\ \/ /\ cycleLeft = 0
        /\ counter' = 0
        /\ current_address' = 0
        /\ write_in_progress' = FALSE
        /\ pc' = "idle"
        /\ last' = [op |-> "init", ret |-> "ok"]
        /\ tracked' = TrackedAfter("init", "ok")
        /\ UNCHANGED <<elapsed, mem, cycleLeft, call>>
     \/ /\ Refused
        /\ last' = [op |-> "init", ret |-> "error"]
        /\ tracked' = TrackedAfter("init", "error")
        /\ UNCHANGED <<inst, eeprom, pc, call>>

---------------------------------------------------------------------------
(* The check every call starts with, and write_bytes repeats per frame.    *)
(* at24cs0x_check_write_in_progress is called until it stops answering 1.  *)

AtCheck == pc = "check" /\ (call.op = "write_bytes" => call.data # <<>>)

Answered0 ==
  IF call.op = "check"
  THEN Return("no")
  ELSE pc' = "transfer" /\ UNCHANGED <<call, last, tracked>>

NoWriteInProgress ==
  /\ AtCheck
  /\ ~write_in_progress
  /\ Answered0
  /\ UNCHANGED <<inst, eeprom, dest>>

CycleTimeReached ==
  /\ AtCheck
  /\ write_in_progress
  /\ CycleTimeOver
  /\ write_in_progress' = FALSE
  /\ Answered0
  /\ UNCHANGED <<current_address, elapsed, eeprom, dest>>

(* The ACK poll writes current_address and no data, so an EEPROM that      *)
(* answers moves its counter there.                                        *)
AckPoll ==
  /\ AtCheck
  /\ write_in_progress
  /\ ~CycleTimeOver
  /\ \/ /\ cycleLeft = 0
        /\ counter' = Cell(current_address)
        /\ write_in_progress' = FALSE
        /\ Answered0
     \/ /\ Refused
        /\ IF call.op = "check"
           THEN Return("yes")
           ELSE UNCHANGED <<pc, call, last, tracked>>
        /\ UNCHANGED <<counter, write_in_progress>>
     \/ /\ "abort" \in Faults
        /\ Return("error")
        /\ UNCHANGED <<counter, write_in_progress>>
  /\ UNCHANGED <<current_address, elapsed, mem, cycleLeft, dest>>

---------------------------------------------------------------------------
(* Transfers                                                               *)

(* A write sets inst->write_in_progress before it touches the bus.         *)
MarkWrite == write_in_progress \/ call.op \in {"write_single_byte", "write_bytes"}

(* The EEPROM does not answer its address: the call fails.                 *)
TransferRefused ==
  /\ pc = "transfer"
  /\ Refused
  /\ write_in_progress' = MarkWrite
  /\ Return("error")
  /\ UNCHANGED <<current_address, elapsed, eeprom, dest>>

ReadCurrentTransfer ==
  /\ pc = "transfer"
  /\ call.op = "read_current_addr"
  /\ cycleLeft = 0
  /\ dest' = DeviceReads(counter, 1)
  /\ counter' = Cell(counter + 1)
  /\ current_address' = AfterRead(current_address, 1)
  /\ Return("ok")
  /\ UNCHANGED <<write_in_progress, elapsed, mem, cycleLeft>>

(* The address is sent, then the bytes are read; the second transfer, if   *)
(* there is one, may be refused after the first moved the counter.         *)
ReadTransfer ==
  /\ pc = "transfer"
  /\ call.op \in {"read_single_byte", "read_bytes"}
  /\ cycleLeft = 0
  /\ \/ /\ dest' = DeviceReads(call.addr, call.len)
        /\ counter' = Cell(call.addr + call.len)
        /\ current_address' = AfterRead(call.addr, call.len)
        /\ Return("ok")
     \/ /\ "noack" \in Faults
        /\ call.len > 0
        /\ counter' = Cell(call.addr)
        /\ Return("error")
        /\ UNCHANGED <<current_address, dest>>
  /\ UNCHANGED <<write_in_progress, elapsed, mem, cycleLeft>>

(* Address and data go out as one frame; unless both bytes are             *)
(* acknowledged nothing is written and the call fails.                     *)
WriteSingleTransfer ==
  /\ pc = "transfer"
  /\ call.op = "write_single_byte"
  /\ cycleLeft = 0
  /\ write_in_progress' = MarkWrite
  /\ \/ /\ DeviceWrites(call.addr, call.data)
        /\ pc' = "stamp"
        /\ UNCHANGED <<call, last, tracked>>
     \/ /\ "short" \in Faults
        /\ counter' \in {counter, Cell(call.addr)}
        /\ Return("error")
        /\ UNCHANGED <<mem, cycleLeft>>
  /\ UNCHANGED <<current_address, elapsed, dest>>

(* One frame of write_bytes: a burst with the address, then up to n bytes  *)
(* of data, of which the EEPROM keeps those it acknowledged.  The code is  *)
(* content with one.                                                       *)
WriteFrameTransfer ==
  LET n == FrameSize(call.addr, Len(call.data)) IN
  /\ pc = "transfer"
  /\ call.op = "write_bytes"
  /\ cycleLeft = 0
  /\ write_in_progress' = MarkWrite
  /\ \E accepted \in 0..n :
       /\ accepted < n => "short" \in Faults
       /\ IF accepted > 0
          THEN DeviceWrites(call.addr, SubSeq(call.data, 1, accepted))
          ELSE counter' = Cell(call.addr) /\ UNCHANGED <<mem, cycleLeft>>
       /\ IF accepted >= 1
          THEN pc' = "stamp" /\ UNCHANGED <<call, last, tracked>>
          ELSE Return("error")
  /\ UNCHANGED <<current_address, elapsed, dest>>

---------------------------------------------------------------------------
(* After the transfer of a write: last_write_time = get_absolute_time().   *)

StampForgotten == elapsed
Stamp == 0

StampSingle ==
  /\ pc = "stamp"
  /\ call.op = "write_single_byte"
  /\ elapsed' = Stamp
  /\ current_address' = PageWrapped(call.addr + 1)
  /\ Return("ok")
  /\ UNCHANGED <<write_in_progress, eeprom, dest>>

(* addr, remains and i move past the frame, and the loop goes round.       *)
StampFrame ==
  LET n == FrameSize(call.addr, Len(call.data)) IN
  /\ pc = "stamp"
  /\ call.op = "write_bytes"
  /\ elapsed' = Stamp
  /\ call' = [call EXCEPT !.addr = u8(@ + n),
                          !.data = SubSeq(@, n + 1, Len(@))]
  /\ pc' = "check"
  /\ UNCHANGED <<current_address, write_in_progress, eeprom, last, dest, tracked>>

(* The loop is done.  The code adds len to addr, which the loop has        *)
(* already moved past the data.                                            *)
WriteBytesReturns ==
  /\ pc = "check"
  /\ call.op = "write_bytes"
  /\ call.data = <<>>
  /\ current_address' = PageWrapped(call.addr + call.len)
  /\ Return("ok")
  /\ UNCHANGED <<write_in_progress, elapsed, eeprom, dest>>

---------------------------------------------------------------------------
(* Time, and a reset of the microcontroller.  What the instance holds      *)
(* after a reset is not read before at24cs0x_init has set it, except       *)
(* last_write_time, which init leaves alone.                               *)

Tick ==
  /\ cycleLeft > 0 \/ elapsed \in 0..MaxCycle
  /\ cycleLeft' = IF cycleLeft > 0 THEN cycleLeft - 1 ELSE 0
  /\ elapsed' = IF elapsed \in 0..MaxCycle THEN elapsed + 1 ELSE elapsed
  /\ UNCHANGED <<current_address, write_in_progress, mem, counter, client>>

Reset ==
  /\ pc # "down"
  /\ pc' = "down"
  /\ call' = NoCall
  /\ last' = NoResult
  /\ dest' = <<>>
  /\ tracked' = FALSE
  /\ current_address' = 0
  /\ write_in_progress' = FALSE
  /\ elapsed' \in InitialElapsed
  /\ UNCHANGED eeprom

Init ==
  /\ current_address = 0
  /\ write_in_progress = FALSE
  /\ elapsed \in InitialElapsed
  /\ mem \in [Cells -> Byte]
  /\ counter \in Cells
  /\ cycleLeft = 0
  /\ pc = "down"
  /\ call = NoCall
  /\ last = NoResult
  /\ dest = <<>>
  /\ tracked = FALSE

Calls ==
  \/ at24cs0x_init
  \/ at24cs0x_check_write_in_progress
  \/ at24cs0x_read_current_addr
  \/ at24cs0x_read_single_byte
  \/ at24cs0x_read_bytes
  \/ at24cs0x_write_single_byte
  \/ at24cs0x_write_bytes

(* The steps inside a call that the driver takes by itself.                *)
Driver ==
  \/ NoWriteInProgress
  \/ CycleTimeReached
  \/ TransferRefused
  \/ ReadCurrentTransfer
  \/ ReadTransfer
  \/ WriteSingleTransfer
  \/ WriteFrameTransfer
  \/ StampSingle
  \/ StampFrame
  \/ WriteBytesReturns

Next == Calls \/ Driver \/ AckPoll \/ Tick \/ Reset

Spec == Init /\ [][Next]_vars

(* A call that has been made is executed, and time passes; the client need *)
(* not make calls, nor the microcontroller reset.  Nothing is assumed of   *)
(* an ACK poll: an EEPROM that is gone never answers one.                  *)
FairSpec == Spec /\ WF_vars(Driver) /\ WF_vars(Tick)
---------------------------------------------------------------------------
(* Properties                                                              *)

Results == {"ok", "error", "yes", "no", "none"}
CallRecords ==
  [op : ApiOps \cup {"none"}, addr : Address, len : Nat, data : Seq(Byte)]
LastRecords == [op : ApiOps \cup {"init", "none"}, ret : Results]

TypeOK ==
  /\ current_address \in Address
  /\ write_in_progress \in BOOLEAN
  /\ elapsed \in Elapsed
  /\ mem \in [Cells -> Byte]
  /\ counter \in Cells
  /\ cycleLeft \in 0..MaxCycle
  /\ pc \in {"down", "idle", "check", "transfer", "stamp"}
  /\ call \in CallRecords
  /\ last \in LastRecords
  /\ dest \in Seq(Byte)
  /\ tracked \in BOOLEAN

(* No read or write is put on the bus while the EEPROM is in a write cycle *)
(* and would refuse it: whatever the driver concludes from its flag, from  *)
(* the time since the last write or from the ACK poll                      *)
(* (at24cs0x_check_write_in_progress), across resets and failed calls, is  *)
(* true of the EEPROM when the transfer starts.                            *)
NeverAddressesBusyDevice == pc = "transfer" => cycleLeft = 0

(* The driver's current_address is the EEPROM's own address counter after  *)
(* any successful init, read or single-byte write and the reads at the     *)
(* current address that follow it, at page and array ends too.  It stays   *)
(* so through the check of the next call: the ACK poll, which writes       *)
(* current_address to the EEPROM, does not move the counter a following    *)
(* at24cs0x_read_current_addr depends on.                                  *)
AddressTracked ==
  tracked /\ pc \in {"idle", "check", "transfer"} /\ call.op # "write_bytes"
  => Cell(current_address) = counter

(* As AddressTracked, after a successful at24cs0x_write_bytes that wrote   *)
(* something: the header has the instance struct hold the "current EEPROM  *)
(* address".                                                               *)
AddressTrackedAfterWriteBytes ==
  last = [op |-> "write_bytes", ret |-> "ok"] /\ pc = "idle" /\ write_in_progress
  => Cell(current_address) = counter

(* What write_bytes moves past, and will report as written, is in the      *)
(* EEPROM: the header has PICO_OK mean success.                            *)
WrittenIsStored ==
  pc = "stamp" /\ call.op = "write_bytes" =>
    \A k \in 1..FrameSize(call.addr, Len(call.data)) :
      mem[Cell(call.addr + k - 1)] = call.data[k]

(* Every call returns (or the microcontroller is reset): the loop around   *)
(* at24cs0x_check_write_in_progress ends even if the EEPROM never answers  *)
(* again, because MaxCycle passes - unless last_write_time was never       *)
(* written and happens to lie in the future.                               *)
CallsReturn ==
  pc \in {"check", "transfer", "stamp"} /\ elapsed >= 0
  ~> pc \in {"idle", "down"}
=============================================================================
