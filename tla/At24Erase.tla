----------------------------- MODULE At24Erase -----------------------------
(***************************************************************************)
(* at24cs0x_erase (src/at24cs0x.c): a loop of reads and writes made with   *)
(* the driver's own functions, while the client makes no other call.       *)
(***************************************************************************)
EXTENDS At24cs0x

CONSTANTS
  Methods,      \* values of AT24CS0X_ERASE_METHOD to consider
  BufferSize,   \* AT24CS0X_ERASE_BUFFER_SIZE
  Blank         \* 255, what an erased cell holds

EraseMethods == {"BYTEWISE", "PAGEWISE", "BUFFERED"}

ASSUME EraseAssumption ==
  /\ Methods \subseteq EraseMethods
  /\ BufferSize \in Nat \ {0} /\ MemSize % BufferSize = 0
  /\ Blank \in Byte

VARIABLES
  erase,     \* the loop, by the method of the build: where it is, and what
             \* is left of the block it read
  blanked    \* the last call was an erase that returned PICO_OK (a history)

eraseVars == <<vars, erase, blanked>>

Block(method) == CASE method = "BYTEWISE" -> 1
                   [] method = "PAGEWISE" -> PageSize
                   [] method = "BUFFERED" -> BufferSize

(* inst->size is in bits: the array is gone over eight times.              *)
SizeInBits == 8 * MemSize

NotErasing == [method |-> "none", i |-> 0, reading |-> FALSE, rest |-> {}]
Erasing == erase.method # "none"

(* An int is passed for the uint8_t len of the driver's functions.         *)
ReadBlock(method, i) ==
  /\ IF method = "BYTEWISE"
     THEN Begin("read_single_byte", u8(i), 1, <<>>)
     ELSE Begin("read_bytes", u8(i), u8(Block(method)), <<>>)
  /\ erase' = [method |-> method, i |-> i, reading |-> TRUE, rest |-> {}]
  /\ blanked' = FALSE

at24cs0x_erase == ~Erasing /\ \E method \in Methods : ReadBlock(method, 0)

Returned(result) == Erasing /\ pc = "idle" /\ last.ret = result

BeforeABlank(block) ==
  {j \in 0..(Len(block) - 1) :
     block[j + 1] # Blank /\ \E k \in (j + 2)..Len(block) : block[k] = Blank}
NotBlank(block) == {j \in 0..(Len(block) - 1) : block[j + 1] # Blank}

(* What is not blank is to be written.  The buffer is a fresh local of the *)
(* loop's body: where nothing was read into it, it may hold anything.      *)
ScanBlock ==
  /\ Returned("ok") /\ erase.reading
  /\ \E rest \in SUBSET (0..(Block(erase.method) - 1)) :
       /\ rest \cap (0..(Len(dest) - 1)) = NotBlank(dest)
       /\ erase' = [erase EXCEPT !.reading = FALSE, !.rest = rest]
  /\ UNCHANGED <<vars, blanked>>

FirstRun(rest) ==
  {j \in rest : \A k \in 0..j : (\E first \in rest : first <= k) => k \in rest}

(* One run of it after the other is written.                               *)
WriteRun ==
  LET run == FirstRun(erase.rest)
      start == CHOOSE j \in run : \A k \in run : j <= k
      length == u8(1 + (CHOOSE j \in run : \A k \in run : j >= k) - start)
  IN
  /\ Returned("ok") /\ ~erase.reading /\ erase.rest # {}
  /\ IF erase.method = "BYTEWISE"
     THEN Begin("write_single_byte", u8(erase.i + start), 1, <<Blank>>)
     ELSE Begin("write_bytes", u8(erase.i + start), length, [k \in 1..length |-> Blank])
  /\ erase' = [erase EXCEPT !.rest = @ \ run]
  /\ UNCHANGED blanked

BlockDone == Returned("ok") /\ ~erase.reading /\ erase.rest = {}

NextBlock ==
  /\ BlockDone /\ erase.i + Block(erase.method) < SizeInBits
  /\ ReadBlock(erase.method, erase.i + Block(erase.method))

(* With a buffer the function ends without a return statement.             *)
EraseReturns ==
  /\ BlockDone /\ erase.i + Block(erase.method) >= SizeInBits
  /\ erase' = NotErasing
  /\ blanked' \in IF erase.method = "BUFFERED" THEN BOOLEAN ELSE {TRUE}
  /\ UNCHANGED vars

EraseFails ==
  /\ Returned("error")
  /\ erase' = NotErasing
  /\ UNCHANGED <<vars, blanked>>

---------------------------------------------------------------------------
EraseInit == Init /\ erase = NotErasing /\ blanked = FALSE

EraseNext ==
  \/ ~Erasing /\ Calls /\ blanked' = FALSE /\ UNCHANGED erase
  \/ at24cs0x_erase
  \/ ScanBlock
  \/ WriteRun
  \/ NextBlock
  \/ EraseReturns
  \/ EraseFails
  \/ (Driver \/ AckPoll \/ Tick) /\ UNCHANGED <<erase, blanked>>
  \/ Reset /\ erase' = NotErasing /\ UNCHANGED blanked

EraseSpec == EraseInit /\ [][EraseNext]_eraseVars

---------------------------------------------------------------------------
(* Properties                                                              *)

EraseTypeOK ==
  /\ TypeOK
  /\ erase \in [method : Methods \cup {"none"}, i : 0..(SizeInBits - 1),
                reading : BOOLEAN, rest : SUBSET (0..(MemSize - 1))]
  /\ blanked \in BOOLEAN

(* "Erase the entire EEPROM": after an at24cs0x_erase that returned        *)
(* PICO_OK, and until something else is written, every cell is blank -     *)
(* whatever the array held, through runs that end with a block, writes in  *)
(* progress and addresses that no longer fit a uint8_t.  Blocks have to be *)
(* smaller than the address space: one of 256 bytes is read with length 0. *)
ErasedIsBlank == blanked => \A c \in Cells : mem[c] = Blank
=============================================================================
