------------------------------ MODULE NvStruct ------------------------------
(***************************************************************************)
(* A data structure cached in RAM and kept in external memory              *)
(* (src/nv_struct.c), its application, and resets at any moment.  The      *)
(* struct is a row of cells: 0 holds the CRC32, Version and Size the rest  *)
(* of the header, the cells from FirstData on the data.  A write to the    *)
(* memory that a reset interrupts, or that fails, has stored a prefix, as  *)
(* LinearStore promises of the EEPROM; reads do not fail.                  *)
(***************************************************************************)
EXTENDS Integers, Sequences, FiniteSets

CONSTANTS
  Firmwares,  \* programs that may run: the version and size of their struct
  Value,      \* what a data cell holds
  MaxFailing  \* a write to the memory may fail while a reset would leave
              \* one of at most so many structs behind; 0 when none fails

Version == 1
Size == 2
FirstData == 3

(* A size is a size_t, and programs are finitely many: one is largest.     *)
ASSUME NvAssumption ==
  /\ Firmwares \subseteq [version : Nat, size : Nat]
  /\ \A f \in Firmwares : f.size >= Size
  /\ \E largest \in Firmwares : \A f \in Firmwares : f.size <= largest.size
  /\ Value \subseteq Nat
  /\ MaxFailing \in Nat

VARIABLES
  firmware,      \* the program that runs
  header,        \* its struct in RAM; header->crc32, which is only read
                 \* right after it was computed, is left out
  stored,        \* the external memory
  stored_crc32,
  pc,            \* "init", "idle" or in a "writeback"
  todo,          \* the cells the writeback still has to store
  status,        \* how nv_struct_init ended; "written" when the memory held a
                 \* valid struct since and something was written back
  dirty,         \* cells of the struct that may differ from the memory, and 0
                 \* after a write of the checksum failed
  survivors,     \* history: the structs a reset may leave behind
  durable        \* history: the programs bound to find theirs valid

nv == <<header, stored, stored_crc32>>
history == <<survivors, durable>>
vars == <<firmware, nv, pc, todo, status, dirty, history>>

LastCell == CHOOSE n \in {f.size : f \in Firmwares} :
              \A f \in Firmwares : f.size <= n
CellsOf(f) == Version..f.size

(* A CRC32 is represented by what it was computed over, so that no two     *)
(* structs share one; Garbage is no struct's: an erased memory, or a CRC   *)
(* stored in part.                                                         *)
Garbage == <<>>
CrcWithoutLastByte(h) == SubSeq(h, 1, Len(h) - 1)
nv_struct_compute_crc32(h) == h

WholeMemory(memory, f) == memory
Image(memory, f) == [c \in CellsOf(f) |-> memory[c]]

(* The struct as the program declares it.                                  *)
Defaults(f, v) ==
  [c \in CellsOf(f) |-> CASE c = Version -> f.version
                          [] c = Size -> f.size
                          [] OTHER -> v]

---------------------------------------------------------------------------
(* After nv_struct_init has called back, nothing of the struct is taken to *)
(* be in memory.                                                           *)
Reject(reason) ==
  /\ status' = reason
  /\ dirty' = CellsOf(firmware)
  /\ durable' = durable \ {firmware}
  /\ UNCHANGED survivors

(* The version callback may deal with the mismatch or have the corrupted   *)
(* callback called.  Data is read over the defaults before the checksum is *)
(* known to fit.                                                           *)
nv_struct_init ==
  /\ pc = "init"
  /\ pc' = "idle"
  /\ \/ /\ stored[Version] # firmware.version
        /\ \E reason \in {"mismatch", "corrupted"} : Reject(reason)
        /\ UNCHANGED header
     \/ /\ stored[Version] = firmware.version
        /\ stored[Size] # firmware.size
        /\ Reject("corrupted")
        /\ UNCHANGED header
     \/ /\ stored[Version] = firmware.version
        /\ stored[Size] = firmware.size
        /\ header' = Image(stored, firmware)
        /\ IF stored_crc32 # nv_struct_compute_crc32(header')
           THEN Reject("corrupted")
           ELSE /\ status' = "valid"
                /\ dirty' = {}
                /\ survivors' = {header'}
                /\ durable' = {firmware}
  /\ UNCHANGED <<firmware, stored, stored_crc32, todo>>

(* The application changes its data.                                       *)
Assign ==
  /\ pc = "idle"
  /\ \E c \in FirstData..firmware.size, v \in Value :
       /\ header' = [header EXCEPT ![c] = v]
       /\ dirty' = dirty \cup {c}
  /\ UNCHANGED <<firmware, stored, stored_crc32, pc, todo, status,
                 history>>

(* Any run of data may be read back, and any run of cells written: those   *)
(* of the header have to be, once.                                         *)
nv_struct_read ==
  /\ pc = "idle"
  /\ \E first \in FirstData..firmware.size : \E last \in first..firmware.size :
       /\ header' = [c \in DOMAIN header |->
                       IF c \in first..last THEN stored[c] ELSE header[c]]
       /\ dirty' = dirty \ (first..last)
  /\ UNCHANGED <<firmware, stored, stored_crc32, pc, todo, status,
                 history>>

nv_struct_writeback ==
  /\ pc = "idle"
  /\ pc' = "writeback"
  /\ \E first \in 0..firmware.size : \E last \in first..firmware.size :
       todo' = <<0>> \o [i \in 1..(last - first + 1) |-> first + i - 1]
  /\ survivors' = survivors \cup {header}
  /\ durable' = {}
  /\ UNCHANGED <<firmware, header, stored, stored_crc32, status, dirty>>

(* The checksum goes first, then the data from its first cell on.          *)
StoreCell ==
  LET c == Head(todo) IN
  /\ pc = "writeback"
  /\ todo # <<>>
  /\ todo' = Tail(todo)
  /\ IF c = 0
     THEN /\ stored_crc32' = nv_struct_compute_crc32(header)
          /\ survivors' = {header}
          /\ dirty' = dirty \ {0}
          /\ UNCHANGED stored
     ELSE /\ stored' = [stored EXCEPT ![c] = header[c]]
          /\ dirty' = dirty \ {c}
          /\ UNCHANGED <<stored_crc32, survivors>>
  /\ UNCHANGED <<firmware, header, pc, status, durable>>

(* One of the two writes fails, and nv_struct_writeback goes on: with the  *)
(* data after the checksum, which may be stored in part.  The write        *)
(* function of the interface returns nothing, so that nobody is told.      *)
WriteFails ==
  /\ Cardinality(survivors) <= MaxFailing
  /\ pc = "writeback"
  /\ todo # <<>>
  /\ IF Head(todo) = 0
     THEN /\ todo' = Tail(todo)
          /\ stored_crc32' \in {stored_crc32, Garbage}
          /\ dirty' = dirty \cup {0}
     ELSE /\ todo' = <<>>
          /\ UNCHANGED <<stored_crc32, dirty>>
  /\ UNCHANGED <<firmware, header, stored, pc, status, history>>

WritebackReturns ==
  /\ pc = "writeback"
  /\ todo = <<>>
  /\ pc' = "idle"
  /\ status' = IF status = "valid" \/ dirty = {} THEN "written" ELSE status
  /\ durable' = IF dirty = {} THEN {firmware} ELSE {}
  /\ UNCHANGED <<firmware, nv, todo, dirty, survivors>>

(* A reset loses the RAM, and another version of the program may run after *)
(* it; the CRC32 may have been stored in part.                             *)
Reset ==
  /\ pc' = "init"
  /\ todo' = <<>>
  /\ status' = "none"
  /\ dirty' = {}
  /\ \E f \in Firmwares, v \in Value :
       firmware' = f /\ header' = Defaults(f, v)
  /\ stored_crc32' \in {stored_crc32} \cup
       IF todo # <<>> /\ Head(todo) = 0 THEN {Garbage} ELSE {}
  /\ UNCHANGED <<stored, history>>

Init ==
  /\ \E f \in Firmwares, v \in Value :
       firmware = f /\ header = Defaults(f, v)
  /\ \E erased \in Value : stored = [c \in Version..LastCell |-> erased]
  /\ stored_crc32 = Garbage
  /\ pc = "init"
  /\ todo = <<>>
  /\ status = "none"
  /\ dirty = {}
  /\ survivors = {}
  /\ durable = {}

Next ==
  \/ nv_struct_init
  \/ Assign
  \/ nv_struct_read
  \/ nv_struct_writeback
  \/ StoreCell
  \/ WriteFails
  \/ WritebackReturns
  \/ Reset

Spec == Init /\ [][Next]_vars
---------------------------------------------------------------------------
(* Properties                                                              *)

TypeOK ==
  /\ firmware \in Firmwares
  /\ header \in [CellsOf(firmware) -> Nat]
  /\ stored \in [Version..LastCell -> Nat]
  /\ pc \in {"init", "idle", "writeback"}
  /\ todo \in Seq(0..firmware.size)
  /\ status \in {"none", "valid", "mismatch", "corrupted", "written"}
  /\ dirty \subseteq {0} \cup CellsOf(firmware)
  /\ durable \subseteq Firmwares

(* nv_struct_writeback is atomic against resets: what a later              *)
(* nv_struct_init accepts is one struct as the application last wrote it   *)
(* back or, if the reset came before the checksum was stored, as it was    *)
(* before - never a mixture and never an older one; and when nothing was   *)
(* being written and nothing is dirty it does accept.                      *)
CrashAtomic ==
  [][pc = "init" /\ pc' = "idle" =>
       /\ status' = "valid" => header' \in survivors
       /\ firmware \in durable => status' = "valid"]_vars

(* Once it has returned, nv_struct_writeback has left a struct and a       *)
(* checksum in memory that fit: the header says it "writes the modified    *)
(* data and checksum to the external memory".                              *)
WrittenFits ==
  pc = "idle" /\ status = "written" =>
    stored_crc32 = nv_struct_compute_crc32(Image(stored, firmware))
=============================================================================
