--------------------------- MODULE NvStructProofs ---------------------------
(***************************************************************************)
(* nv_struct_writeback is atomic against resets and failing writes, for    *)
(* every set of programs, of values, and of writes that fail.              *)
(***************************************************************************)
EXTENDS NvStruct, SequenceTheorems, TLAPS

(* The header of the struct in RAM is the program's, whatever was read     *)
(* over it.                                                                *)
HeaderKept ==
  header[Version] = firmware.version /\ header[Size] = firmware.size

(* A cell of the struct that is not known to differ is as in memory.       *)
CleanIsStored ==
  pc # "init" => \A c \in CellsOf(firmware) \ dirty : stored[c] = header[c]

(* In a writeback that has stored the checksum it is that of the struct.   *)
ChecksumFirst ==
  pc = "writeback" /\ (todo = <<>> \/ Head(todo) # 0) /\ 0 \notin dirty
  => stored_crc32 = header

(* The checksum in memory is that of a struct a reset may leave behind.    *)
ChecksumSurvives == stored_crc32 # Garbage => stored_crc32 \in survivors

(* A durable struct is in memory, with its checksum; nothing is durable    *)
(* that is being written.                                                  *)
DurableIsStored ==
  /\ \A f \in durable :
       /\ stored[Version] = f.version /\ stored[Size] = f.size
       /\ stored_crc32 = Image(stored, f)
  /\ pc = "writeback" => durable = {}
  /\ pc # "writeback" => todo = <<>>

NvInv ==
  /\ TypeOK
  /\ HeaderKept
  /\ CleanIsStored
  /\ ChecksumFirst
  /\ ChecksumSurvives
  /\ DurableIsStored

---------------------------------------------------------------------------
(* Structs                                                                 *)

(* The memory has room for every program's struct.                         *)
LEMMA StructsFit ==
  /\ LastCell \in Nat
  /\ \A f \in Firmwares :
       /\ f.version \in Nat /\ f.size \in Nat /\ Size <= f.size /\ f.size <= LastCell
       /\ Version \in CellsOf(f) /\ Size \in CellsOf(f)
       /\ CellsOf(f) \subseteq Version..LastCell
<1> DEFINE S == {f.size : f \in Firmwares}
<1>1. PICK largest \in Firmwares : \A f \in Firmwares : f.size <= largest.size
  BY NvAssumption
<1>2. \A f \in Firmwares : f.version \in Nat /\ f.size \in Nat /\ Size <= f.size
  BY NvAssumption
<1>3. \E n \in S : \A f \in Firmwares : f.size <= n
  BY <1>1
<1>4. LastCell \in S /\ \A f \in Firmwares : f.size <= LastCell
  BY <1>3 DEF LastCell
<1>5. LastCell \in Nat
  BY <1>2, <1>4
<1> QED BY <1>2, <1>4, <1>5 DEF CellsOf, Version, Size

(* The struct a program is built with.                                     *)
LEMMA DefaultsType ==
  ASSUME NEW f \in Firmwares, NEW v \in Value
  PROVE  /\ Defaults(f, v) \in [CellsOf(f) -> Nat]
         /\ Defaults(f, v)[Version] = f.version /\ Defaults(f, v)[Size] = f.size
<1>1. v \in Nat /\ Version \in CellsOf(f) /\ Size \in CellsOf(f) /\ Version # Size
  BY StructsFit, NvAssumption DEF Version, Size
<1>2. \A c \in CellsOf(f) : Defaults(f, v)[c] = CASE c = Version -> f.version
                                                  [] c = Size -> f.size
                                                  [] OTHER -> v
  BY DEF Defaults
<1> QED BY <1>1, <1>2, StructsFit DEF Defaults

(* What a program finds in memory is a struct, and no garbage.             *)
LEMMA ImageType ==
  ASSUME NEW f \in Firmwares, stored \in [Version..LastCell -> Nat]
  PROVE  /\ Image(stored, f) \in [CellsOf(f) -> Nat]
         /\ \A c \in CellsOf(f) : Image(stored, f)[c] = stored[c] /\ stored[c] \in Nat
         /\ Image(stored, f) # Garbage
<1>1. CellsOf(f) \subseteq Version..LastCell /\ Version \in CellsOf(f)
  BY StructsFit
<1>2. DOMAIN Garbage = {}
  BY DEF Garbage
<1> QED BY <1>1, <1>2 DEF Image

---------------------------------------------------------------------------
(* The steps                                                               *)

(* The invariant holds when the first firmware starts.                     *)
LEMMA InitNv == Init => NvInv
<1> SUFFICES ASSUME Init PROVE NvInv
  OBVIOUS
<1>1. PICK f \in Firmwares, v \in Value : firmware = f /\ header = Defaults(f, v)
  BY DEF Init
<1>2. PICK erased \in Value : stored = [c \in Version..LastCell |-> erased]
  BY DEF Init
<1>3. erased \in Nat
  BY NvAssumption
<1>4. TypeOK
  BY <1>1, <1>2, <1>3, DefaultsType DEF Init, TypeOK
<1>5. HeaderKept
  BY <1>1, DefaultsType DEF HeaderKept
<1> QED
  BY <1>4, <1>5
     DEF Init, NvInv, CleanIsStored, ChecksumFirst, ChecksumSurvives, DurableIsStored

(* A struct that was accepted was stored whole: the checksum in memory, if *)
(* it is one, is a survivor's.                                             *)
LEMMA NvInitStep ==
  ASSUME NvInv, nv_struct_init
  PROVE  NvInv'
<1>1. /\ firmware \in Firmwares /\ stored \in [Version..LastCell -> Nat] /\ pc = "init"
      /\ pc' = "idle" /\ todo = <<>>
      /\ UNCHANGED <<firmware, stored, stored_crc32, todo>>
      /\ durable \subseteq Firmwares
  BY DEF nv_struct_init, NvInv, TypeOK, DurableIsStored
<1>2. CellsOf(firmware)' = CellsOf(firmware)
  BY <1>1 DEF CellsOf
<1>3. ASSUME NEW reason \in {"mismatch", "corrupted"}, Reject(reason),
             \/ header' = header
             \/ /\ header' = Image(stored, firmware)
                /\ stored[Version] = firmware.version /\ stored[Size] = firmware.size
      PROVE  NvInv'
  <2>1. /\ status' = reason /\ dirty' = CellsOf(firmware) /\ durable' = durable \ {firmware}
        /\ survivors' = survivors
    BY <1>3 DEF Reject
  <2>2. header' \in [CellsOf(firmware) -> Nat]
    BY <1>1, <1>3, ImageType DEF NvInv, TypeOK
  <2>3. TypeOK'
    BY <1>1, <1>2, <2>1, <2>2 DEF NvInv, TypeOK
  <2>4. HeaderKept'
    BY <1>1, <1>3, StructsFit, ImageType DEF NvInv, HeaderKept
  <2>5. DurableIsStored'
    <3>1. \A f \in durable : stored_crc32 = Image(stored, f)
      BY DEF NvInv, DurableIsStored
    <3>2. \A f \in durable : Image(stored, f)' = Image(stored, f)
      BY <1>1 DEF Image, CellsOf
    <3> QED BY <1>1, <2>1, <3>1, <3>2 DEF NvInv, DurableIsStored
  <2> QED
    BY <1>1, <1>2, <2>1, <2>3, <2>4, <2>5
       DEF NvInv, CleanIsStored, ChecksumFirst, ChecksumSurvives
<1>4. ASSUME stored[Version] = firmware.version, stored[Size] = firmware.size,
             header' = Image(stored, firmware), stored_crc32 = header',
             status' = "valid", dirty' = {}, survivors' = {header'}, durable' = {firmware}
      PROVE  NvInv'
  <2>1. TypeOK'
    BY <1>1, <1>2, <1>4, ImageType DEF NvInv, TypeOK
  <2>2. HeaderKept'
    BY <1>1, <1>4, StructsFit, ImageType DEF HeaderKept
  <2>3. CleanIsStored'
    BY <1>1, <1>2, <1>4, ImageType DEF CleanIsStored
  <2>4. Image(stored, firmware)' = Image(stored, firmware)
    BY <1>1 DEF Image, CellsOf
  <2>5. DurableIsStored'
    BY <1>1, <1>4, <2>4 DEF DurableIsStored, Image, CellsOf
  <2> QED
    BY <1>1, <1>4, <2>1, <2>2, <2>3, <2>5 DEF NvInv, ChecksumFirst, ChecksumSurvives
<1> QED
  BY <1>3, <1>4 DEF nv_struct_init, nv_struct_compute_crc32

(* The application's changes and reads leave the memory alone.             *)
LEMMA IdleStep ==
  ASSUME NvInv, Assign \/ nv_struct_read
  PROVE  NvInv'
<1>1. /\ firmware \in Firmwares /\ stored \in [Version..LastCell -> Nat] /\ pc = "idle"
      /\ UNCHANGED <<firmware, stored, stored_crc32, pc, todo, status, survivors, durable>>
      /\ header \in [CellsOf(firmware) -> Nat]
      /\ firmware.size \in Nat
  BY StructsFit DEF Assign, nv_struct_read, history, NvInv, TypeOK
<1>2. CellsOf(firmware)' = CellsOf(firmware)
  BY <1>1 DEF CellsOf
<1>3. /\ header' \in [CellsOf(firmware) -> Nat]
      /\ dirty' \subseteq {0} \cup CellsOf(firmware)
      /\ \A c \in CellsOf(firmware) \ dirty' : stored[c] = header'[c]
      /\ header'[Version] = header[Version] /\ header'[Size] = header[Size]
  <2>1. /\ Version \in CellsOf(firmware) /\ Size \in CellsOf(firmware)
        /\ \A c \in FirstData..firmware.size : c \in CellsOf(firmware) /\ c # Version /\ c # Size
        /\ \A c \in CellsOf(firmware) : stored[c] \in Nat
    BY <1>1, StructsFit DEF CellsOf, Version, Size, FirstData
  <2>2. CASE Assign
    <3>1. PICK c \in FirstData..firmware.size, v \in Value :
            header' = [header EXCEPT ![c] = v] /\ dirty' = dirty \cup {c}
      BY <2>2 DEF Assign
    <3>2. v \in Nat
      BY NvAssumption
    <3> QED
      BY <1>1, <2>1, <3>1, <3>2 DEF NvInv, TypeOK, CleanIsStored
  <2>3. CASE nv_struct_read
    <3>1. PICK first \in FirstData..firmware.size : \E last \in first..firmware.size :
            /\ header' = [c \in DOMAIN header |->
                            IF c \in first..last THEN stored[c] ELSE header[c]]
            /\ dirty' = dirty \ (first..last)
      BY <2>3 DEF nv_struct_read
    <3>2. PICK last \in first..firmware.size :
            /\ header' = [c \in DOMAIN header |->
                            IF c \in first..last THEN stored[c] ELSE header[c]]
            /\ dirty' = dirty \ (first..last)
      BY <3>1
    <3>3. Version \notin first..last /\ Size \notin first..last
      BY <1>1 DEF Version, Size, FirstData
    <3> QED
      BY <1>1, <2>1, <3>2, <3>3 DEF NvInv, TypeOK, CleanIsStored
  <2> QED BY <2>2, <2>3
<1>4. TypeOK'
  BY <1>1, <1>2, <1>3 DEF NvInv, TypeOK
<1>5. HeaderKept' /\ CleanIsStored'
  BY <1>1, <1>2, <1>3 DEF NvInv, HeaderKept, CleanIsStored
<1>6. DurableIsStored'
  BY <1>1 DEF NvInv, DurableIsStored, Image, CellsOf
<1> QED
  BY <1>1, <1>4, <1>5, <1>6 DEF NvInv, ChecksumFirst, ChecksumSurvives

(* What is to be stored begins with the checksum.                          *)
LEMMA TodoType ==
  ASSUME NEW n \in Nat, NEW first \in 0..n, NEW last \in first..n
  PROVE  LET cells == <<0>> \o [i \in 1..(last - first + 1) |-> first + i - 1]
         IN  cells \in Seq(0..n) /\ cells # <<>> /\ Head(cells) = 0
<1> DEFINE s == [i \in 1..(last - first + 1) |-> first + i - 1]
           cells == <<0>> \o s
<1>1. s \in Seq(0..n) /\ <<0>> \in Seq(0..n) /\ Len(<<0>>) = 1 /\ <<0>>[1] = 0
  OBVIOUS
<1> HIDE DEF s
<1>2. cells \in Seq(0..n) /\ Len(cells) = 1 + Len(s) /\ cells[1] = 0 /\ Len(s) \in Nat
  BY <1>1
<1>3. cells # <<>> /\ Head(cells) = 0
  BY <1>2
<1> QED BY <1>2, <1>3 DEF s

(* A write-back begins: the struct as it is now may be what survives.      *)
LEMMA WritebackStep ==
  ASSUME NvInv, nv_struct_writeback
  PROVE  NvInv'
<1>1. /\ pc = "idle" /\ pc' = "writeback" /\ survivors' = survivors \cup {header}
      /\ durable' = {} /\ UNCHANGED <<firmware, header, stored, stored_crc32, status, dirty>>
      /\ firmware \in Firmwares
  BY DEF nv_struct_writeback, NvInv, TypeOK
<1>2. todo' \in Seq(0..firmware.size) /\ todo' # <<>> /\ Head(todo') = 0
  <2>1. firmware.size \in Nat
    BY <1>1, StructsFit
  <2>2. PICK first \in 0..firmware.size : \E last \in first..firmware.size :
          todo' = <<0>> \o [i \in 1..(last - first + 1) |-> first + i - 1]
    BY DEF nv_struct_writeback
  <2>3. PICK last \in first..firmware.size :
          todo' = <<0>> \o [i \in 1..(last - first + 1) |-> first + i - 1]
    BY <2>2
  <2> QED BY <2>1, <2>3, TodoType
<1>3. TypeOK'
  BY <1>1, <1>2 DEF NvInv, TypeOK, CellsOf
<1>4. CleanIsStored' /\ HeaderKept'
  BY <1>1 DEF NvInv, CleanIsStored, HeaderKept, CellsOf
<1> QED
  BY <1>1, <1>2, <1>3, <1>4
     DEF NvInv, ChecksumFirst, ChecksumSurvives, DurableIsStored

(* A cell that is stored is clean, the checksum that of the struct.        *)
LEMMA StoreStep ==
  ASSUME NvInv, StoreCell
  PROVE  NvInv'
<1> DEFINE c == Head(todo)
<1>1. /\ pc = "writeback" /\ todo \in Seq(0..firmware.size) /\ todo # <<>> /\ todo' = Tail(todo)
      /\ UNCHANGED <<firmware, header, pc, status, durable>> /\ durable = {}
      /\ stored \in [Version..LastCell -> Nat] /\ firmware \in Firmwares
      /\ dirty' = dirty \ {c}
      /\ header \in [CellsOf(firmware) -> Nat]
  BY DEF StoreCell, NvInv, TypeOK, DurableIsStored
<1>2. c \in 0..firmware.size /\ todo' \in Seq(0..firmware.size)
  BY <1>1, HeadTailProperties
<1> HIDE DEF c
<1>3. CASE c = 0
  <2>1. stored_crc32' = header /\ survivors' = {header} /\ stored' = stored
    BY <1>3 DEF StoreCell, nv_struct_compute_crc32, c
  <2>2. TypeOK'
    BY <1>1, <1>2, <2>1 DEF NvInv, TypeOK, CellsOf
  <2>3. CleanIsStored' /\ HeaderKept'
    <3>1. 0 \notin CellsOf(firmware)
      BY <1>1, StructsFit DEF CellsOf, Version
    <3> QED BY <1>1, <1>3, <2>1, <3>1 DEF NvInv, CleanIsStored, HeaderKept, CellsOf
  <2> QED
    BY <1>1, <2>1, <2>2, <2>3 DEF NvInv, ChecksumFirst, ChecksumSurvives, DurableIsStored
<1>4. CASE c # 0
  <2>1. /\ stored' = [stored EXCEPT ![c] = header[c]]
        /\ UNCHANGED <<stored_crc32, survivors>>
    BY <1>4 DEF StoreCell, c
  <2>2. c \in CellsOf(firmware) /\ c \in Version..LastCell /\ CellsOf(firmware)' = CellsOf(firmware)
    BY <1>1, <1>2, <1>4, StructsFit DEF Version, CellsOf
  <2>3. stored'[c] = header[c] /\ \A k \in Version..LastCell : k # c => stored'[k] = stored[k]
    BY <1>1, <2>1, <2>2
  <2>4. header[c] \in Nat
    BY <1>1, <2>2 DEF NvInv, TypeOK
  <2>5. stored' \in [Version..LastCell -> Nat]
    BY <1>1, <2>1, <2>4
  <2>6. TypeOK'
    BY <1>1, <1>2, <2>2, <2>5 DEF NvInv, TypeOK
  <2>7. CleanIsStored'
    <3>1. \A k \in CellsOf(firmware) : k \in Version..LastCell
      BY <1>1, StructsFit
    <3> QED BY <1>1, <2>2, <2>3, <3>1 DEF NvInv, CleanIsStored
  <2>8. ChecksumFirst'
    BY <1>1, <1>4, <2>1 DEF NvInv, ChecksumFirst, c
  <2> QED
    BY <1>1, <2>1, <2>6, <2>7, <2>8 DEF NvInv, HeaderKept, ChecksumSurvives, DurableIsStored
<1> QED BY <1>3, <1>4

(* A write that fails leaves its cells dirty and the checksum unknown.     *)
LEMMA FailStep ==
  ASSUME NvInv, WriteFails
  PROVE  NvInv'
<1>1. /\ pc = "writeback" /\ todo \in Seq(0..firmware.size) /\ todo # <<>>
      /\ UNCHANGED <<firmware, header, stored, pc, status, survivors, durable>> /\ durable = {}
  BY DEF WriteFails, history, NvInv, TypeOK, DurableIsStored
<1>2. \/ /\ Head(todo) = 0 /\ todo' = Tail(todo) /\ stored_crc32' \in {stored_crc32, Garbage}
         /\ dirty' = dirty \cup {0}
      \/ /\ Head(todo) # 0 /\ todo' = <<>> /\ UNCHANGED <<stored_crc32, dirty>>
  BY DEF WriteFails
<1>3. todo' \in Seq(0..firmware.size)
  <2>1. Tail(todo) \in Seq(0..firmware.size) /\ <<>> \in Seq(0..firmware.size)
    BY <1>1, HeadTailProperties
  <2> QED BY <1>2, <2>1
<1>4. TypeOK'
  BY <1>1, <1>2, <1>3 DEF NvInv, TypeOK, CellsOf
<1>5. CleanIsStored' /\ HeaderKept'
  BY <1>1, <1>2 DEF NvInv, CleanIsStored, HeaderKept, CellsOf
<1>6. ChecksumFirst'
  BY <1>1, <1>2 DEF NvInv, ChecksumFirst
<1> QED
  BY <1>1, <1>2, <1>4, <1>5, <1>6 DEF NvInv, ChecksumSurvives, DurableIsStored

(* When nothing is dirty in the end, struct and checksum are in memory.    *)
LEMMA ReturnStep ==
  ASSUME NvInv, WritebackReturns
  PROVE  NvInv'
<1>1. /\ pc = "writeback" /\ pc' = "idle" /\ todo = <<>> /\ firmware \in Firmwares
      /\ UNCHANGED <<firmware, header, stored, stored_crc32, todo, dirty, survivors>>
      /\ status' \in {status, "written"}
      /\ durable' = IF dirty = {} THEN {firmware} ELSE {}
      /\ header \in [CellsOf(firmware) -> Nat]
  BY DEF WritebackReturns, nv, NvInv, TypeOK
<1>2. TypeOK'
  BY <1>1 DEF NvInv, TypeOK, CellsOf
<1>3. CleanIsStored' /\ HeaderKept'
  BY <1>1 DEF NvInv, CleanIsStored, HeaderKept, CellsOf
<1>4. ASSUME dirty = {}
      PROVE  /\ stored[Version] = firmware.version /\ stored[Size] = firmware.size
             /\ stored_crc32 = Image(stored, firmware)
  <2>1. \A c \in CellsOf(firmware) : stored[c] = header[c]
    BY <1>1, <1>4 DEF NvInv, CleanIsStored
  <2>2. stored_crc32 = header
    BY <1>1, <1>4 DEF NvInv, ChecksumFirst
  <2>3. header = [c \in CellsOf(firmware) |-> header[c]]
    BY <1>1, <2>2 DEF NvInv, TypeOK
  <2>4. header = Image(stored, firmware)
    BY <2>1, <2>3 DEF Image
  <2> QED BY <1>1, <2>1, <2>2, <2>4, StructsFit DEF NvInv, HeaderKept
<1>5. DurableIsStored'
  <2>1. Image(stored, firmware)' = Image(stored, firmware)
    BY <1>1 DEF Image, CellsOf
  <2> QED BY <1>1, <1>4, <2>1 DEF DurableIsStored, Image, CellsOf
<1> QED
  BY <1>1, <1>2, <1>3, <1>5 DEF NvInv, ChecksumFirst, ChecksumSurvives

(* A reset finds nothing durable while the checksum is being stored.       *)
LEMMA ResetStep ==
  ASSUME NvInv, Reset
  PROVE  NvInv'
<1>1. PICK f \in Firmwares, v \in Value : firmware' = f /\ header' = Defaults(f, v)
  BY DEF Reset
<1>2. /\ pc' = "init" /\ todo' = <<>> /\ status' = "none" /\ dirty' = {}
      /\ UNCHANGED <<stored, survivors, durable>>
      /\ stored_crc32' \in {stored_crc32, Garbage}
      /\ durable # {} => stored_crc32' = stored_crc32
  BY DEF Reset, history, NvInv, DurableIsStored
<1>3. TypeOK'
  <2>1. header' \in [CellsOf(firmware)' -> Nat] /\ firmware' \in Firmwares
    BY <1>1, DefaultsType DEF CellsOf
  <2>2. todo' \in Seq(0..firmware'.size)
    BY <1>2
  <2> QED BY <1>2, <2>1, <2>2 DEF NvInv, TypeOK
<1>4. HeaderKept'
  BY <1>1, DefaultsType DEF HeaderKept
<1>5. DurableIsStored'
  <2>1. \A g \in durable : Image(stored, g)' = Image(stored, g)
    BY <1>2 DEF Image, CellsOf
  <2> QED BY <1>2, <2>1 DEF NvInv, DurableIsStored, Image, CellsOf
<1> QED
  BY <1>2, <1>3, <1>4, <1>5 DEF NvInv, CleanIsStored, ChecksumFirst, ChecksumSurvives

---------------------------------------------------------------------------
(* The theorems                                                            *)

(* So it is an invariant.                                                  *)
LEMMA NvInvariant == Spec => []NvInv
<1>1. NvInv /\ [Next]_vars => NvInv'
  <2>1. ASSUME NvInv, UNCHANGED vars
        PROVE  NvInv'
    BY <2>1
       DEF vars, nv, history, NvInv, TypeOK, HeaderKept, CleanIsStored, ChecksumFirst,
           ChecksumSurvives, DurableIsStored, CellsOf, Image
  <2> QED
    BY <2>1, NvInitStep, IdleStep, WritebackStep, StoreStep, FailStep, ReturnStep, ResetStep
       DEF Next
<1> QED
  BY InitNv, <1>1, PTL DEF Spec

(* The struct, the memory and the cells a writeback goes through are what  *)
(* they are declared to be, through resets into other programs.            *)
THEOREM TypesKept == Spec => []TypeOK
<1>1. NvInv => TypeOK
  BY DEF NvInv
<1> QED BY <1>1, NvInvariant, PTL

(* nv_struct_init accepts one struct as nv_struct_writeback last wrote it, *)
(* never a mixture, whatever resets and failed writes came before, and     *)
(* does accept one whose writeback had returned with nothing left dirty.   *)
THEOREM WritebackIsAtomic == Spec => CrashAtomic
<1>1. ASSUME NvInv, Next, pc = "init", pc' = "idle"
      PROVE  /\ status' = "valid" => header' \in survivors
             /\ firmware \in durable => status' = "valid"
  <2>1. nv_struct_init
    BY <1>1
       DEF Next, Assign, nv_struct_read, nv_struct_writeback, StoreCell, WriteFails,
           WritebackReturns, Reset
  <2>2. firmware \in Firmwares /\ stored \in [Version..LastCell -> Nat]
    BY <1>1 DEF NvInv, TypeOK
  <2>3. ASSUME status' = "valid"
        PROVE  header' \in survivors
    <3>1. header' = Image(stored, firmware) /\ stored_crc32 = header'
      BY <2>1, <2>3 DEF nv_struct_init, Reject, nv_struct_compute_crc32
    <3> QED BY <1>1, <2>2, <3>1, ImageType DEF NvInv, ChecksumSurvives
  <2>4. ASSUME firmware \in durable
        PROVE  status' = "valid"
    BY <1>1, <2>1, <2>4 DEF NvInv, DurableIsStored, nv_struct_init, nv_struct_compute_crc32
  <2> QED BY <2>3, <2>4
<1>2. NvInv /\ [Next]_vars =>
        [pc = "init" /\ pc' = "idle" =>
           /\ status' = "valid" => header' \in survivors
           /\ firmware \in durable => status' = "valid"]_vars
  BY <1>1
<1> QED BY <1>2, NvInvariant, PTL DEF Spec, CrashAtomic
=============================================================================
