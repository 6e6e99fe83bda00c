--------------------------- MODULE At24cs0xProofs ---------------------------
(***************************************************************************)
(* Proofs about At24cs0x for every memory, page and buffer size, every     *)
(* write cycle time and every set of bus faults: its invariants, and that  *)
(* its steps, mapped by At24cs0xStore, are steps of LinearStore.           *)
(***************************************************************************)
EXTENDS At24cs0xStore, SequenceTheorems, TLAPS

(* The write cycle of the EEPROM is known to the driver: by its flag and,  *)
(* while the flag stands, by last_write_time, which is not so old that the *)
(* driver could believe the cycle over before it is.  In "stamp" the time  *)
(* of the write has still to be taken.                                     *)
BusyIsKnown ==
  /\ pc = "transfer" => ~write_in_progress
  /\ pc = "stamp" => write_in_progress
  /\ pc \notin {"down", "stamp"} =>
       /\ ~write_in_progress => cycleLeft = 0
       /\ cycleLeft > 0 => elapsed + cycleLeft <= MaxCycle

IInv == TypeOK /\ BusyIsKnown

---------------------------------------------------------------------------
(* Arithmetic                                                              *)

(* Remainders modulo a positive number are below it.                       *)
LEMMA ModRange ==
  ASSUME NEW n \in Int, NEW d \in Nat \ {0}
  PROVE  n % d \in 0..(d - 1)
OBVIOUS

(* And is no more than the number.                                         *)
LEMMA ModShrinks ==
  ASSUME NEW n \in Nat, NEW d \in Nat \ {0}
  PROVE  n % d \in 0..n
OBVIOUS

(* A cell of the EEPROM is one of its cells.                               *)
LEMMA CellType ==
  ASSUME NEW a \in Int
  PROVE  Cell(a) \in Cells
BY At24Assumption, ModRange DEF Cell, Cells

(* An address kept in a uint8_t is an address.                             *)
LEMMA u8Type ==
  ASSUME NEW a \in Int
  PROVE  u8(a) \in Address
BY At24Assumption, ModRange DEF u8, Address

(* A write lands on a cell: the page of a cell ends where the array ends   *)
(* or before, because the array is a whole number of pages.                *)
LEMMA LandingType ==
  ASSUME NEW a \in Nat, NEW k \in Nat
  PROVE  Landing(a, k) \in Cells
<1> DEFINE P == PageSize
           p == Cell(a) \div P
           q == MemSize \div P
<1>1. P \in Nat \ {0} /\ MemSize \in Nat /\ MemSize % P = 0
  BY At24Assumption
<1>2. Cell(a) \in Nat /\ Cell(a) < MemSize
  BY <1>1, CellType DEF Cells
<1>3. MemSize = P * q /\ q \in Nat
  BY <1>1
<1>4. p \in Nat /\ P * p <= Cell(a)
  BY <1>1, <1>2
<1>5. p < q
  <2>1. P * p < P * q
    BY <1>1, <1>2, <1>3, <1>4
  <2> QED
    BY <2>1, <1>1, <1>3, <1>4
<1>6. P * p + P <= P * q
  BY <1>1, <1>3, <1>4, <1>5
<1>7. (a + k) % P \in 0..(P - 1)
  BY <1>1, ModRange
<1>8. P * p \in Nat
  BY <1>1, <1>4
<1> HIDE DEF p, q
<1>9. P * p + ((a + k) % P) \in 0..(MemSize - 1)
  BY <1>1, <1>3, <1>6, <1>7, <1>8
<1> QED
  BY <1>9 DEF Landing, Cells, p

(* Division with remainder has one result.                                 *)
LEMMA DivModUnique ==
  ASSUME NEW d \in Nat \ {0}, NEW n \in Int, NEW q \in Int, NEW r \in 0..(d - 1),
         n = d * q + r
  PROVE  n % d = r /\ n \div d = q
<1> DEFINE p == n \div d
<1>1. n \in Int /\ p \in Int /\ n = d * p + (n % d) /\ n % d \in 0..(d - 1)
  OBVIOUS
<1>2. n = d * q + r
  OBVIOUS
<1> HIDE DEF p
<1>3. p = q
  <2>1. d * (p - q) = r - (n % d)
    BY <1>1, <1>2
  <2>2. CASE p - q >= 1
    <3>1. d * (p - q) >= d
      BY <1>1, <2>2
    <3> QED BY <1>1, <2>1, <3>1
  <2>3. CASE p - q <= -1
    <3>1. d * (p - q) <= -d
      BY <1>1, <2>3
    <3> QED BY <1>1, <2>1, <3>1
  <2> QED BY <1>1, <2>2, <2>3
<1> QED BY <1>1, <1>2, <1>3 DEF p

(* And it is one.                                                          *)
LEMMA DivMod ==
  ASSUME NEW n \in Int, NEW d \in Nat \ {0}
  PROVE  n \div d \in Int /\ n % d \in 0..(d - 1) /\ n = d * (n \div d) + (n % d)
OBVIOUS

(* A divisor is no more than what it divides.                              *)
LEMMA DivisorBelow ==
  ASSUME NEW d \in Nat \ {0}, NEW n \in Nat \ {0}, n % d = 0
  PROVE  d <= n
<1> DEFINE q == n \div d
<1>1. q \in Int /\ n = d * q
  BY DivMod
<1> HIDE DEF q
<1>2. q >= 1
  <2>1. CASE q <= 0
    <3>1. d * q <= 0
      BY <1>1, <2>1
    <3> QED BY <1>1, <3>1
  <2> QED BY <1>1, <2>1
<1>3. d * q >= d
  BY <1>1, <1>2
<1> QED BY <1>1, <1>3

(* Multiples of the divisor do not count.                                  *)
LEMMA ModMultiple ==
  ASSUME NEW d \in Nat \ {0}, NEW a \in Int, NEW k \in Int
  PROVE  (a + d * k) % d = a % d
<1> DEFINE q == a \div d
           r == a % d
<1>1. q \in Int /\ r \in 0..(d - 1) /\ a = d * q + r
  BY DivMod
<1> HIDE DEF q, r
<1>2. a + d * k = d * (q + k) + r /\ q + k \in Int /\ a + d * k \in Int
  BY <1>1
<1>3. (a + d * k) % d = r
  BY <1>1, <1>2, DivModUnique
<1> QED BY <1>2, <1>3 DEF r

(* A remainder modulo a multiple has the same remainder.                   *)
LEMMA ModOfMod ==
  ASSUME NEW d \in Nat \ {0}, NEW m \in Nat \ {0}, m % d = 0, NEW a \in Int
  PROVE  (a % m) % d = a % d
<1> DEFINE c == m \div d
           q == a \div m
           r == a % m
<1>1. c \in Int /\ m = d * c
  BY DivMod
<1>2. q \in Int /\ r \in Int /\ a = m * q + r
  BY DivMod
<1> HIDE DEF c, q, r
<1>3. a = r + d * (c * q)
  BY <1>1, <1>2
<1>4. c * q \in Int
  BY <1>1, <1>2
<1>5. (r + d * (c * q)) % d = r % d
  BY <1>2, <1>4, ModMultiple
<1> QED BY <1>3, <1>5 DEF r

(* The remainder of a sum is that of its remainders.                       *)
LEMMA ModOfSum ==
  ASSUME NEW d \in Nat \ {0}, NEW a \in Int, NEW b \in Int
  PROVE  ((a % d) + b) % d = (a + b) % d
<1> DEFINE q == a \div d
           r == a % d
<1>1. q \in Int /\ r \in Int /\ a = d * q + r
  BY DivMod
<1> HIDE DEF q, r
<1>2. a + b = (r + b) + d * q
  BY <1>1
<1>3. ((r + b) + d * q) % d = (r + b) % d
  <2>1. r + b \in Int
    BY <1>1
  <2> QED BY <1>1, <2>1, ModMultiple
<1> QED BY <1>2, <1>3 DEF r

(* The array and the page fit the address space a whole number of times.   *)
LEMMA Sizes ==
  /\ AddrSpace \in Nat \ {0} /\ MemSize \in Nat \ {0} /\ PageSize \in Nat \ {0}
  /\ AddrSpace \in Int /\ MemSize \in Int /\ PageSize \in Int
  /\ AddrSpace % MemSize = 0 /\ MemSize % PageSize = 0 /\ AddrSpace % PageSize = 0
<1>1. /\ AddrSpace \in Int /\ MemSize \in Int /\ PageSize \in Int
      /\ AddrSpace \in Nat \ {0} /\ MemSize \in Nat \ {0} /\ PageSize \in Nat \ {0}
      /\ AddrSpace % MemSize = 0 /\ MemSize % PageSize = 0
  BY At24Assumption
<1>2. (AddrSpace % MemSize) % PageSize = AddrSpace % PageSize
  BY <1>1, ModOfMod, Zenon
<1>3. 0 % PageSize = 0
  BY <1>1
<1> QED BY <1>1, <1>2, <1>3

(* The cell of a sum, however its first part has been cut.                 *)
LEMMA CellOfSum ==
  ASSUME NEW a \in Int, NEW n \in Int
  PROVE  Cell(Cell(a) + n) = Cell(a + n) /\ Cell(u8(a) + n) = Cell(a + n)
<1>1. Cell(Cell(a) + n) = Cell(a + n)
  BY Sizes, ModOfSum DEF Cell
<1>2. u8(a) \in Int /\ Cell(u8(a)) = Cell(a)
  <2>1. u8(a) \in Int
    BY Sizes, DivMod DEF u8
  <2> QED BY <2>1, Sizes, ModOfMod, Zenon DEF Cell, u8
<1>3. Cell(Cell(u8(a)) + n) = Cell(u8(a) + n)
  BY <1>2, Sizes, ModOfSum DEF Cell
<1> QED BY <1>1, <1>2, <1>3

(* So with an address alone, and a cell is its own.                        *)
LEMMA CellOfCut ==
  ASSUME NEW a \in Int
  PROVE  Cell(Cell(a)) = Cell(a) /\ Cell(u8(a)) = Cell(a)
<1>1. Cell(a) \in Int /\ u8(a) \in Int
  BY Sizes, DivMod DEF Cell, u8
<1>2. Cell(a) + 0 = Cell(a) /\ u8(a) + 0 = u8(a) /\ a + 0 = a /\ 0 \in Int
  BY <1>1
<1>3. Cell(Cell(a) + 0) = Cell(a + 0) /\ Cell(u8(a) + 0) = Cell(a + 0)
  BY <1>2, CellOfSum
<1> QED BY <1>2, <1>3

(* A cell is its own.                                                      *)
LEMMA CellOfItself ==
  ASSUME NEW c \in Cells
  PROVE  Cell(c) = c
<1>1. c \in 0..(MemSize - 1) /\ c = MemSize * 0 + c
  BY Sizes DEF Cells
<1>2. (MemSize * 0 + c) % MemSize = c
  BY <1>1, Sizes, DivModUnique
<1> QED BY <1>1, <1>2 DEF Cell

(* Where the EEPROM's counter is after a read is where the driver says.    *)
LEMMA CellAfterRead ==
  ASSUME NEW a \in Int, NEW n \in Int
  PROVE  Cell(AfterRead(a, n)) = Cell(a + n)
<1>1. a + n \in Int /\ AfterRead(a, n) = Cell(u8(a + n)) /\ u8(a + n) \in Int
  BY Sizes, DivMod DEF AfterRead, Cell, u8
<1> QED BY <1>1, CellOfCut

(* A frame that stays in its page lands on the cells that follow a; one    *)
(* that fills it leaves the counter at the start of the page.              *)
LEMMA LandingInPage ==
  ASSUME NEW a \in Nat, NEW k \in Nat, (a % PageSize) + k <= PageSize
  PROVE  /\ (a % PageSize) + k < PageSize =>
              Landing(a, k) = Cell(a + k) /\ Landing(a, k) = Cell(a) + k
         /\ (a % PageSize) + k = PageSize => Landing(a, k) = Cell(a + k - PageSize)
<1> DEFINE c == Cell(a)
           r == a % PageSize
           q == a \div PageSize
           p == c \div PageSize
<1>1. /\ c \in Int /\ p \in Int /\ q \in Int /\ r \in 0..(PageSize - 1)
      /\ a = PageSize * q + r
      /\ c = PageSize * p + r
  <2>1. /\ c \in Int /\ p \in Int /\ c = PageSize * p + (c % PageSize)
    BY Sizes, DivMod DEF Cell
  <2>2. /\ q \in Int /\ r \in 0..(PageSize - 1) /\ a = PageSize * q + r
    BY Sizes, DivMod
  <2>3. c % PageSize = r
    <3>1. a \in Int
      OBVIOUS
    <3> QED BY <3>1, Sizes, ModOfMod, Zenon DEF Cell
  <2>4. c = PageSize * p + r
    BY <2>1, <2>3
  <2> QED BY <2>1, <2>2, <2>4
<1>2. Landing(a, k) \in Cells
  BY LandingType
<1>3. Landing(a, k) = PageSize * p + ((a + k) % PageSize)
  BY DEF Landing
<1> SUFFICES /\ r + k < PageSize => Landing(a, k) = Cell(a + k) /\ Landing(a, k) = c + k
             /\ r + k = PageSize => Landing(a, k) = Cell(a + k - PageSize)
  OBVIOUS
<1>6. r + k <= PageSize
  OBVIOUS
<1> HIDE DEF c, r, q, p
<1>4. CASE r + k < PageSize
  <2>1. a + k = PageSize * q + (r + k) /\ r + k \in 0..(PageSize - 1) /\ a + k \in Int
    BY <1>1, <1>4, Sizes
  <2>2. (a + k) % PageSize = r + k
    BY <1>1, <2>1, Sizes, DivModUnique, Zenon
  <2>3. Landing(a, k) = c + k
    BY <1>1, <1>3, <2>2, Sizes
  <2>4. Cell(c + k) = c + k /\ Cell(c + k) = Cell(a + k)
    BY <1>2, <2>3, CellOfItself, CellOfSum DEF c
  <2>5. Landing(a, k) = Cell(a + k)
    BY <2>3, <2>4
  <2> QED BY <1>1, <1>4, <2>3, <2>5, Sizes
<1>5. CASE r + k = PageSize
  <2>1. /\ a + k = PageSize * (q + 1) + 0 /\ 0 \in 0..(PageSize - 1)
        /\ a + k \in Int /\ q + 1 \in Int
    BY <1>1, <1>5, Sizes
  <2>2. (a + k) % PageSize = 0
    BY <1>1, <2>1, Sizes, DivModUnique, Zenon
  <2>3. Landing(a, k) = c + (k - PageSize)
    BY <1>1, <1>3, <1>5, <2>2, Sizes
  <2>4. Cell(c + (k - PageSize)) = c + (k - PageSize) /\ Cell(c + (k - PageSize)) = Cell(a + (k - PageSize))
    BY <1>2, <2>3, CellOfItself, CellOfSum, Sizes DEF c
  <2>5. a + (k - PageSize) = a + k - PageSize
    BY Sizes
  <2>6. Landing(a, k) = Cell(a + k - PageSize)
    BY <2>3, <2>4, <2>5
  <2> QED BY <1>1, <1>5, <2>6, Sizes
<1> QED BY <1>1, <1>4, <1>5, <1>6, Sizes

(* After a byte is written, the counter has wrapped as the driver's copy.  *)
LEMMA CellPageWrapped ==
  ASSUME NEW a \in Nat
  PROVE  Cell(PageWrapped(a + 1)) = Landing(a, 1)
<1>1. a % PageSize \in 0..(PageSize - 1) /\ a = PageSize * (a \div PageSize) + (a % PageSize)
      /\ a \div PageSize \in Int
  BY Sizes, DivMod
<1>2. u8(a + 1) % PageSize = (a + 1) % PageSize /\ u8(a + 1) \in Int
  <2>1. a + 1 \in Int
    OBVIOUS
  <2>2. u8(a + 1) % PageSize = (a + 1) % PageSize
    BY <2>1, Sizes, ModOfMod, Zenon DEF u8
  <2> QED BY <2>1, <2>2, Sizes, DivMod DEF u8
<1>3. CASE (a % PageSize) + 1 = PageSize
  <2>1. /\ a + 1 = PageSize * ((a \div PageSize) + 1) + 0 /\ 0 \in 0..(PageSize - 1)
        /\ a + 1 \in Int /\ (a \div PageSize) + 1 \in Int
    BY <1>1, <1>3, Sizes
  <2>2. (a + 1) % PageSize = 0
    BY <1>1, <2>1, Sizes, DivModUnique, Zenon
  <2>3. PageWrapped(a + 1) = u8(u8(a + 1) - PageSize)
    BY <1>2, <2>2 DEF PageWrapped
  <2>4. Cell(u8(u8(a + 1) - PageSize)) = Cell(u8(a + 1) - PageSize)
    BY <1>2, Sizes, CellOfCut
  <2>5. Cell(u8(a + 1) + (-PageSize)) = Cell((a + 1) + (-PageSize))
    BY Sizes, CellOfSum
  <2>6. Landing(a, 1) = Cell(a + 1 - PageSize)
    BY <1>3, Sizes, LandingInPage
  <2>7. u8(a + 1) - PageSize = u8(a + 1) + (-PageSize) /\ (a + 1) + (-PageSize) = a + 1 - PageSize
    BY <1>2, Sizes
  <2> QED BY <2>3, <2>4, <2>5, <2>6, <2>7
<1>4. CASE (a % PageSize) + 1 < PageSize
  <2>1. a + 1 = PageSize * (a \div PageSize) + ((a % PageSize) + 1)
        /\ (a % PageSize) + 1 \in 0..(PageSize - 1) /\ a + 1 \in Int
    BY <1>1, <1>4, Sizes
  <2>2. (a + 1) % PageSize = (a % PageSize) + 1
    BY <1>1, <2>1, Sizes, DivModUnique, ZenonT(30)
  <2>3. PageWrapped(a + 1) = u8(a + 1)
    BY <1>1, <1>2, <2>2 DEF PageWrapped
  <2>4. Cell(u8(a + 1)) = Cell(a + 1)
    BY CellOfCut
  <2>5. Landing(a, 1) = Cell(a + 1)
    BY <1>1, <1>4, Sizes, LandingInPage
  <2> QED BY <2>3, <2>4, <2>5
<1> QED BY <1>1, <1>3, <1>4, Sizes

---------------------------------------------------------------------------
(* Data                                                                    *)

(* A buffer is a sequence of bytes.                                        *)
LEMMA BuffersType ==
  ASSUME NEW d \in Buffers
  PROVE  d \in Seq(Byte) /\ Len(d) \in Nat
<1>1. PICK n \in 0..MaxLen : d \in [1..n -> Byte]
  BY DEF Buffers
<1>2. MaxLen \in Nat
  BY At24Assumption
<1> QED
  BY <1>1, <1>2

(* A frame is within what remains, and at least one byte of it.            *)
LEMMA FrameSizeType ==
  ASSUME NEW a \in Address, NEW r \in Nat
  PROVE  FrameSize(a, r) \in 0..r /\ (r > 0 => FrameSize(a, r) > 0)
<1>1. PageSize \in Nat \ {0} /\ a \in Nat
  BY At24Assumption DEF Address
<1>2. a % PageSize \in 0..(PageSize - 1)
  BY <1>1, ModRange
<1> QED
  BY <1>1, <1>2 DEF FrameSize

(* Reads deliver bytes.                                                    *)
LEMMA DeviceReadsType ==
  ASSUME mem \in [Cells -> Byte], NEW a \in Nat, NEW n \in Nat
  PROVE  DeviceReads(a, n) \in Seq(Byte)
<1>1. \A k \in 1..n : mem[Cell(a + k - 1)] \in Byte
  BY CellType
<1> QED
  BY <1>1 DEF DeviceReads

(* A write leaves the EEPROM an array of bytes, its counter on a cell, and *)
(* no longer busy than the longest write cycle.                            *)
LEMMA DeviceWritesType ==
  ASSUME mem \in [Cells -> Byte], NEW a \in Nat, NEW f \in Seq(Byte),
         DeviceWrites(a, f)
  PROVE  /\ mem' \in [Cells -> Byte]
         /\ counter' \in Cells
         /\ cycleLeft' \in 1..MaxCycle
<1>1. Programmed(mem, a, f) \in [Cells -> Byte]
  <2>1. ASSUME NEW c \in Cells, \E k \in DOMAIN f : Landing(a, k - 1) = c
        PROVE  f[CHOOSE k \in DOMAIN f : Landing(a, k - 1) = c] \in Byte
    BY <2>1
  <2> QED
    BY <2>1 DEF Programmed
<1>2. Landing(a, Len(f)) \in Cells
  BY LandingType
<1> QED
  BY <1>1, <1>2 DEF DeviceWrites

---------------------------------------------------------------------------
(* Helpers of the actions                                                  *)

(* An idle client's call record.                                           *)
LEMMA NoCallType == NoCall \in CallRecords
<1>1. 0 \in Address
  BY At24Assumption DEF Address
<1> QED
  BY <1>1 DEF NoCall, CallRecords

(* What a call that returns leaves behind.                                 *)
LEMMA ReturnType ==
  ASSUME TypeOK, NEW r \in Results, Return(r)
  PROVE  /\ pc' = "idle"
         /\ call' \in CallRecords
         /\ last' \in LastRecords
         /\ tracked' \in BOOLEAN
<1>1. TrackedAfter(call.op, r) \in BOOLEAN
  BY DEF TrackedAfter, TypeOK
<1> QED
  BY <1>1, NoCallType DEF Return, TypeOK, CallRecords, LastRecords

(* What a check that found no write in progress leaves behind.             *)
LEMMA Answered0Type ==
  ASSUME TypeOK, Answered0
  PROVE  /\ pc' \in {"idle", "transfer"}
         /\ call' \in CallRecords
         /\ last' \in LastRecords
         /\ tracked' \in BOOLEAN
BY ReturnType DEF Answered0, TypeOK, Results

(* Beginning a call with arguments of the right types.                     *)
LEMMA BeginInv ==
  ASSUME IInv, NEW op \in ApiOps, NEW a \in Address, NEW n \in Nat,
         NEW d \in Seq(Byte), Begin(op, a, n, d)
  PROVE  IInv'
<1>1. TypeOK'
  <2>1. last' \in LastRecords
    BY DEF Begin, NoResult, LastRecords, Results
  <2> QED BY <2>1 DEF IInv, TypeOK, Begin, inst, eeprom, CallRecords
<1>2. BusyIsKnown'
  BY DEF IInv, TypeOK, BusyIsKnown, Begin, inst, eeprom
<1> QED
  BY <1>1, <1>2 DEF IInv

---------------------------------------------------------------------------
(* The invariant                                                           *)

(* The invariant holds when the microcontroller starts.                    *)
LEMMA InitIInv == Init => IInv
<1> SUFFICES ASSUME Init
             PROVE  IInv
  OBVIOUS
<1>1. /\ 0 \in Address
      /\ InitialElapsed \subseteq Elapsed
      /\ MaxCycle \in Nat
  BY At24Assumption DEF Address, InitialElapsed, Elapsed
<1>2. TypeOK
  <2>1. last \in LastRecords
    BY DEF Init, NoResult, LastRecords, Results
  <2>2. dest \in Seq(Byte) /\ cycleLeft \in 0..MaxCycle
    BY <1>1 DEF Init
  <2> QED
    BY <1>1, <2>1, <2>2, NoCallType DEF Init, TypeOK
<1>3. BusyIsKnown
  BY DEF Init, BusyIsKnown
<1> QED
  BY <1>2, <1>3 DEF IInv

(* A call begins.                                                          *)
LEMMA CallsInv ==
  ASSUME IInv, Calls
  PROVE  IInv'
<1>1. 0 \in Address /\ MaxLen \in Nat /\ 0 \in Cells /\ MaxCycle \in Nat
  BY At24Assumption DEF Address, Cells
<1>2. CASE at24cs0x_init
  <2>1. \A r \in {"ok", "error"} : TrackedAfter("init", r) \in BOOLEAN
    BY DEF TrackedAfter
  <2>4. last' \in LastRecords /\ tracked' \in BOOLEAN /\ dest' \in Seq(Byte)
    BY <1>2, <2>1 DEF at24cs0x_init, LastRecords, Results
  <2>2. TypeOK'
    BY <1>1, <1>2, <2>4 DEF IInv, TypeOK, at24cs0x_init, inst, eeprom
  <2>3. BusyIsKnown'
    BY <1>1, <1>2 DEF IInv, TypeOK, BusyIsKnown, at24cs0x_init, inst, eeprom
  <2> QED
    BY <2>2, <2>3 DEF IInv
<1>3. CASE \E op \in ApiOps, a \in Address, n \in Nat, d \in Seq(Byte) :
              Begin(op, a, n, d)
  BY <1>3, BeginInv
<1>4. ASSUME Calls, ~at24cs0x_init
      PROVE  \E op \in ApiOps, a \in Address, n \in Nat, d \in Seq(Byte) :
               Begin(op, a, n, d)
  <2>1. /\ ApiOps = {"check", "read_current_addr", "read_single_byte",
                     "read_bytes", "write_single_byte", "write_bytes"}
        /\ <<>> \in Seq(Byte)
        /\ \A b \in Byte : <<b>> \in Seq(Byte)
    BY DEF ApiOps
  <2>2. CASE at24cs0x_check_write_in_progress
    BY <1>1, <2>1, <2>2 DEF at24cs0x_check_write_in_progress
  <2>3. CASE at24cs0x_read_current_addr
    BY <1>1, <2>1, <2>3 DEF at24cs0x_read_current_addr
  <2>4. CASE at24cs0x_read_single_byte
    BY <2>1, <2>4 DEF at24cs0x_read_single_byte
  <2>5. CASE at24cs0x_read_bytes
    <3>1. PICK a \in Address, n \in 0..MaxLen : Begin("read_bytes", a, n, <<>>)
      BY <2>5 DEF at24cs0x_read_bytes
    <3>2. n \in Nat
      BY <1>1
    <3> QED
      BY <2>1, <3>1, <3>2
  <2>6. CASE at24cs0x_write_single_byte
    BY <2>1, <2>6 DEF at24cs0x_write_single_byte
  <2>7. CASE at24cs0x_write_bytes
    BY <2>1, <2>7, BuffersType DEF at24cs0x_write_bytes
  <2> QED
    BY <1>4, <2>2, <2>3, <2>4, <2>5, <2>6, <2>7 DEF Calls
<1> QED
  BY <1>2, <1>3, <1>4

(* The check before a transfer.                                            *)
LEMMA CheckInv ==
  ASSUME IInv, NoWriteInProgress \/ CycleTimeReached \/ AckPoll
  PROVE  IInv'
<1> USE DEF IInv
<1>1. MaxCycle \in Nat /\ current_address \in Nat
  BY At24Assumption DEF TypeOK, Address
<1>2. CASE NoWriteInProgress
  <2>1. TypeOK'
    BY <1>2, Answered0Type DEF TypeOK, NoWriteInProgress, inst, eeprom
  <2>2. BusyIsKnown'
    BY <1>2, Answered0Type DEF TypeOK, BusyIsKnown, NoWriteInProgress, AtCheck,
       inst, eeprom
  <2> QED
    BY <2>1, <2>2
(* The write cycle has ended by now, or last_write_time would be younger.  *)
<1>3. CASE CycleTimeReached
  <2>1. TypeOK'
    BY <1>3, Answered0Type DEF TypeOK, CycleTimeReached, eeprom
  <2>2. cycleLeft = 0
    BY <1>1, <1>3 DEF TypeOK, BusyIsKnown, CycleTimeReached, CycleTimeOver,
       AtCheck, Elapsed
  <2>3. BusyIsKnown'
    BY <1>3, <2>2, Answered0Type DEF TypeOK, BusyIsKnown, CycleTimeReached,
       AtCheck, eeprom
  <2> QED
    BY <2>1, <2>3
<1>4. CASE AckPoll
  <2>0. UNCHANGED <<current_address, elapsed, mem, cycleLeft, dest>>
    BY <1>4 DEF AckPoll
  <2>1. CASE cycleLeft = 0 /\ counter' = Cell(current_address)
             /\ write_in_progress' = FALSE /\ Answered0
    <3>1. TypeOK'
      <4>1. counter' \in Cells
        BY <1>1, <2>1, CellType
      <4>2. pc' \in {"idle", "transfer"} /\ call' \in CallRecords
            /\ last' \in LastRecords /\ tracked' \in BOOLEAN
        BY <2>1, Answered0Type
      <4> QED
        BY <2>0, <2>1, <4>1, <4>2 DEF TypeOK
    <3>2. BusyIsKnown'
      BY <1>4, <2>1, Answered0Type DEF TypeOK, BusyIsKnown, AckPoll, AtCheck
    <3> QED
      BY <3>1, <3>2
  <2>2. CASE (\E r \in {"yes", "error"} : Return(r))
             /\ UNCHANGED <<counter, write_in_progress>>
    <3>1. TypeOK'
      BY <2>0, <2>2, ReturnType DEF TypeOK, Results
    <3>2. BusyIsKnown'
      BY <1>4, <2>2, ReturnType DEF TypeOK, BusyIsKnown, AckPoll, AtCheck, Results
    <3> QED
      BY <3>1, <3>2
  <2>3. CASE UNCHANGED <<pc, call, last, tracked, counter, write_in_progress>>
    BY <2>0, <2>3 DEF TypeOK, BusyIsKnown
  <2> QED
    BY <1>4, <2>1, <2>2, <2>3 DEF AckPoll
<1> QED
  BY <1>2, <1>3, <1>4

(* A transfer starts with the EEPROM idle and the flag down.               *)
LEMMA TransferInv ==
  ASSUME IInv,
         \/ TransferRefused
         \/ ReadCurrentTransfer
         \/ ReadTransfer
         \/ WriteSingleTransfer
         \/ WriteFrameTransfer
  PROVE  IInv'
<1> USE DEF IInv
<1>1. /\ cycleLeft = 0
      /\ ~write_in_progress
      /\ elapsed \in Int
      /\ MaxCycle \in Nat
      /\ mem \in [Cells -> Byte]
      /\ call.addr \in Nat
      /\ call.len \in Nat
      /\ call.data \in Seq(Byte)
      /\ current_address \in Nat
      /\ counter \in Nat
      /\ AddrSpace \in Nat
      /\ MemSize \in Nat \ {0}
  BY At24Assumption DEF TypeOK, BusyIsKnown, Address, Elapsed, CallRecords, TransferRefused,
     ReadCurrentTransfer, ReadTransfer, WriteSingleTransfer, WriteFrameTransfer, Cells
<1>2. \A a, n \in Nat : AfterRead(a, n) \in Address
  <2> TAKE a, n \in Nat
  <2>1. u8(a + n) \in Address
    BY u8Type
  <2>2. u8(a + n) % MemSize \in 0..u8(a + n)
    BY <1>1, <2>1, ModShrinks DEF Address
  <2> QED
    BY <1>1, <2>1, <2>2 DEF AfterRead, Address
<1>3. MarkWrite \in BOOLEAN
  BY DEF MarkWrite, TypeOK
<1>4. CASE TransferRefused
  <2>1. TypeOK'
    BY <1>3, <1>4, ReturnType DEF TypeOK, TransferRefused, eeprom, Results
  <2>2. BusyIsKnown'
    BY <1>1, <1>4, ReturnType DEF TypeOK, BusyIsKnown, TransferRefused, eeprom, Results
  <2> QED
    BY <2>1, <2>2
<1>5. CASE ReadCurrentTransfer
  <2>1. DeviceReads(counter, 1) \in Seq(Byte)
    BY <1>1, DeviceReadsType
  <2>0. Cell(counter + 1) \in Cells
    BY <1>1, CellType
  <2>2. TypeOK'
    BY <1>1, <1>2, <1>5, <2>0, <2>1, ReturnType DEF TypeOK, ReadCurrentTransfer, Results
  <2>3. BusyIsKnown'
    BY <1>1, <1>5, ReturnType DEF TypeOK, BusyIsKnown, ReadCurrentTransfer, Results
  <2> QED
    BY <2>2, <2>3
<1>6. CASE ReadTransfer
  <2>1. DeviceReads(call.addr, call.len) \in Seq(Byte)
    BY <1>1, DeviceReadsType
  <2>0. Cell(call.addr + call.len) \in Cells /\ Cell(call.addr) \in Cells
    BY <1>1, CellType
  <2>2. TypeOK'
    BY <1>1, <1>2, <1>6, <2>0, <2>1, ReturnType DEF TypeOK, ReadTransfer, Results
  <2>3. BusyIsKnown'
    BY <1>1, <1>6, ReturnType DEF TypeOK, BusyIsKnown, ReadTransfer, Results
  <2> QED
    BY <2>2, <2>3
<1>7. CASE WriteSingleTransfer
  <2>1. write_in_progress'
    BY <1>7 DEF WriteSingleTransfer, MarkWrite
  <2>2. CASE DeviceWrites(call.addr, call.data) /\ pc' = "stamp"
             /\ UNCHANGED <<call, last, tracked>>
    <3>1. TypeOK'
      BY <1>1, <1>3, <1>7, <2>2, DeviceWritesType DEF TypeOK, WriteSingleTransfer
    <3>2. BusyIsKnown'
      BY <2>1, <2>2 DEF BusyIsKnown
    <3> QED
      BY <3>1, <3>2
  <2>3. CASE counter' \in {counter, Cell(call.addr)} /\ Return("error")
             /\ UNCHANGED <<mem, cycleLeft>>
    <3>1. TypeOK'
      BY <1>1, <1>3, <1>7, <2>3, ReturnType, CellType
         DEF TypeOK, WriteSingleTransfer, Results
    <3>2. BusyIsKnown'
      BY <1>1, <2>1, <2>3, ReturnType DEF BusyIsKnown, Results
    <3> QED
      BY <3>1, <3>2
  <2> QED
    BY <1>7, <2>2, <2>3 DEF WriteSingleTransfer
<1>8. CASE WriteFrameTransfer
  <2>1. write_in_progress'
    BY <1>8 DEF WriteFrameTransfer, MarkWrite
  <2>2. PICK accepted \in 0..FrameSize(call.addr, Len(call.data)) :
          /\ IF accepted > 0
             THEN DeviceWrites(call.addr, SubSeq(call.data, 1, accepted))
             ELSE counter' = Cell(call.addr) /\ UNCHANGED <<mem, cycleLeft>>
          /\ IF accepted >= 1
             THEN pc' = "stamp" /\ UNCHANGED <<call, last, tracked>>
             ELSE Return("error")
    BY <1>8 DEF WriteFrameTransfer
  <2>3. CASE accepted = 0
    <3>1. counter' = Cell(call.addr) /\ Return("error") /\ UNCHANGED <<mem, cycleLeft>>
      BY <2>2, <2>3
    <3>2. TypeOK'
      BY <1>1, <1>3, <1>8, <3>1, ReturnType, CellType
         DEF TypeOK, WriteFrameTransfer, Results
    <3>3. BusyIsKnown'
      BY <1>1, <2>1, <3>1, ReturnType DEF BusyIsKnown, Results
    <3> QED
      BY <3>2, <3>3
  <2>4. CASE accepted # 0
    <3>1. /\ DeviceWrites(call.addr, SubSeq(call.data, 1, accepted))
          /\ pc' = "stamp"
          /\ UNCHANGED <<call, last, tracked>>
      BY <2>2, <2>4
    <3>2. SubSeq(call.data, 1, accepted) \in Seq(Byte)
      <4>1. call.addr \in Address /\ Len(call.data) \in Nat
        BY <1>1 DEF TypeOK, CallRecords
      <4>2. accepted \in 1..Len(call.data)
        BY <2>4, <4>1, FrameSizeType
      <4> QED
        BY <1>1, <4>2
    <3>3. /\ mem' \in [Cells -> Byte]
          /\ counter' \in Cells
          /\ cycleLeft' \in 0..MaxCycle
      <4>1. PICK f \in Seq(Byte) : DeviceWrites(call.addr, f)
        BY <3>1, <3>2
      <4> QED
        BY <1>1, <4>1, DeviceWritesType
    <3>4. TypeOK'
      BY <1>3, <1>8, <3>1, <3>3 DEF TypeOK, WriteFrameTransfer
    <3>5. BusyIsKnown'
      BY <2>1, <3>1 DEF BusyIsKnown
    <3> QED
      BY <3>4, <3>5
  <2> QED
    BY <2>3, <2>4
<1> QED
  BY <1>4, <1>5, <1>6, <1>7, <1>8

(* The steps after a transfer.                                             *)
LEMMA AfterTransferInv ==
  ASSUME IInv, StampSingle \/ StampFrame \/ WriteBytesReturns
  PROVE  IInv'
<1> USE DEF IInv
<1>1. /\ cycleLeft \in 0..MaxCycle
      /\ MaxCycle \in Nat
      /\ AddrSpace \in Nat
      /\ PageSize \in Nat
      /\ call.addr \in Address
      /\ call.addr \in Nat
      /\ call.len \in Nat
      /\ call.data \in Seq(Byte)
      /\ Len(call.data) \in Nat
  BY At24Assumption DEF TypeOK, Address, CallRecords
<1>2. \A a \in Nat : PageWrapped(a) \in Address
  <2> TAKE a \in Nat
  <2>1. u8(a) \in Address
    BY u8Type
  <2>2. u8(u8(a) - PageSize) \in Address
    <3>1. u8(a) - PageSize \in Int
      BY <1>1, <2>1 DEF Address
    <3> QED
      BY <3>1, u8Type
  <2> QED
    BY <2>1, <2>2 DEF PageWrapped
<1>3. 0 \in Elapsed
  BY <1>1 DEF Elapsed
<1>4. CASE StampSingle
  <2>1. PageWrapped(call.addr + 1) \in Address
    BY <1>1, <1>2
  <2>2. TypeOK'
    BY <1>3, <1>4, <2>1, ReturnType DEF TypeOK, StampSingle, Stamp, eeprom, Results
  <2>3. BusyIsKnown'
    BY <1>1, <1>4, ReturnType DEF BusyIsKnown, StampSingle, Stamp, eeprom, Results
  <2> QED
    BY <2>2, <2>3
<1>5. CASE StampFrame
  <2> DEFINE n == FrameSize(call.addr, Len(call.data))
  <2>1. n \in 0..Len(call.data)
    BY <1>1, FrameSizeType
  <2> HIDE DEF n
  <2>2. u8(call.addr + n) \in Address
    BY <1>1, <2>1, u8Type
  <2>3. SubSeq(call.data, n + 1, Len(call.data)) \in Seq(Byte)
    BY <1>1, <2>1
  <2>4. call' = [call EXCEPT !.addr = u8(call.addr + n),
                             !.data = SubSeq(call.data, n + 1, Len(call.data))]
    BY <1>5 DEF StampFrame, n
  <2>5. call' \in CallRecords
    BY <2>2, <2>3, <2>4 DEF TypeOK, CallRecords
  <2>6. TypeOK'
    BY <1>3, <1>5, <2>5 DEF TypeOK, StampFrame, Stamp, eeprom
  <2>7. BusyIsKnown'
    BY <1>1, <1>5 DEF BusyIsKnown, StampFrame, Stamp, eeprom
  <2> QED
    BY <2>6, <2>7
<1>6. CASE WriteBytesReturns
  <2>1. PageWrapped(call.addr + call.len) \in Address
    BY <1>1, <1>2
  <2>2. TypeOK'
    BY <1>6, <2>1, ReturnType DEF TypeOK, WriteBytesReturns, eeprom, Results
  <2>3. BusyIsKnown'
    BY <1>6, ReturnType DEF BusyIsKnown, WriteBytesReturns, eeprom, Results
  <2> QED
    BY <2>2, <2>3
<1> QED
  BY <1>4, <1>5, <1>6

(* Time passes for the driver's clock and the EEPROM alike, so the sum the *)
(* driver relies on never grows; a reset makes the driver forget, and init *)
(* will not succeed before the EEPROM is idle.                             *)
LEMMA EnvironmentInv ==
  ASSUME IInv, Tick \/ Reset
  PROVE  IInv'
<1> USE DEF IInv
<1>1. /\ cycleLeft \in 0..MaxCycle
      /\ elapsed \in -1..(MaxCycle + 1)
      /\ MaxCycle \in Nat
      /\ 0 \in Address
  BY At24Assumption DEF TypeOK, Elapsed, Address
<1>2. CASE Tick
  <2>1. cycleLeft' \in 0..MaxCycle /\ elapsed' \in Elapsed
    BY <1>1, <1>2 DEF Tick, Elapsed
  <2>2. TypeOK'
    BY <1>2, <2>1 DEF TypeOK, Tick, client
  <2>3. BusyIsKnown'
    BY <1>1, <1>2 DEF BusyIsKnown, Tick, client
  <2> QED
    BY <2>2, <2>3
<1>3. CASE Reset
  <2>1. elapsed' \in Elapsed
    BY <1>1, <1>3 DEF Reset, InitialElapsed, Elapsed
  <2>2. last' \in LastRecords /\ dest' \in Seq(Byte)
    BY <1>3 DEF Reset, NoResult, LastRecords, Results
  <2>3. call' \in CallRecords
    BY <1>3, NoCallType DEF Reset
  <2>4. TypeOK'
    BY <1>1, <1>3, <2>1, <2>2, <2>3 DEF TypeOK, Reset, eeprom
  <2>5. BusyIsKnown'
    BY <1>3 DEF BusyIsKnown, Reset
  <2> QED
    BY <2>4, <2>5
<1> QED
  BY <1>2, <1>3

(* Every step keeps IInv.                                                  *)
LEMMA StepInv ==
  ASSUME IInv, [Next]_vars
  PROVE  IInv'
<1>1. CASE Calls
  BY <1>1, CallsInv
<1>2. CASE Driver
  BY <1>2, CheckInv, TransferInv, AfterTransferInv DEF Driver
<1>3. CASE AckPoll
  BY <1>3, CheckInv
<1>4. CASE Tick \/ Reset
  BY <1>4, EnvironmentInv
<1>5. CASE UNCHANGED vars
  BY <1>5 DEF IInv, TypeOK, BusyIsKnown, vars, inst, eeprom, client
<1> QED
  BY <1>1, <1>2, <1>3, <1>4, <1>5 DEF Next

(* IInv holds in every state of every behaviour.                           *)
THEOREM Inductive == Spec => []IInv
BY InitIInv, StepInv, PTL DEF Spec

(* Whatever the client calls, the bus refuses and the microcontroller      *)
(* loses in a reset, the driver's and the EEPROM's variables keep their    *)
(* types: an address stays an address through the uint8_t arithmetic of    *)
(* src/at24cs0x.c, a cell a cell through the page and array wrap-around.   *)
THEOREM TypeCorrect == Spec => []TypeOK
BY Inductive, PTL DEF IInv

(* at24cs0x_check_write_in_progress lets no read or write onto the bus     *)
(* while the EEPROM is in a write cycle, whatever the cycle's length up to *)
(* AT24CS0X_MAX_WRITE_CYCLE_TIME_MS, and whatever last_write_time held     *)
(* before the first write.                                                 *)
THEOREM NeverBusy == Spec => []NeverAddressesBusyDevice
<1>1. IInv => NeverAddressesBusyDevice
  BY DEF IInv, BusyIsKnown, NeverAddressesBusyDevice
<1> QED
  BY Inductive, <1>1, PTL

---------------------------------------------------------------------------
(* The address copy                                                        *)

(* Where the counter of the EEPROM is, while a byte just written waits for *)
(* its time stamp, and what calls those steps belong to.                   *)
Tracks ==
  /\ AddressTracked
  /\ pc \in {"idle", "down"} => call = NoCall
  /\ call.op = "write_single_byte" => Len(call.data) = 1
  /\ pc = "stamp" /\ call.op = "write_single_byte" => counter = Landing(call.addr, 1)

(* An idle client is in no write.                                          *)
LEMMA NoCallTracks == NoCall.op # "write_bytes" /\ NoCall.op # "write_single_byte"
BY DEF NoCall

(* A call begins; init has set counter and copy to 0.                      *)
LEMMA CallsTrack ==
  ASSUME IInv, Tracks, Calls
  PROVE  Tracks'
<1>1. CASE at24cs0x_init
  <2>1. Cell(0) = 0
    BY Sizes, CellOfItself DEF Cells
  <2> QED BY <1>1, <2>1, NoCallTracks
          DEF at24cs0x_init, Tracks, AddressTracked, TrackedAfter, IInv, BusyIsKnown, inst, eeprom, Cell
<1>2. ASSUME NEW op, NEW a, NEW n, NEW d, Begin(op, a, n, d),
             op = "write_single_byte" => Len(d) = 1
      PROVE  Tracks'
  <2>1. /\ pc = "idle" /\ pc' = "check" /\ call'.op = op /\ call'.data = d
        /\ UNCHANGED <<current_address, counter, tracked>>
    BY <1>2 DEF Begin, inst, eeprom
  <2>2. call.op # "write_bytes"
    BY <2>1, NoCallTracks DEF Tracks
  <2> QED BY <1>2, <2>1, <2>2 DEF Tracks, AddressTracked, Cell
<1> QED BY <1>1, <1>2
        DEF Calls, at24cs0x_check_write_in_progress, at24cs0x_read_current_addr,
            at24cs0x_read_single_byte, at24cs0x_read_bytes, at24cs0x_write_single_byte,
            at24cs0x_write_bytes

(* What a call that fails, or that returns with counter and copy together, *)
(* leaves tracked.                                                         *)
LEMMA ReturnTracks ==
  ASSUME NEW r, Return(r),
         r = "error" \/ call.op = "write_bytes" \/ Cell(current_address') = counter'
  PROVE  Tracks'
<1>1. pc' = "idle" /\ call' = NoCall
  BY DEF Return
<1>2. r = "error" \/ call.op = "write_bytes" => ~tracked'
  <2>1. tracked' = TrackedAfter(call.op, r)
    BY DEF Return
  <2>2. CASE r = "error"
    BY <2>1, <2>2 DEF TrackedAfter
  <2>3. CASE r # "error" /\ call.op = "write_bytes"
    BY <2>1, <2>3 DEF TrackedAfter
  <2> QED BY <2>2, <2>3
<1> QED BY <1>1, <1>2, NoCallTracks DEF Tracks, AddressTracked, Cell

(* A check that found no write in progress, with the counter unmoved or    *)
(* moved to the copy by the ACK poll.                                      *)
LEMMA AnsweredTracks ==
  ASSUME Tracks, pc = "check", Answered0, current_address' = current_address,
         counter' \in {counter, Cell(current_address)}
  PROVE  Tracks'
<1>1. tracked /\ call.op # "write_bytes" => Cell(current_address') = counter'
  BY DEF Tracks, AddressTracked
<1>2. CASE call.op = "check"
  <2>1. Return("no")
    BY <1>2 DEF Answered0
  <2>2. tracked' => tracked
    BY <1>2, <2>1 DEF Return, TrackedAfter
  <2> QED BY <1>1, <1>2, <2>1, <2>2, NoCallTracks DEF Return, Tracks, AddressTracked, Cell
<1>3. CASE call.op # "check"
  BY <1>1, <1>3 DEF Answered0, Tracks, AddressTracked, Cell
<1> QED BY <1>2, <1>3

(* The check of a call keeps the address tracked: the ACK poll places the  *)
(* counter where the driver believes it.                                   *)
LEMMA CheckTracks ==
  ASSUME IInv, Tracks, NoWriteInProgress \/ CycleTimeReached \/ AckPoll
  PROVE  Tracks'
<1>1. CASE NoWriteInProgress \/ CycleTimeReached
  BY <1>1, AnsweredTracks DEF NoWriteInProgress, CycleTimeReached, AtCheck, inst, eeprom
<1>2. CASE AckPoll
  <2>1. pc = "check" /\ current_address' = current_address
    BY <1>2 DEF AckPoll, AtCheck
  <2>2. CASE counter' = Cell(current_address) /\ Answered0
    BY <2>1, <2>2, AnsweredTracks
  <2>3. CASE call.op = "check" /\ Return("yes") /\ counter' = counter
    <3>1. tracked' => tracked
      BY <2>3 DEF Return, TrackedAfter
    <3> QED BY <2>1, <2>3, <3>1, NoCallTracks DEF Return, Tracks, AddressTracked, Cell
  <2>4. CASE UNCHANGED <<pc, call, tracked, counter>>
    BY <2>1, <2>4 DEF Tracks, AddressTracked, Cell, Landing
  <2>5. CASE Return("error")
    BY <2>5, ReturnTracks
  <2> QED BY <1>2, <2>2, <2>3, <2>4, <2>5 DEF AckPoll
<1> QED BY <1>1, <1>2

(* A transfer places the counter, and the driver follows it.               *)
LEMMA TransferTracks ==
  ASSUME IInv, Tracks,
         \/ TransferRefused
         \/ ReadCurrentTransfer
         \/ ReadTransfer
         \/ WriteSingleTransfer
         \/ WriteFrameTransfer
  PROVE  Tracks'
<1>1. call.addr \in Int /\ call.len \in Int /\ current_address \in Int
  BY At24Assumption DEF IInv, TypeOK, CallRecords, Address
<1>2. CASE TransferRefused
  BY <1>2, ReturnTracks DEF TransferRefused
<1>3. CASE ReadCurrentTransfer
  <2>1. /\ pc = "transfer" /\ call.op = "read_current_addr" /\ Return("ok")
        /\ counter' = Cell(counter + 1) /\ current_address' = AfterRead(current_address, 1)
    BY <1>3 DEF ReadCurrentTransfer
  <2>2. tracked' => tracked
    BY <2>1 DEF Return, TrackedAfter
  <2>3. tracked => counter = Cell(current_address)
    BY <2>1 DEF Tracks, AddressTracked
  <2>4. Cell(AfterRead(current_address, 1)) = Cell(current_address + 1)
    BY <1>1, CellAfterRead
  <2>5. Cell(Cell(current_address) + 1) = Cell(current_address + 1)
    BY <1>1, CellOfSum
  <2>6. tracked' => Cell(current_address') = counter'
    BY <2>1, <2>2, <2>3, <2>4, <2>5
  <2> QED BY <2>1, <2>6, NoCallTracks DEF Return, Tracks, AddressTracked, Cell
<1>4. CASE ReadTransfer
  <2>1. Cell(AfterRead(call.addr, call.len)) = Cell(call.addr + call.len)
    BY <1>1, CellAfterRead
  <2> QED BY <1>4, <2>1, ReturnTracks DEF ReadTransfer
<1>5. CASE WriteSingleTransfer
  <2>1. CASE DeviceWrites(call.addr, call.data) /\ pc' = "stamp" /\ call' = call
    BY <1>5, <2>1 DEF WriteSingleTransfer, DeviceWrites, Tracks, AddressTracked, Landing, Cell
  <2>2. CASE Return("error")
    BY <2>2, ReturnTracks
  <2> QED BY <1>5, <2>1, <2>2 DEF WriteSingleTransfer
<1>6. CASE WriteFrameTransfer
  <2>1. CASE pc' = "stamp" /\ call' = call
    BY <1>6, <2>1 DEF WriteFrameTransfer, Tracks, AddressTracked
  <2>2. CASE Return("error")
    BY <2>2, ReturnTracks
  <2> QED BY <1>6, <2>1, <2>2 DEF WriteFrameTransfer
<1> QED BY <1>2, <1>3, <1>4, <1>5, <1>6

(* After the transfer of a write the driver moves to where the counter is, *)
(* at the end of a page too.                                               *)
LEMMA AfterTransferTracks ==
  ASSUME IInv, Tracks, StampSingle \/ StampFrame \/ WriteBytesReturns
  PROVE  Tracks'
<1>1. CASE StampSingle
  <2>1. /\ counter' = Landing(call.addr, 1) /\ current_address' = PageWrapped(call.addr + 1)
        /\ Return("ok")
    BY <1>1 DEF StampSingle, eeprom, Tracks
  <2>2. call.addr \in Nat
    BY At24Assumption DEF IInv, TypeOK, CallRecords, Address
  <2> QED BY <2>1, <2>2, CellPageWrapped, ReturnTracks
<1>2. CASE StampFrame
  <2>1. call.op = "write_bytes" /\ call'.op = call.op /\ pc' = "check"
    BY <1>2 DEF StampFrame, IInv, TypeOK, CallRecords
  <2> QED BY <2>1 DEF Tracks, AddressTracked
<1>3. CASE WriteBytesReturns
  BY <1>3, ReturnTracks DEF WriteBytesReturns
<1> QED BY <1>1, <1>2, <1>3

(* Time and a reset of the microcontroller leave the counter alone.        *)
LEMMA EnvironmentTracks ==
  ASSUME Tracks, Tick \/ Reset \/ UNCHANGED vars
  PROVE  Tracks'
BY NoCallTracks DEF Tick, Reset, vars, inst, eeprom, client, Tracks, AddressTracked, Cell, Landing

(* The driver's copy of the EEPROM's address counter is right, through     *)
(* page and array ends, wherever the header has the instance hold it.      *)
THEOREM AddressIsTracked == Spec => []AddressTracked
<1>1. Init => Tracks
  BY NoCallTracks DEF Init, Tracks, AddressTracked
<1>2. IInv /\ Tracks /\ [Next]_vars => Tracks'
  BY CallsTrack, CheckTracks, TransferTracks, AfterTransferTracks, EnvironmentTracks
     DEF Next, Driver
<1>3. Tracks => AddressTracked
  BY DEF Tracks
<1> QED
  BY Inductive, <1>1, <1>2, <1>3, PTL DEF Spec

---------------------------------------------------------------------------
(* What the arguments of a call look like                                  *)

Writes == {"write_single_byte", "write_bytes"}

(* What the arguments of a call look like at each of its steps.            *)
CallShape ==
  /\ pc \in {"idle", "down"} => call = NoCall
  /\ call.op \notin Writes => call.data = <<>>
  /\ call.op = "write_single_byte" => Len(call.data) = 1
  /\ Len(call.data) <= AddrSpace
  /\ pc = "transfer" /\ call.op \in Writes => call.data # <<>>
  /\ pc = "stamp" => call.op \in Writes /\ call.data # <<>>
  /\ KindOf(call.op) = "read" => call.len \in 0..AddrSpace
  /\ InCall => dest = <<>>

(* An idle client's call record.                                           *)
LEMMA NoCallShape ==
  /\ NoCall.op = "none" /\ NoCall.data = <<>> /\ Len(NoCall.data) = 0
  /\ NoCall.addr = 0 /\ NoCall.len = 0 /\ KindOf(NoCall.op) = "other"
BY DEF NoCall, KindOf

---------------------------------------------------------------------------
(* CallShape is invariant                                                  *)

(* A call with arguments in shape begins.                                  *)
LEMMA BeginShape ==
  ASSUME NEW op, NEW a, NEW n, NEW d, Begin(op, a, n, d),
         op \notin Writes => d = <<>>,
         op = "write_single_byte" => Len(d) = 1,
         Len(d) <= AddrSpace,
         KindOf(op) = "read" => n \in 0..AddrSpace
  PROVE  CallShape'
<1>1. /\ pc' = "check" /\ dest' = <<>>
      /\ call' = [op |-> op, addr |-> a, len |-> n, data |-> d]
  BY DEF Begin
<1> QED BY <1>1 DEF CallShape

(* Calls begin in shape.                                                   *)
LEMMA CallsShape ==
  ASSUME IInv, CallShape, Calls
  PROVE  CallShape'
<1>1. MaxLen \in Nat /\ MaxLen < AddrSpace /\ AddrSpace \in Nat
  BY At24Assumption
<1>2. CASE at24cs0x_init
  BY <1>1, <1>2, NoCallShape DEF at24cs0x_init, CallShape, inst, eeprom, InCall, IInv, TypeOK
<1>3. ASSUME NEW op, NEW a, NEW n, NEW d, Begin(op, a, n, d),
             op \notin Writes => d = <<>>,
             op = "write_single_byte" => Len(d) = 1,
             Len(d) <= AddrSpace,
             KindOf(op) = "read" => n \in 0..AddrSpace
      PROVE  CallShape'
  BY <1>3, BeginShape
<1>4. KindOf("check") = "other" /\ KindOf("read_current_addr") = "other"
      /\ KindOf("write_single_byte") = "write" /\ KindOf("write_bytes") = "write"
  BY DEF KindOf
<1>5. Len(<<>>) = 0 /\ 0 <= AddrSpace /\ 1 \in 0..AddrSpace
  BY <1>1, At24Assumption
<1>6. CASE at24cs0x_check_write_in_progress
  BY <1>3, <1>4, <1>5, <1>6 DEF at24cs0x_check_write_in_progress
<1>7. CASE at24cs0x_read_current_addr
  BY <1>3, <1>4, <1>5, <1>7 DEF at24cs0x_read_current_addr
<1>8. CASE at24cs0x_read_single_byte
  <2>1. PICK a \in Address : Begin("read_single_byte", a, 1, <<>>)
    BY <1>8 DEF at24cs0x_read_single_byte
  <2> QED BY <1>3, <1>5, <2>1
<1>9. CASE at24cs0x_read_bytes
  <2>1. PICK a \in Address, n \in 0..MaxLen : Begin("read_bytes", a, n, <<>>)
    BY <1>9 DEF at24cs0x_read_bytes
  <2>2. n \in 0..AddrSpace
    BY <1>1
  <2> QED BY <1>3, <1>5, <2>1, <2>2
<1>10. CASE at24cs0x_write_single_byte
  <2>1. PICK a \in Address, b \in Byte : Begin("write_single_byte", a, 1, <<b>>)
    BY <1>10 DEF at24cs0x_write_single_byte
  <2>2. Len(<<b>>) = 1 /\ 1 <= AddrSpace
    BY <1>1
  <2>3. "write_single_byte" \in Writes
    BY DEF Writes
  <2> QED BY <1>3, <1>4, <2>1, <2>2, <2>3
<1>11. CASE at24cs0x_write_bytes
  <2>1. PICK a \in Address, d \in Buffers : Begin("write_bytes", a, Len(d), d)
    BY <1>11 DEF at24cs0x_write_bytes
  <2>2. PICK n \in 0..MaxLen : d \in [1..n -> Byte]
    BY DEF Buffers
  <2>3. Len(d) <= AddrSpace
    BY <1>1, <2>2
  <2>4. "write_bytes" \in Writes /\ "write_bytes" # "write_single_byte"
    BY DEF Writes
  <2> QED BY <1>3, <1>4, <2>1, <2>3, <2>4
<1> QED
  BY <1>2, <1>6, <1>7, <1>8, <1>9, <1>10, <1>11 DEF Calls

(* The driver's steps keep it.                                             *)
LEMMA StepsShape ==
  ASSUME IInv, CallShape, Driver \/ AckPoll
  PROVE  CallShape'
<1>1. ASSUME NEW r, Return(r)
      PROVE  CallShape'
  <2>1. pc' = "idle" /\ call' = NoCall
    BY <1>1 DEF Return
  <2> QED BY <2>1, NoCallShape, At24Assumption DEF CallShape, InCall, Writes
<1>2. ASSUME AtCheck, Answered0, UNCHANGED dest
      PROVE  CallShape'
  <2>1. CASE call.op = "check"
    BY <1>1, <1>2, <2>1 DEF Answered0
  <2>2. CASE call.op # "check"
    <3>1. pc = "check" /\ pc' = "transfer" /\ call' = call /\ dest' = dest
      BY <1>2, <2>2 DEF Answered0, AtCheck
    <3>2. call.op = "write_bytes" => call.data # <<>>
      BY <1>2 DEF AtCheck
    <3>3. call.op = "write_single_byte" => call.data # <<>>
      <4> SUFFICES ASSUME call.op = "write_single_byte", call.data = <<>>
                   PROVE  FALSE
        OBVIOUS
      <4>1. Len(<<>>) = 0
        OBVIOUS
      <4>2. Len(call.data) = 1
        BY DEF CallShape
      <4> QED BY <4>1, <4>2
    <3> QED BY <3>1, <3>2, <3>3 DEF CallShape, InCall, Writes
  <2> QED BY <2>1, <2>2
<1>3. CASE NoWriteInProgress \/ CycleTimeReached
  BY <1>2, <1>3 DEF NoWriteInProgress, CycleTimeReached
<1>4. CASE AckPoll
  BY <1>1, <1>2, <1>4 DEF AckPoll, AtCheck, CallShape, InCall
<1>5. CASE TransferRefused \/ ReadCurrentTransfer \/ ReadTransfer \/ StampSingle \/ WriteBytesReturns
  BY <1>1, <1>5 DEF TransferRefused, ReadCurrentTransfer, ReadTransfer, StampSingle, WriteBytesReturns
<1>6. CASE WriteSingleTransfer \/ WriteFrameTransfer
  BY <1>1, <1>6 DEF WriteSingleTransfer, WriteFrameTransfer, CallShape, InCall, Writes
<1>7. CASE StampFrame
  <2> DEFINE n == FrameSize(call.addr, Len(call.data))
  <2>1. /\ call.data \in Seq(Byte) /\ call.addr \in Address /\ Len(call.data) \in Nat
        /\ AddrSpace \in Nat /\ call \in CallRecords
    BY At24Assumption DEF IInv, TypeOK, CallRecords
  <2>2. n \in 0..Len(call.data)
    BY <2>1, FrameSizeType
  <2> HIDE DEF n
  <2>3. /\ call'.op = "write_bytes" /\ pc' = "check" /\ dest' = dest
        /\ call'.data = SubSeq(call.data, n + 1, Len(call.data))
    BY <1>7, <2>1 DEF StampFrame, n, CallRecords
  <2>4. Len(call'.data) <= Len(call.data)
    BY <2>1, <2>2, <2>3
  <2>5. Len(call'.data) \in Nat
    BY <2>1, <2>2, <2>3
  <2>6. Len(call'.data) <= AddrSpace
    BY <2>1, <2>4, <2>5 DEF CallShape
  <2>7. KindOf(call'.op) # "read" /\ call'.op \in Writes /\ call'.op # "write_single_byte"
    BY <2>3 DEF KindOf, Writes
  <2>8. dest = <<>>
    BY <1>7 DEF StampFrame, CallShape, InCall
  <2>9. KindOf(call.op)' = KindOf(call'.op)
    BY DEF KindOf
  <2> QED BY <2>3, <2>6, <2>7, <2>8, <2>9 DEF CallShape, InCall
<1> QED BY <1>3, <1>4, <1>5, <1>6, <1>7 DEF Driver

(* Every step keeps it.                                                    *)
LEMMA StepShape ==
  ASSUME IInv, CallShape, [Next]_vars
  PROVE  CallShape'
<1>1. CASE Tick \/ Reset \/ UNCHANGED vars
  BY <1>1, NoCallShape, At24Assumption
     DEF Tick, Reset, vars, inst, eeprom, client, CallShape, InCall, Writes
<1> QED BY <1>1, CallsShape, StepsShape DEF Next

(* An idle client has no call in the wrong shape.                          *)
LEMMA InitShape == Init => CallShape
BY NoCallShape, At24Assumption DEF Init, CallShape, InCall, Writes

---------------------------------------------------------------------------
(* The client's request and its status                                     *)

StoreState == <<mem, Request, Status, dest>>

(* A sequence of bytes that the address space holds is a string.           *)
LEMMA StringsType ==
  ASSUME NEW d \in Seq(Byte), Len(d) <= AddrSpace
  PROVE  d \in Store!Strings
<1>1. Len(d) \in 0..AddrSpace /\ d \in [1..Len(d) -> Byte]
  BY At24Assumption
<1> QED BY <1>1 DEF Store!Strings

(* The store's cells are the EEPROM's.                                     *)
LEMMA CellsAreTheRing == Store!Ring = Cells
BY DEF Store!Ring, Cells

(* Before and after a step of no frame, the request is the call's.         *)
LEMMA RequestOfCall ==
  ASSUME NEW c \in CallRecords
  PROVE  /\ Cell(c.addr + 0) = Cell(c.addr)
         /\ SubSeq(c.data, 0 + 1, Len(c.data)) = c.data
<1>1. c.addr \in Int /\ c.data \in Seq(Byte)
  BY At24Assumption DEF CallRecords, Address
<1>2. c.addr + 0 = c.addr /\ 0 + 1 = 1
  BY <1>1
<1> QED BY <1>1, <1>2, SubSeqFull

(* The request the store has pending, from the call.                       *)
LEMMA RequestIs ==
  ASSUME TypeOK, pc # "stamp"
  PROVE  Request = [kind |-> KindOf(call.op), at |-> Cell(call.addr), bytes |-> call.data,
                    len |-> IF KindOf(call.op) = "read" THEN call.len ELSE 0]
<1>1. call \in CallRecords
  BY DEF TypeOK
<1>2. FrameInFlight = 0
  BY DEF FrameInFlight
<1> QED BY <1>1, <1>2, RequestOfCall DEF Request

(* And after a step.                                                       *)
LEMMA RequestWillBe ==
  ASSUME TypeOK', pc' # "stamp"
  PROVE  Request' = [kind |-> KindOf(call'.op), at |-> Cell(call'.addr), bytes |-> call'.data,
                     len |-> IF KindOf(call'.op) = "read" THEN call'.len ELSE 0]
<1>1. call' \in CallRecords
  BY DEF TypeOK
<1>2. FrameInFlight' = 0
  BY DEF FrameInFlight
<1>3. KindOf(call.op)' = KindOf(call'.op)
  BY DEF KindOf
<1>4. Request' = [kind |-> KindOf(call'.op), at |-> Cell(call'.addr + 0),
                  bytes |-> SubSeq(call'.data, 0 + 1, Len(call'.data)),
                  len |-> IF KindOf(call'.op) = "read" THEN call'.len ELSE 0]
  BY <1>2, <1>3 DEF Request, Cell
<1> QED BY <1>1, <1>4, RequestOfCall

(* No request is left between two calls.                                   *)
LEMMA NoRequest ==
  [kind |-> KindOf(NoCall.op), at |-> Cell(NoCall.addr), bytes |-> NoCall.data,
   len |-> IF KindOf(NoCall.op) = "read" THEN NoCall.len ELSE 0] = Store!None
<1>1. Cell(0) = 0
  <2>1. 0 \in Cells
    BY Sizes DEF Cells
  <2> QED BY <2>1, CellOfItself
<1> QED BY <1>1, NoCallShape DEF Store!None

(* A call that returns has no request left, and its status says how.       *)
LEMMA ReturnEnds ==
  ASSUME TypeOK', NEW r, Return(r)
  PROVE  /\ Request' = Store!None
         /\ r \in {"ok", "yes", "no"} => Status' = "ok"
         /\ r = "error" => Status' = "failed"
<1>1. pc' = "idle" /\ call' = NoCall /\ last'.ret = r
  BY DEF Return
<1>2. Request' = Store!None
  BY <1>1, RequestWillBe, NoRequest
<1>3. Status' = IF r \in {"ok", "yes", "no"} THEN "ok" ELSE "failed"
  BY <1>1 DEF Status, InCall
<1> QED BY <1>2, <1>3

(* A call that fails, or a reset, gives up.                                *)
LEMMA FailureGivesUp ==
  ASSUME TypeOK', CallShape, Return("error"), InCall, UNCHANGED <<mem, dest>>
  PROVE  Store!GiveUp
<1>1. dest' = <<>>
  BY DEF CallShape
<1>2. Request' = Store!None /\ Status' = "failed"
  BY ReturnEnds
<1> QED BY <1>1, <1>2 DEF Store!GiveUp

(* A call that delivers nothing of its own succeeds.                       *)
LEMMA OtherSucceeds ==
  ASSUME TypeOK, TypeOK', CallShape, NEW r \in {"ok", "yes", "no"}, Return(r),
         pc \in {"check", "transfer"}, KindOf(call.op) = "other",
         mem' = mem, dest' \in Store!Strings
  PROVE  Store!Succeed
<1>1. Request.kind = "other" /\ Request.bytes = <<>>
  <2>1. call.data = <<>>
    BY DEF CallShape, KindOf, Writes
  <2> QED BY <2>1, RequestIs
<1>2. Request' = Store!None /\ Status' = "ok"
  BY ReturnEnds
<1>3. Status = "pending"
  BY DEF Status, InCall
<1> QED BY <1>1, <1>2, <1>3 DEF Store!Succeed

(* A write of which nothing is left to store succeeds.                     *)
LEMMA WriteSucceeds ==
  ASSUME TypeOK', Return("ok"), InCall, KindOf(call.op) = "write",
         Request.bytes = <<>>, mem' = mem, dest' = dest
  PROVE  Store!Succeed
<1>1. Request.kind = "write"
  BY DEF Request
<1>2. Request' = Store!None /\ Status' = "ok"
  BY ReturnEnds
<1>3. Status = "pending"
  BY DEF Status
<1> QED BY <1>1, <1>2, <1>3 DEF Store!Succeed

---------------------------------------------------------------------------
(* What a frame leaves in the EEPROM                                       *)

(* A frame ends where its page does, or before.                            *)
LEMMA FrameFits ==
  ASSUME NEW a \in Address, NEW r \in Nat
  PROVE  (a % PageSize) + FrameSize(a, r) <= PageSize
<1>1. PageSize \in Nat \ {0} /\ a \in Nat /\ a % PageSize \in 0..(PageSize - 1)
  BY At24Assumption, ModRange DEF Address
<1> QED BY <1>1 DEF FrameSize

(* A page is part of the array.                                            *)
LEMMA PageWithinArray == PageSize <= MemSize
BY Sizes, DivisorBelow

(* So it is stored byte by byte from its address on.                       *)
LEMMA FrameIsStored ==
  ASSUME NEW m, NEW a \in Address, NEW f \in Seq(Byte), (a % PageSize) + Len(f) <= PageSize
  PROVE  Programmed(m, a, f) = Store!Overlay(m, Cell(a), f)
<1> DEFINE At(k) == (Cell(a) + k - 1) % MemSize
<1>0. a \in Nat /\ a \in Int /\ Cell(a) \in Int /\ a % PageSize \in 0..(PageSize - 1)
  <2>1. a \in Nat /\ a \in Int
    BY Sizes DEF Address
  <2>2. Cell(a) \in Int
    BY <2>1, Sizes, CellType DEF Cells
  <2> QED BY <2>1, <2>2, Sizes, ModRange
<1>1. ASSUME NEW k \in DOMAIN f
      PROVE  Landing(a, k - 1) = Cell(a) + k - 1 /\ At(k) = Landing(a, k - 1)
  <2>1. /\ k \in 1..Len(f) /\ k - 1 \in Nat /\ a \in Nat /\ k \in Int /\ k - 1 \in Int
        /\ Cell(a) \in Int /\ a % PageSize \in 0..(PageSize - 1)
    BY <1>0
  <2>2. (a % PageSize) + (k - 1) < PageSize /\ (a % PageSize) + (k - 1) <= PageSize
    BY <2>1, Sizes
  <2>3. Landing(a, k - 1) = Cell(a) + (k - 1)
    BY <2>1, <2>2, LandingInPage
  <2>4. Landing(a, k - 1) \in Cells
    BY <2>1, LandingType
  <2>5. Cell(a) + (k - 1) = Cell(a) + k - 1
    BY <2>1
  <2>6. Cell(Landing(a, k - 1)) = Landing(a, k - 1)
    BY <2>4, CellOfItself
  <2>7. At(k) = Cell(Cell(a) + k - 1)
    BY DEF Cell
  <2> QED BY <2>3, <2>5, <2>6, <2>7
<1>2. ASSUME NEW k \in DOMAIN f, NEW j \in DOMAIN f, Landing(a, k - 1) = Landing(a, j - 1)
      PROVE  k = j
  <2>1. k \in Int /\ j \in Int /\ Cell(a) \in Int
    BY <1>0
  <2>2. Cell(a) + k - 1 = Cell(a) + j - 1
    BY <1>1, <1>2
  <2> QED BY <2>1, <2>2
<1> HIDE DEF At
<1>3. ASSUME NEW c \in Cells
      PROVE  (IF \E k \in DOMAIN f : Landing(a, k - 1) = c
              THEN f[CHOOSE k \in DOMAIN f : Landing(a, k - 1) = c] ELSE m[c])
           = (IF \E k \in DOMAIN f : At(k) = c
              THEN f[CHOOSE k \in DOMAIN f : At(k) = c] ELSE m[c])
  <2>1. (\E k \in DOMAIN f : Landing(a, k - 1) = c) <=> (\E k \in DOMAIN f : At(k) = c)
    BY <1>1
  <2>2. CASE \E k \in DOMAIN f : Landing(a, k - 1) = c
    <3> DEFINE x == CHOOSE k \in DOMAIN f : Landing(a, k - 1) = c
               y == CHOOSE k \in DOMAIN f : At(k) = c
    <3>1. x \in DOMAIN f /\ Landing(a, x - 1) = c
      BY <2>2
    <3>2. y \in DOMAIN f /\ At(y) = c
      BY <2>1, <2>2
    <3> HIDE DEF x, y
    <3>3. x = y
      BY <1>1, <1>2, <3>1, <3>2
    <3> QED BY <2>1, <2>2, <3>3 DEF x, y
  <2> QED BY <2>1, <2>2
<1> QED BY <1>3, CellsAreTheRing DEF Programmed, Store!Overlay, At

---------------------------------------------------------------------------
(* The steps                                                               *)

(* Both invariants, before and after a step.                               *)
Invariant == IInv /\ CallShape

(* They hold first and are kept.                                           *)
LEMMA InvariantHolds ==
  /\ Init => Invariant
  /\ Invariant /\ [Next]_vars => Invariant'
BY InitIInv, StepInv, InitShape, StepShape DEF Invariant

(* A call that begins is a request to the store.                           *)
LEMMA BeginImplements ==
  ASSUME Invariant, Invariant', NEW op, NEW a, NEW n, NEW d, Begin(op, a, n, d)
  PROVE  Store!Begin
<1>1. /\ pc = "idle" /\ pc' = "check" /\ mem' = mem /\ dest' = <<>>
      /\ TypeOK' /\ CallShape' /\ call' \in CallRecords
  BY DEF Begin, eeprom, Invariant, IInv, TypeOK
<1>2. Status # "pending" /\ Status' = "pending"
  BY <1>1 DEF Status, InCall
<1>3. Request' = [kind |-> KindOf(call'.op), at |-> Cell(call'.addr), bytes |-> call'.data,
                  len |-> IF KindOf(call'.op) = "read" THEN call'.len ELSE 0]
  BY <1>1, RequestWillBe
<1>4. /\ call'.data \in Store!Strings
      /\ Cell(call'.addr) \in Store!Ring
  <2>1. /\ call'.data \in Seq(Byte) /\ call'.addr \in Int
        /\ Len(call'.data) <= AddrSpace
    BY <1>1, Sizes DEF CallRecords, Address, CallShape
  <2> QED BY <2>1, StringsType, CellType, CellsAreTheRing
<1>5. KindOf(call.op)' = KindOf(call'.op)
  BY DEF KindOf
<1>6. CASE KindOf(call'.op) = "read"
  <2>1. call'.len \in 0..AddrSpace /\ call'.data = <<>>
    BY <1>1, <1>5, <1>6 DEF CallShape, KindOf, Writes
  <2> QED BY <1>1, <1>2, <1>3, <1>4, <1>6, <2>1 DEF Store!Begin, Store!Requests
<1>7. CASE KindOf(call'.op) # "read"
  <2>1. KindOf(call'.op) \in {"write", "other"}
    BY <1>7 DEF KindOf
  <2> QED BY <1>1, <1>2, <1>3, <1>4, <1>7, <2>1 DEF Store!Begin, Store!Requests
<1> QED BY <1>6, <1>7

(* Every call is a request or a stutter.                                   *)
LEMMA CallsImplement ==
  ASSUME Invariant, Invariant', Calls
  PROVE  Store!Next
<1>1. ASSUME NEW op, NEW a, NEW n, NEW d, Begin(op, a, n, d)
      PROVE  Store!Next
  BY <1>1, BeginImplements DEF Store!Next
<1>2. CASE at24cs0x_init
  <2>1. /\ pc \in {"down", "idle"} /\ pc' \in {"down", "idle"} /\ call' = call /\ mem' = mem
        /\ dest' = <<>> /\ TypeOK /\ TypeOK'
    BY <1>2 DEF at24cs0x_init, eeprom, Invariant, IInv
  <2>2. Request' = Request
    BY <2>1, RequestIs, RequestWillBe
  <2>3. Status # "pending" /\ Status' \in {"ok", "failed"}
    BY <2>1 DEF Status, InCall
  <2> QED BY <2>1, <2>2, <2>3 DEF Store!Next, Store!Restart
<1> QED
  BY <1>1, <1>2
     DEF Calls, at24cs0x_check_write_in_progress, at24cs0x_read_current_addr,
         at24cs0x_read_single_byte, at24cs0x_read_bytes, at24cs0x_write_single_byte,
         at24cs0x_write_bytes

(* Steps that are invisible to the client.                                 *)
LEMMA Invisible ==
  ASSUME Invariant, Invariant', pc \in {"check", "transfer"}, pc' \in {"check", "transfer"},
         call' = call, mem' = mem, dest' = dest
  PROVE  UNCHANGED StoreState
<1>1. TypeOK /\ TypeOK'
  BY DEF Invariant, IInv
<1>2. Request' = Request
  BY <1>1, RequestIs, RequestWillBe
<1>3. Status' = Status
  BY DEF Status, InCall
<1> QED BY <1>2, <1>3 DEF StoreState

(* The check before a transfer is a call of its own or invisible.          *)
LEMMA ChecksImplement ==
  ASSUME Invariant, Invariant', NoWriteInProgress \/ CycleTimeReached \/ AckPoll
  PROVE  Store!Next \/ UNCHANGED StoreState
<1>1. /\ pc = "check" /\ mem' = mem /\ dest' = dest /\ TypeOK /\ TypeOK' /\ CallShape
      /\ InCall
  BY DEF NoWriteInProgress, CycleTimeReached, AckPoll, AtCheck, eeprom, Invariant, IInv, InCall
<1>2. ASSUME NEW r \in {"yes", "no"}, call.op = "check", Return(r)
      PROVE  Store!Next
  <2>1. KindOf(call.op) = "other"
    BY <1>2 DEF KindOf
  <2>2. dest' \in Store!Strings
    <3>1. dest' = <<>> /\ <<>> \in Seq(Byte) /\ Len(<<>>) <= AddrSpace
      BY <1>1, Sizes DEF CallShape
    <3> QED BY <3>1, StringsType
  <2>3. Store!Succeed
    BY <1>1, <1>2, <2>1, <2>2, OtherSucceeds
  <2> QED BY <2>3 DEF Store!Next
<1>3. ASSUME Answered0
      PROVE  Store!Next \/ UNCHANGED StoreState
  <2>1. CASE call.op = "check"
    BY <1>2, <1>3, <2>1 DEF Answered0
  <2>2. CASE call.op # "check"
    <3>1. pc' = "transfer" /\ call' = call
      BY <1>3, <2>2 DEF Answered0
    <3> QED BY <1>1, <3>1, Invisible
  <2> QED BY <2>1, <2>2
<1>4. ASSUME Return("error")
      PROVE  Store!Next
  BY <1>1, <1>4, FailureGivesUp DEF Store!Next
<1>5. CASE NoWriteInProgress \/ CycleTimeReached
  BY <1>3, <1>5 DEF NoWriteInProgress, CycleTimeReached
<1>6. CASE AckPoll
  <2>1. CASE Answered0
    BY <1>3, <2>1
  <2>2. CASE call.op = "check" /\ Return("yes")
    BY <1>2, <2>2
  <2>3. CASE Return("error")
    BY <1>4, <2>3
  <2>4. CASE UNCHANGED <<pc, call>>
    BY <1>1, <2>4, Invisible
  <2> QED BY <1>6, <2>1, <2>2, <2>3, <2>4 DEF AckPoll
<1> QED BY <1>5, <1>6

(* A read of the EEPROM delivers what the ring holds.                      *)
LEMMA ReadsImplement ==
  ASSUME Invariant, Invariant', ReadCurrentTransfer \/ ReadTransfer
  PROVE  Store!Next
<1>1. /\ pc = "transfer" /\ mem' = mem /\ TypeOK /\ TypeOK' /\ CallShape
      /\ InCall /\ call \in CallRecords
  BY DEF ReadCurrentTransfer, ReadTransfer, Invariant, IInv, InCall, TypeOK
<1>2. CASE ReadCurrentTransfer
  <2>1. KindOf(call.op) = "other"
    BY <1>2 DEF ReadCurrentTransfer, KindOf
  <2>2. dest' \in Store!Strings
    <3>1. dest' = DeviceReads(counter, 1) /\ dest' \in Seq(Byte)
      BY <1>1, <1>2 DEF ReadCurrentTransfer, TypeOK
    <3>2. Len(dest') = 1
      BY <3>1 DEF DeviceReads
    <3>3. Len(dest') <= AddrSpace
      BY <3>2, Sizes
    <3> QED BY <3>1, <3>3, StringsType
  <2>3. Return("ok")
    BY <1>2 DEF ReadCurrentTransfer
  <2>4. Store!Succeed
    BY <1>1, <2>1, <2>2, <2>3, OtherSucceeds
  <2> QED BY <2>4 DEF Store!Next
<1>3. CASE ReadTransfer
  <2>1. CASE dest' = DeviceReads(call.addr, call.len) /\ Return("ok")
    <3>1. KindOf(call.op) = "read" /\ call.op \notin Writes
      BY <1>3 DEF ReadTransfer, KindOf, Writes
    <3>2. /\ Request.kind = "read" /\ Request.bytes = <<>> /\ Request.len = call.len
          /\ Request.at = Cell(call.addr)
      BY <1>1, <3>1, RequestIs DEF CallShape
    <3>3. Request' = Store!None /\ Status' = "ok"
      BY <1>1, <2>1, ReturnEnds
    <3>4. Status = "pending"
      BY <1>1 DEF Status
    <3>5. call.addr \in Int /\ call.len \in Nat
      BY <1>1, Sizes DEF CallRecords, Address
    <3>6. ASSUME NEW k \in 1..call.len
          PROVE  Cell(call.addr + k - 1) = (Cell(call.addr) + k - 1) % MemSize
      <4>1. /\ k - 1 \in Int /\ call.addr + k - 1 = call.addr + (k - 1)
            /\ Cell(call.addr) \in Int
        BY <3>5, Sizes, CellType DEF Cells
      <4>2. Cell(Cell(call.addr) + (k - 1)) = Cell(call.addr + (k - 1))
        BY <3>5, <4>1, CellOfSum
      <4>3. Cell(call.addr) + (k - 1) = Cell(call.addr) + k - 1
        BY <4>1
      <4>4. Cell(Cell(call.addr) + k - 1) = (Cell(call.addr) + k - 1) % MemSize
        BY DEF Cell
      <4> QED BY <4>1, <4>2, <4>3, <4>4
    <3>7. dest' = [k \in 1..Request.len |-> mem[(Request.at + k - 1) % MemSize]]
      BY <2>1, <3>2, <3>6 DEF DeviceReads
    <3> QED BY <1>1, <3>2, <3>3, <3>4, <3>7 DEF Store!Next, Store!Succeed
  <2>2. CASE Return("error") /\ dest' = dest
    BY <1>1, <2>2, FailureGivesUp DEF Store!Next
  <2> QED BY <1>3, <2>1, <2>2 DEF ReadTransfer
<1> QED BY <1>2, <1>3

(* A frame that is transferred whole is a piece stored.                    *)
LEMMA FrameImplements ==
  ASSUME Invariant, Invariant', pc = "transfer", pc' = "stamp", call.op \in Writes,
         call' = call, dest' = dest,
         DeviceWrites(call.addr, SubSeq(call.data, 1, FrameSize(call.addr, Len(call.data))))
  PROVE  Store!StorePiece
<1> DEFINE a == call.addr
           d == call.data
           n == FrameSize(a, Len(d))
<1>1. /\ TypeOK /\ TypeOK' /\ a \in Address /\ a \in Int /\ d \in Seq(Byte) /\ d # <<>>
      /\ Len(d) \in Nat /\ Len(d) > 0
  BY Sizes DEF Invariant, IInv, TypeOK, CallRecords, CallShape, Address
<1>2. n \in 1..Len(d) /\ n \in Int
  BY <1>1, FrameSizeType
<1>3. (a % PageSize) + n <= PageSize
  BY <1>1, FrameFits
<1>4. n <= MemSize
  <2>1. a % PageSize \in 0..(PageSize - 1)
    BY <1>1, Sizes, ModRange
  <2> QED BY <1>2, <1>3, <2>1, PageWithinArray, Sizes
<1>5. mem' = Programmed(mem, a, SubSeq(d, 1, n))
  BY DEF DeviceWrites
<1>6. KindOf(call.op) = "write"
  BY DEF KindOf, Writes
<1>7. Request = [kind |-> "write", at |-> Cell(a), bytes |-> d, len |-> 0]
  BY <1>1, <1>6, RequestIs
<1>8. Request' = [kind |-> "write", at |-> Cell(a + n),
                  bytes |-> SubSeq(d, n + 1, Len(d)), len |-> 0]
  BY <1>6 DEF Request, FrameInFlight, Cell, KindOf, FrameSize
<1>9. Status = "pending" /\ Status' = "pending"
  BY DEF Status, InCall
<1> HIDE DEF n
<1>10. SubSeq(d, 1, n) \in Seq(Byte) /\ Len(SubSeq(d, 1, n)) = n
  BY <1>1, <1>2
<1>11. mem' = Store!Overlay(mem, Request.at, SubSeq(Request.bytes, 1, n))
  BY <1>1, <1>3, <1>5, <1>7, <1>10, FrameIsStored
<1>12. Cell(a + n) = (Request.at + n) % MemSize
  BY <1>1, <1>2, <1>7, CellOfSum DEF Cell
<1> HIDE DEF a, d
<1>13. Request' = [Request EXCEPT !.at = (Request.at + n) % MemSize,
                                  !.bytes = SubSeq(Request.bytes, n + 1, Len(Request.bytes))]
  <2> DEFINE y == (Request.at + n) % MemSize
             c == SubSeq(Request.bytes, n + 1, Len(Request.bytes))
             x == Cell(a)
  <2>1. y = Cell(a + n) /\ c = SubSeq(d, n + 1, Len(d))
    BY <1>7, <1>12
  <2> DEFINE R == Request
             Q == Request'
  <2> HIDE DEF y, c, x
  <2>2. Q = [kind |-> "write", at |-> y, bytes |-> c, len |-> 0]
    BY <1>8, <2>1
  <2>3. R = [kind |-> "write", at |-> x, bytes |-> d, len |-> 0]
    BY <1>7 DEF x
  <2> HIDE DEF R, Q
  <2>4. R \in [kind : {"write"}, at : {x}, bytes : {d}, len : {0}]
    BY <2>3
  <2>5. Q \in [kind : {"write"}, at : {y}, bytes : {c}, len : {0}]
    BY <2>2
  <2>6. Q = [R EXCEPT !.at = y, !.bytes = c]
    BY <2>4, <2>5
  <2> QED BY <2>6 DEF R, Q, y, c
<1>14. n \in 1..Len(Request.bytes)
  BY <1>2, <1>7
<1> QED
  BY <1>4, <1>7, <1>9, <1>11, <1>13, <1>14 DEF Store!StorePiece

(* A transfer of a write stores its frame or fails, if the EEPROM takes    *)
(* every frame whole: write_bytes moves past bytes it has not acknowledged.*)
LEMMA WritesImplement ==
  ASSUME Invariant, Invariant', "short" \notin Faults,
         WriteSingleTransfer \/ WriteFrameTransfer
  PROVE  Store!Next
<1>1. /\ pc = "transfer" /\ TypeOK /\ TypeOK' /\ CallShape /\ InCall /\ dest' = dest
      /\ call.addr \in Address /\ call.data \in Seq(Byte) /\ Len(call.data) \in Nat
  BY DEF WriteSingleTransfer, WriteFrameTransfer, Invariant, IInv, InCall, TypeOK, CallRecords
<1>2. CASE WriteSingleTransfer
  <2>1. /\ DeviceWrites(call.addr, call.data) /\ pc' = "stamp" /\ call' = call
        /\ call.op = "write_single_byte"
    BY <1>2 DEF WriteSingleTransfer
  <2>2. Len(call.data) = 1
    BY <1>1, <2>1 DEF CallShape
  <2>3. FrameSize(call.addr, Len(call.data)) = Len(call.data)
    BY <1>1, <2>2, FrameSizeType
  <2>4. SubSeq(call.data, 1, Len(call.data)) = call.data
    BY <1>1, SubSeqFull
  <2>5. call.op \in Writes
    BY <2>1 DEF Writes
  <2>6. Store!StorePiece
    BY <1>1, <2>1, <2>3, <2>4, <2>5, FrameImplements
  <2> QED BY <2>6 DEF Store!Next
<1>3. CASE WriteFrameTransfer
  <2> DEFINE n == FrameSize(call.addr, Len(call.data))
  <2>1. n \in 0..Len(call.data) /\ (Len(call.data) > 0 => n > 0)
    BY <1>1, FrameSizeType
  <2>2. call.op \in Writes /\ call.op = "write_bytes" /\ call.data # <<>>
    BY <1>1, <1>3 DEF WriteFrameTransfer, Writes, CallShape
  <2>3. n > 0
    BY <1>1, <2>1, <2>2
  <2>4. PICK accepted \in 0..n :
          /\ accepted < n => "short" \in Faults
          /\ IF accepted > 0
             THEN DeviceWrites(call.addr, SubSeq(call.data, 1, accepted))
             ELSE counter' = Cell(call.addr) /\ UNCHANGED <<mem, cycleLeft>>
          /\ IF accepted >= 1
             THEN pc' = "stamp" /\ UNCHANGED <<call, last, tracked>>
             ELSE Return("error")
    BY <1>3 DEF WriteFrameTransfer
  <2> HIDE DEF n
  <2>5. accepted = n
    BY <1>1, <2>1, <2>4
  <2>6. DeviceWrites(call.addr, SubSeq(call.data, 1, n)) /\ pc' = "stamp" /\ call' = call
    BY <1>1, <2>1, <2>3, <2>4, <2>5
  <2>7. Store!StorePiece
    BY <1>1, <2>2, <2>6, FrameImplements DEF n
  <2> QED BY <2>7 DEF Store!Next
<1> QED BY <1>2, <1>3

(* The steps after the transfer of a write.                                *)
LEMMA AfterTransferImplements ==
  ASSUME Invariant, Invariant', StampSingle \/ StampFrame \/ WriteBytesReturns
  PROVE  Store!Next \/ UNCHANGED StoreState
<1>1. /\ TypeOK /\ TypeOK' /\ CallShape /\ mem' = mem /\ dest' = dest /\ InCall
      /\ call \in CallRecords /\ call.addr \in Address /\ call.addr \in Int
      /\ call.data \in Seq(Byte) /\ Len(call.data) \in Nat
  <2>1. mem' = mem /\ dest' = dest /\ pc \in {"check", "stamp"}
    BY DEF StampSingle, StampFrame, WriteBytesReturns, eeprom
  <2>2. TypeOK /\ TypeOK' /\ CallShape /\ call \in CallRecords
    BY DEF Invariant, IInv, TypeOK
  <2> QED BY <2>1, <2>2, Sizes DEF InCall, CallRecords, Address
<1> DEFINE n == FrameSize(call.addr, Len(call.data))
<1>2. n \in 0..Len(call.data) /\ (Len(call.data) > 0 => n > 0)
  BY <1>1, FrameSizeType
<1>3. CASE StampSingle
  <2>1. pc = "stamp" /\ call.op = "write_single_byte" /\ Return("ok")
    BY <1>3 DEF StampSingle
  <2>2. Len(call.data) = 1
    BY <1>1, <2>1 DEF CallShape
  <2>3. Request.bytes = SubSeq(call.data, n + 1, Len(call.data))
    BY <2>1 DEF Request, FrameInFlight
  <2> HIDE DEF n
  <2>4. n = 1
    BY <1>2, <2>2
  <2>5. Request.bytes = <<>>
    BY <1>1, <2>2, <2>3, <2>4, SubSeqEmpty
  <2>6. KindOf(call.op) = "write"
    BY <2>1 DEF KindOf
  <2>7. Store!Succeed
    BY <1>1, <2>1, <2>5, <2>6, WriteSucceeds
  <2> QED BY <2>7 DEF Store!Next
<1>4. CASE StampFrame
  <2>1. /\ pc = "stamp" /\ pc' = "check" /\ call.op = "write_bytes"
        /\ call' = [call EXCEPT !.addr = u8(call.addr + n),
                                !.data = SubSeq(call.data, n + 1, Len(call.data))]
    BY <1>4 DEF StampFrame
  <2>2. Request = [kind |-> KindOf(call.op), at |-> Cell(call.addr + n),
                   bytes |-> SubSeq(call.data, n + 1, Len(call.data)),
                   len |-> IF KindOf(call.op) = "read" THEN call.len ELSE 0]
    BY <2>1 DEF Request, FrameInFlight
  <2> HIDE DEF n
  <2>3. /\ call'.op = call.op /\ call'.len = call.len /\ call'.addr = u8(call.addr + n)
        /\ call'.data = SubSeq(call.data, n + 1, Len(call.data))
    BY <1>1, <2>1 DEF CallRecords
  <2>4. Cell(u8(call.addr + n)) = Cell(call.addr + n)
    <3>1. call.addr + n \in Int
      BY <1>1, <1>2
    <3> QED BY <3>1, CellOfCut
  <2>5. Request' = [kind |-> KindOf(call'.op), at |-> Cell(call'.addr), bytes |-> call'.data,
                    len |-> IF KindOf(call'.op) = "read" THEN call'.len ELSE 0]
    BY <1>1, <2>1, RequestWillBe
  <2>6. Request' = Request
    BY <2>2, <2>3, <2>4, <2>5
  <2>7. Status' = Status
    BY <2>1 DEF Status, InCall
  <2> QED BY <1>1, <2>6, <2>7 DEF StoreState
<1>5. CASE WriteBytesReturns
  <2>1. pc = "check" /\ call.op = "write_bytes" /\ call.data = <<>> /\ Return("ok")
    BY <1>5 DEF WriteBytesReturns
  <2>2. Request.bytes = <<>>
    BY <1>1, <2>1, RequestIs
  <2>3. KindOf(call.op) = "write"
    BY <2>1 DEF KindOf
  <2>4. Store!Succeed
    BY <1>1, <2>1, <2>2, <2>3, WriteSucceeds
  <2> QED BY <2>4 DEF Store!Next
<1> QED BY <1>3, <1>4, <1>5

(* Time passes unseen.                                                     *)
LEMMA TimeUnseen ==
  ASSUME Tick \/ UNCHANGED vars
  PROVE  UNCHANGED StoreState
<1>1. UNCHANGED <<pc, call, last, mem, dest>>
  BY DEF Tick, vars, eeprom, client
<1>2. Request' = Request
  BY <1>1 DEF Request, FrameInFlight, Cell, KindOf, FrameSize
<1>3. Status' = Status
  BY <1>1 DEF Status, InCall
<1> QED BY <1>1, <1>2, <1>3 DEF StoreState

(* A reset gives the call up, if there is one.                             *)
LEMMA EnvironmentImplements ==
  ASSUME Invariant, Invariant', Tick \/ Reset \/ UNCHANGED vars
  PROVE  Store!Next \/ UNCHANGED StoreState
<1>1. CASE Tick \/ UNCHANGED vars
  BY <1>1, TimeUnseen
<1>2. CASE Reset
  <2>1. /\ pc' = "down" /\ call' = NoCall /\ last'.ret = "none" /\ dest' = <<>> /\ mem' = mem
        /\ TypeOK'
    BY <1>2 DEF Reset, NoResult, eeprom, Invariant, IInv
  <2>2. Request' = Store!None
    BY <2>1, RequestWillBe, NoRequest
  <2>3. Status' = "failed"
    BY <2>1 DEF Status, InCall
  <2> QED BY <2>1, <2>2, <2>3 DEF Store!Next, Store!GiveUp
<1> QED BY <1>1, <1>2

(* Every step of the driver and its surroundings is a step of the store or *)
(* a stutter, except those that leave part of a frame unacknowledged.      *)
LEMMA StepsImplement ==
  ASSUME Invariant, Invariant', "short" \in Faults => call.op \notin Writes, [Next]_vars
  PROVE  Store!Next \/ UNCHANGED StoreState
<1>1. CASE TransferRefused
  <2>1. /\ Return("error") /\ TypeOK' /\ CallShape /\ InCall /\ UNCHANGED <<mem, dest>>
    BY <1>1 DEF TransferRefused, eeprom, Invariant, IInv, InCall
  <2> QED BY <2>1, FailureGivesUp DEF Store!Next
<1>2. CASE WriteSingleTransfer \/ WriteFrameTransfer
  <2>1. call.op \in Writes
    BY <1>2 DEF WriteSingleTransfer, WriteFrameTransfer, Writes
  <2> QED BY <1>2, <2>1, WritesImplement
<1> QED
  BY <1>1, <1>2, CallsImplement, ChecksImplement, ReadsImplement,
     AfterTransferImplements, EnvironmentImplements DEF Next, Driver

(* The driver begins as a store does of which nothing is known.            *)
LEMMA InitImplements == Init => Store!Init
<1> SUFFICES ASSUME Init
             PROVE  Store!Init
  OBVIOUS
<1>1. TypeOK /\ pc = "down" /\ call = NoCall /\ last.ret = "none" /\ dest = <<>>
  BY InitIInv DEF Init, NoResult, IInv
<1>2. Request = Store!None
  BY <1>1, RequestIs, NoRequest
<1>3. Status = "failed"
  BY <1>1 DEF Status, InCall
<1>4. mem \in [Store!Ring -> Byte]
  BY <1>1, CellsAreTheRing DEF TypeOK
<1> QED BY <1>1, <1>2, <1>3, <1>4 DEF Store!Init

(* Every step of driver, EEPROM and clock is one of the ring of bytes that *)
(* include/at24cs0x.h promises, or invisible to its client, as long as the *)
(* EEPROM acknowledges the data of a frame entirely: at24cs0x_write_bytes  *)
(* takes a frame of which one byte was accepted for written.               *)
THEOREM StoreIsImplemented ==
  ASSUME "short" \notin Faults
  PROVE  Spec => ImplementsStore
<1>1. Init => Store!Init
  BY InitImplements
<1>2. Invariant /\ Invariant' /\ [Next]_vars => [Store!Next]_(Store!vars)
  BY StepsImplement DEF Store!vars, StoreState
<1> QED
  BY <1>1, <1>2, InvariantHolds, PTL DEF Spec, ImplementsStore, Store!Spec
=============================================================================
