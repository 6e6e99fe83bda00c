-------------------------- MODULE At24EraseProofs --------------------------
(***************************************************************************)
(* at24cs0x_erase leaves every cell of the EEPROM blank, for every memory, *)
(* page and buffer size and every method of the build - unless a block is  *)
(* as large as the address space, when its length is cut to 0 and nothing  *)
(* is read.  The argument is about what the loop has asked of the          *)
(* LinearStore that the driver implements, never about frames.             *)
(***************************************************************************)
EXTENDS At24Erase, At24cs0xProofs, WellFoundedInduction

Size == Block(erase.method)

(* The loop's variables: what is left to write is part of the block.       *)
LoopTypes ==
  /\ erase \in [method : Methods \cup {"none"}, i : 0..(SizeInBits - 1),
                reading : BOOLEAN, rest : SUBSET (0..(MemSize - 1))]
  /\ blanked \in BOOLEAN
  /\ Erasing => erase.rest \subseteq 0..(Size - 1)

(* What is left of a number of bytes that a call of the loop is to move.   *)
Cut(method, n) == IF method = "BYTEWISE" THEN n ELSE u8(n)
BlocksFit == \A method \in Methods : method # "BYTEWISE" => Block(method) < AddrSpace

(* The read of a block asks for it, cut, and delivers that much of it.     *)
ReadRequest(method, i) ==
  [kind |-> "read", at |-> Cell(i), bytes |-> <<>>, len |-> Cut(method, Block(method))]
ReadsItsBlock ==
  Erasing /\ erase.reading =>
    /\ Status = "pending" => Request = ReadRequest(erase.method, erase.i)
    /\ Status = "ok" =>
         dest = [k \in 1..Cut(erase.method, Size) |-> mem[Cell(erase.i + k - 1)]]

LoopInv == Invariant /\ LoopTypes /\ ReadsItsBlock

(* Only blanks are written.                                                *)
WritesBlanks ==
  Erasing /\ ~erase.reading =>
    /\ Request.kind # "read"
    /\ \A k \in DOMAIN Request.bytes : Request.bytes[k] = Blank

(* A byte of the block that is not left to write is blank already, or will *)
(* be when the call under way returns PICO_OK.                             *)
Awaited(c) == \E k \in DOMAIN Request.bytes : Cell(Request.at + k - 1) = c
BlankOrAwaited(c) == mem[c] = Blank \/ Awaited(c)
BlockBlanked ==
  Erasing /\ ~erase.reading /\ Status # "failed" =>
    \A j \in 0..(Size - 1) : j \notin erase.rest => BlankOrAwaited(Cell(erase.i + j))

(* The blocks behind the loop are blank.                                   *)
BlankBehind == Erasing => \A j \in 0..(erase.i - 1) : mem[Cell(j)] = Blank

(* And nothing is written after the erase that blanked is about.           *)
StaysBlank == blanked => ~Erasing /\ Status # "pending" /\ ErasedIsBlank

BlankInv == WritesBlanks /\ BlockBlanked /\ BlankBehind /\ StaysBlank

---------------------------------------------------------------------------
(* Runs                                                                    *)

(* A set of numbers has a smallest one.                                    *)
LEMMA Smallest ==
  ASSUME NEW T \in SUBSET Nat, T # {}
  PROVE  \E m \in T : \A k \in T : m <= k
<1>1. PICK m \in T : \A k \in T : ~(<<k, m>> \in OpToRel(<, Nat))
  <2>1. IsWellFoundedOn(OpToRel(<, Nat), Nat)
    BY NatLessThanWellFounded
  <2>2. T \subseteq Nat
    OBVIOUS
  <2> QED BY <2>1, <2>2, WFMin, Zenon
<1>2. ASSUME NEW k \in T
      PROVE  m <= k
  <2>1. k \in Nat /\ m \in Nat
    OBVIOUS
  <2>2. ~(k < m)
    <3> SUFFICES ASSUME k < m
                 PROVE  <<k, m>> \in OpToRel(<, Nat)
      BY <1>1
    <3> QED BY <2>1 DEF OpToRel
  <2> QED BY <2>1, <2>2
<1> QED BY <1>2

(* And, if it is bounded, a greatest.                                      *)
LEMMA Greatest ==
  ASSUME NEW n \in Nat, NEW T \in SUBSET (0..n), T # {}
  PROVE  \E m \in T : \A k \in T : k <= m
<1> DEFINE U == {n - k : k \in T}
<1>1. U \in SUBSET Nat /\ U # {}
  <2>1. \A k \in T : n - k \in Nat
    OBVIOUS
  <2> QED BY <2>1
<1>2. PICK m \in U : \A k \in U : m <= k
  BY <1>1, Smallest
<1>3. PICK x \in T : m = n - x
  BY <1>2
<1>4. \A k \in T : k <= x
  <2> TAKE k \in T
  <2>1. n - k \in U
    OBVIOUS
  <2>2. n - x <= n - k
    BY <1>2, <1>3, <2>1
  <2> QED BY <2>2
<1> QED BY <1>4

(* What at24cs0x_erase writes with one call are consecutive bytes: those   *)
(* from the first to be written up to the last before one that is not.     *)
LEMMA FirstRunIsInterval ==
  ASSUME NEW rest \in SUBSET Nat, NEW n \in Nat, rest \subseteq 0..n, rest # {}
  PROVE  \E lo, hi \in rest : lo <= hi /\ FirstRun(rest) = lo..hi
<1>1. PICK lo \in rest : \A k \in rest : lo <= k
  BY Smallest
<1> DEFINE run == FirstRun(rest)
<1>2. lo \in run
  BY <1>1 DEF FirstRun
<1>3. run \in SUBSET (0..n) /\ run \subseteq rest
  BY DEF FirstRun
<1>4. ASSUME NEW j \in run, NEW k \in lo..j
      PROVE  k \in run
  <2>1. \A x \in 0..j : (\E first \in rest : first <= x) => x \in rest
    BY DEF FirstRun
  <2>2. lo \in Nat /\ j \in Nat /\ k \in Nat /\ k \in 0..j
    BY <1>3
  <2>3. k \in rest
    BY <2>1, <2>2, <1>1
  <2>4. \A x \in 0..k : x \in 0..j
    BY <2>2
  <2> QED BY <2>1, <2>3, <2>4 DEF FirstRun
<1> HIDE DEF run
<1>5. PICK hi \in run : \A k \in run : k <= hi
  BY <1>2, <1>3, Greatest
<1>6. run = lo..hi
  <2>1. \A k \in run : k \in Nat /\ lo <= k /\ k <= hi
    BY <1>1, <1>3, <1>5
  <2>2. \A k \in run : k \in lo..hi
    BY <2>1
  <2>3. \A k \in lo..hi : k \in run
    BY <1>4, <1>5
  <2> QED BY <2>2, <2>3
<1> QED BY <1>1, <1>3, <1>5, <1>6 DEF run

---------------------------------------------------------------------------
(* Blocks                                                                  *)

(* A block is part of the array, and the array of the address space.       *)
LEMMA BlockType ==
  /\ \A method \in Methods : Block(method) \in 1..MemSize
  /\ MemSize <= AddrSpace
  /\ SizeInBits \in Nat /\ MemSize < SizeInBits
<1>1. BufferSize \in Nat \ {0} /\ MemSize % BufferSize = 0
  BY EraseAssumption
<1>2. BufferSize <= MemSize
  BY <1>1, Sizes, DivisorBelow
<1>3. MemSize <= AddrSpace
  BY Sizes, DivisorBelow
<1>4. ASSUME NEW method \in Methods
      PROVE  Block(method) \in 1..MemSize
  <2>1. method \in {"BYTEWISE", "PAGEWISE", "BUFFERED"}
    BY EraseAssumption DEF EraseMethods
  <2> QED BY <1>1, <1>2, <2>1, Sizes, PageWithinArray DEF Block
<1> QED BY <1>3, <1>4, Sizes DEF SizeInBits

(* A length is cut to one that is no greater, or not at all.               *)
LEMMA CutType ==
  ASSUME NEW method \in Methods, NEW n \in 1..Block(method)
  PROVE  /\ Cut(method, n) \in 0..n
         /\ BlocksFit => Cut(method, n) = n
<1>1. /\ n \in 1..AddrSpace /\ AddrSpace \in Nat \ {0}
      /\ BlocksFit /\ method # "BYTEWISE" => n < AddrSpace
  BY BlockType, Sizes DEF BlocksFit
<1>2. n < AddrSpace => u8(n) = n
  BY <1>1 DEF u8
<1>3. u8(AddrSpace) = 0
  BY <1>1 DEF u8
<1>4. u8(n) \in 0..n
  BY <1>1, <1>2, <1>3
<1> QED BY <1>1, <1>2, <1>4 DEF Cut

(* "none" is no method.                                                    *)
LEMMA NotErasingType ==
  /\ "none" \notin Methods
  /\ NotErasing \in [method : Methods \cup {"none"}, i : 0..(SizeInBits - 1),
                     reading : BOOLEAN, rest : SUBSET (0..(MemSize - 1))]
  /\ NotErasing.method = "none"
BY BlockType, Sizes, EraseAssumption DEF NotErasing, EraseMethods

(* The request of a call with data that begins.                            *)
LEMMA BeginRequest ==
  ASSUME Invariant,
         NEW op \in {"read_single_byte", "read_bytes", "write_single_byte", "write_bytes"},
         NEW i \in Int, NEW n \in 0..MemSize, NEW d \in Seq(Byte),
         Begin(op, u8(i), n, d),
         op \notin Writes => d = <<>>,
         op = "write_single_byte" => n = 1,
         op \in Writes => Len(d) = n
  PROVE  /\ Invariant' /\ Store!Begin /\ mem' = mem /\ dest' = <<>>
         /\ Status' = "pending"
         /\ Request' = [kind |-> KindOf(op), at |-> Cell(i), bytes |-> d,
                        len |-> IF KindOf(op) = "read" THEN n ELSE 0]
<1>1. /\ u8(i) \in Address /\ n \in Nat /\ op \in ApiOps /\ Cell(u8(i)) = Cell(i)
      /\ n \in 0..AddrSpace
  BY BlockType, Sizes, u8Type, CellOfCut DEF ApiOps
<1>2. IInv'
  BY <1>1, BeginInv DEF Invariant
<1>3. CallShape'
  <2>1. op \notin Writes => Len(d) = 0
    OBVIOUS
  <2>2. Len(d) <= AddrSpace
    BY <1>1, <2>1, Sizes
  <2>3. op = "write_single_byte" => Len(d) = 1
    BY DEF Writes
  <2> QED BY <1>1, <2>2, <2>3, BeginShape
<1>4. Store!Begin
  BY <1>2, <1>3, BeginImplements DEF Invariant
<1>5. /\ pc' = "check" /\ mem' = mem /\ dest' = <<>>
      /\ call' = [op |-> op, addr |-> u8(i), len |-> n, data |-> d]
  BY DEF Begin, eeprom
<1>6. Request' = [kind |-> KindOf(call'.op), at |-> Cell(call'.addr), bytes |-> call'.data,
                  len |-> IF KindOf(call'.op) = "read" THEN call'.len ELSE 0]
  BY <1>2, <1>5, RequestWillBe DEF IInv
<1>7. Status' = "pending"
  BY <1>5 DEF Status, InCall
<1> QED BY <1>1, <1>2, <1>3, <1>4, <1>5, <1>6, <1>7 DEF Invariant

(* A block that the loop comes to is asked for.                            *)
LEMMA ReadBlockBegins ==
  ASSUME Invariant, NEW method \in Methods, NEW i \in 0..(SizeInBits - 1),
         ReadBlock(method, i)
  PROVE  /\ Invariant' /\ Store!Begin /\ mem' = mem /\ Status' = "pending" /\ ~blanked'
         /\ Request' = ReadRequest(method, i)
         /\ erase' = [method |-> method, i |-> i, reading |-> TRUE, rest |-> {}]
         /\ LoopTypes' /\ ReadsItsBlock'
<1> DEFINE n == Cut(method, Block(method))
<1>1. /\ n \in 0..MemSize /\ i \in Int /\ <<>> \in Seq(Byte)
      /\ Block(method) \in 1..Block(method)
  BY BlockType, CutType, Sizes
<1>2. n = IF method = "BYTEWISE" THEN 1 ELSE u8(Block(method))
  <2>1. method = "BYTEWISE" => Block(method) = 1
    BY DEF Block
  <2> QED BY <2>1 DEF Cut
<1> HIDE DEF n
<1>3. /\ Invariant' /\ Store!Begin /\ mem' = mem /\ Status' = "pending"
      /\ Request' = ReadRequest(method, i)
  <2>1. PICK op \in {"read_single_byte", "read_bytes"} : Begin(op, u8(i), n, <<>>)
    BY <1>2 DEF ReadBlock
  <2>2. KindOf(op) = "read" /\ op \notin Writes /\ op # "write_single_byte"
    BY DEF KindOf, Writes
  <2> QED BY <1>1, <2>1, <2>2, BeginRequest DEF ReadRequest, n
<1>4. ~blanked' /\ blanked' \in BOOLEAN
      /\ erase' = [method |-> method, i |-> i, reading |-> TRUE, rest |-> {}]
  BY DEF ReadBlock
<1>5. LoopTypes'
  BY <1>4 DEF LoopTypes
<1>6. ReadRequest(erase.method, erase.i)' = ReadRequest(erase'.method, erase'.i)
  BY DEF ReadRequest, Block, Cut, u8, Cell
<1>7. ReadsItsBlock'
  BY <1>3, <1>4, <1>6 DEF ReadsItsBlock
<1> QED BY <1>3, <1>4, <1>5, <1>7

(* A run is asked to be written.                                           *)
LEMMA WriteRunBegins ==
  ASSUME Invariant, LoopTypes, WriteRun
  PROVE  \E lo, hi \in erase.rest :
           /\ lo <= hi
           /\ Invariant' /\ Store!Begin /\ mem' = mem /\ Status' = "pending"
           /\ Request' = [kind |-> "write", at |-> Cell(erase.i + lo),
                          bytes |-> [k \in 1..Cut(erase.method, 1 + hi - lo) |-> Blank],
                          len |-> 0]
           /\ 1 + hi - lo \in 1..Size
           /\ erase' = [erase EXCEPT !.rest = erase.rest \ (lo..hi)]
           /\ blanked' = blanked
<1>1. /\ Erasing /\ erase.method \in Methods /\ Size \in 1..MemSize
      /\ erase.rest \subseteq 0..(Size - 1) /\ erase.rest # {} /\ erase.i \in Nat
  BY BlockType DEF WriteRun, Returned, LoopTypes, Erasing, Size
<1>2. /\ erase.rest \in SUBSET Nat /\ Size - 1 \in Nat
      /\ erase.rest \subseteq 0..(Size - 1) /\ erase.rest # {}
  BY <1>1
<1>3. PICK lo \in erase.rest, hi \in erase.rest :
        lo <= hi /\ FirstRun(erase.rest) = lo..hi
  BY <1>2, FirstRunIsInterval
<1> DEFINE run == lo..hi
           start == CHOOSE j \in run : \A k \in run : j <= k
           stop == CHOOSE j \in run : \A k \in run : j >= k
<1>4. lo \in Nat /\ hi \in Nat /\ lo \in run /\ hi \in run
  BY <1>1, <1>3
<1>5. start = lo
  <2>1. \A k \in run : lo <= k
    BY <1>4
  <2>2. start \in run /\ \A k \in run : start <= k
    BY <1>4, <2>1
  <2> QED BY <1>4, <2>1, <2>2
<1>6. stop = hi
  <2>1. \A k \in run : hi >= k
    BY <1>4
  <2>2. stop \in run /\ \A k \in run : stop >= k
    BY <1>4, <2>1
  <2> QED BY <1>4, <2>1, <2>2
<1> DEFINE whole == 1 + hi - lo
           n == Cut(erase.method, whole)
           d == [k \in 1..n |-> Blank]
<1>7. whole \in 1..Size /\ (erase.method = "BYTEWISE" => whole = 1)
  <2>1. erase.method = "BYTEWISE" => Size = 1
    BY DEF Size, Block
  <2>2. lo \in 0..(Size - 1) /\ hi \in 0..(Size - 1) /\ Size \in Nat
    BY <1>1
  <2>3. whole \in 1..Size
    BY <1>3, <2>2
  <2> QED BY <2>1, <2>3
<1>8. n \in 0..MemSize /\ n \in Nat
  <2>1. n \in 0..whole
    BY <1>1, <1>7, CutType DEF Size
  <2> QED BY <1>1, <1>7, <2>1, Sizes
<1>9. /\ erase.method = "BYTEWISE" =>
           Begin("write_single_byte", u8(erase.i + lo), 1, <<Blank>>)
      /\ erase.method # "BYTEWISE" =>
           Begin("write_bytes", u8(erase.i + lo), u8(whole), [k \in 1..u8(whole) |-> Blank])
      /\ erase' = [erase EXCEPT !.rest = erase.rest \ (lo..hi)]
      /\ blanked' = blanked
  BY <1>3, <1>5, <1>6 DEF WriteRun
<1>10. /\ erase.method = "BYTEWISE" => n = 1 /\ d = <<Blank>>
       /\ erase.method # "BYTEWISE" => n = u8(whole)
  BY <1>7 DEF Cut
<1> HIDE DEF n, whole
<1>11. PICK op \in {"write_single_byte", "write_bytes"} :
         /\ Begin(op, u8(erase.i + lo), n, d)
         /\ op = "write_single_byte" => n = 1
  <2>1. CASE erase.method = "BYTEWISE"
    BY <1>9, <1>10, <2>1
  <2>2. CASE erase.method # "BYTEWISE"
    BY <1>9, <1>10, <2>2
  <2> QED BY <2>1, <2>2
<1>12. d \in Seq(Byte) /\ Len(d) = n
  BY <1>8, EraseAssumption
<1>13. KindOf(op) = "write" /\ op \in Writes
  BY DEF KindOf, Writes
<1>14. erase.i + lo \in Int
  BY <1>1, <1>4
<1> HIDE DEF d
<1>15. /\ Invariant' /\ Store!Begin /\ mem' = mem /\ Status' = "pending"
       /\ Request' = [kind |-> "write", at |-> Cell(erase.i + lo), bytes |-> d, len |-> 0]
  BY <1>8, <1>11, <1>13, <1>14, <1>12, BeginRequest
<1> QED BY <1>3, <1>7, <1>9, <1>15 DEF d, n, whole

---------------------------------------------------------------------------
(* The loop's steps                                                        *)

(* While nothing is under way no request is left.                          *)
LEMMA IdleRequest ==
  ASSUME Invariant, pc \in {"idle", "down"}
  PROVE  Request = Store!None /\ Status # "pending" /\ call.op \notin Writes
<1>1. TypeOK /\ call = NoCall
  BY DEF Invariant, IInv, CallShape
<1>2. Request = Store!None
  BY <1>1, RequestIs, NoRequest
<1>3. NoCall.op = "none"
  BY NoCallShape
<1> QED BY <1>1, <1>2, <1>3 DEF Status, InCall, Writes

(* What Returned says of the store's client.                               *)
LEMMA ReturnedOk ==
  ASSUME Invariant, Returned("ok")
  PROVE  Erasing /\ Status = "ok" /\ Request = Store!None
BY IdleRequest DEF Returned, Status, InCall

(* While a call of the loop is executed, the store goes on with its        *)
(* request, ends it or gives it up; between two calls nothing happens.     *)
LEMMA DriverSteps ==
  ASSUME Invariant, Invariant', Driver \/ AckPoll \/ Tick,
         "short" \in Faults => call.op \notin Writes
  PROVE  \/ /\ Status = "pending"
            /\ Store!StorePiece \/ Store!Succeed \/ Store!GiveUp
         \/ UNCHANGED StoreState
<1>1. CASE Tick
  BY <1>1, TimeUnseen
<1>2. CASE Driver \/ AckPoll
  <2>1. pc \in {"check", "transfer", "stamp"}
    BY <1>2 DEF Driver, AckPoll, NoWriteInProgress, CycleTimeReached, TransferRefused,
                ReadCurrentTransfer, ReadTransfer, WriteSingleTransfer, WriteFrameTransfer,
                StampSingle, StampFrame, WriteBytesReturns, AtCheck
  <2>2. Status = "pending"
    BY <2>1 DEF Status, InCall
  <2>3. Store!Next \/ UNCHANGED StoreState
    BY <1>2, StepsImplement DEF Next
  <2> QED BY <2>2, <2>3 DEF Store!Next, Store!Begin, Store!Restart
<1> QED BY <1>1, <1>2

(* A read in the loop ends with the block it asked for.                    *)
LEMMA ReadSteps ==
  ASSUME LoopInv, Invariant', Driver \/ AckPoll \/ Tick, UNCHANGED <<erase, blanked>>
  PROVE  ReadsItsBlock'
<1> SUFFICES ASSUME Erasing, erase.reading
             PROVE  ReadsItsBlock'
  BY DEF ReadsItsBlock, Erasing
<1>1. /\ Status = "pending" => Request = ReadRequest(erase.method, erase.i)
      /\ Status = "ok" =>
           dest = [k \in 1..Cut(erase.method, Size) |-> mem[Cell(erase.i + k - 1)]]
  BY DEF LoopInv, ReadsItsBlock
<1> DEFINE n == Cut(erase.method, Size)
<1>2. /\ ReadRequest(erase.method, erase.i)' = ReadRequest(erase.method, erase.i)
      /\ Cut(erase.method, Size)' = n /\ erase' = erase
      /\ \A c : Cell(c)' = Cell(c)
  BY DEF ReadRequest, Block, Cut, u8, Cell, Size
<1>3. call.op \notin Writes
  <2>1. CASE Status = "pending"
    <3>1. KindOf(call.op) = "read"
      BY <1>1, <2>1 DEF Request, ReadRequest
    <3> QED BY <3>1 DEF KindOf, Writes
  <2>2. CASE Status # "pending"
    <3>1. pc \in {"idle", "down"}
      BY <2>2 DEF Status, InCall, LoopInv, Invariant, IInv, TypeOK
    <3> QED BY <3>1, IdleRequest DEF LoopInv
  <2> QED BY <2>1, <2>2
<1>4. \/ /\ Status = "pending"
         /\ Store!StorePiece \/ Store!Succeed \/ Store!GiveUp
      \/ UNCHANGED StoreState
  BY <1>3, DriverSteps DEF LoopInv
<1>5. CASE UNCHANGED StoreState
  BY <1>1, <1>2, <1>5 DEF StoreState, ReadsItsBlock
<1>6. CASE Status = "pending" /\ Store!GiveUp
  BY <1>6 DEF Store!GiveUp, ReadsItsBlock
<1>7. CASE Status = "pending" /\ Store!StorePiece
  BY <1>1, <1>7 DEF Store!StorePiece, ReadRequest
<1>8. CASE Status = "pending" /\ Store!Succeed
  <2>1. Request = ReadRequest(erase.method, erase.i)
    BY <1>1, <1>8
  <2>2. /\ dest' = [k \in 1..Request.len |-> mem[(Request.at + k - 1) % MemSize]]
        /\ Status' = "ok" /\ mem' = mem
    BY <1>8, <2>1 DEF Store!Succeed, ReadRequest
  <2>3. Request.len = n /\ Request.at = Cell(erase.i)
    BY <2>1 DEF ReadRequest, Size
  <2>4. erase.i \in Int /\ Cell(erase.i) \in Int /\ n \in Nat
    <3>1. erase.i \in Int /\ erase.method \in Methods
      BY BlockType DEF LoopInv, LoopTypes, Erasing
    <3>2. Cell(erase.i) \in Int
      BY <3>1, Sizes, DivMod DEF Cell
    <3>3. n \in 0..Size /\ Size \in Nat
      <4>1. Size \in 1..Block(erase.method)
        BY <3>1, BlockType DEF Size
      <4> QED BY <3>1, <4>1, BlockType, CutType DEF Size
    <3> QED BY <3>1, <3>2, <3>3
  <2>5. ASSUME NEW k \in 1..n
        PROVE  (Request.at + k - 1) % MemSize = Cell(erase.i + k - 1)
    <3>1. /\ Cell(erase.i) + k - 1 = Cell(erase.i) + (k - 1) /\ k - 1 \in Int
          /\ erase.i + k - 1 = erase.i + (k - 1)
      BY <2>4
    <3>2. Cell(Cell(erase.i) + (k - 1)) = Cell(erase.i + (k - 1))
      BY <2>4, <3>1, CellOfSum
    <3> QED BY <2>3, <3>1, <3>2 DEF Cell
  <2>6. dest' = [k \in 1..n |-> mem[Cell(erase.i + k - 1)]]
    BY <2>2, <2>3, <2>5
  <2>7. (\A k : mem[Cell(erase.i + k - 1)]' = mem[Cell(erase.i + k - 1)])
    BY <1>2, <2>2
  <2> QED BY <1>2, <2>2, <2>6, <2>7 DEF ReadsItsBlock, Cell
<1> QED BY <1>4, <1>5, <1>6, <1>7, <1>8

(* Steps of the loop that make no call.                                    *)
LEMMA LoopSteps ==
  ASSUME LoopInv, ScanBlock \/ EraseReturns \/ EraseFails
  PROVE  LoopInv'
<1>1. UNCHANGED vars /\ Invariant /\ LoopTypes
  BY DEF ScanBlock, EraseReturns, EraseFails, LoopInv
<1>2. Invariant'
  BY <1>1, InvariantHolds
<1>3. CASE ScanBlock
  <2>1. PICK rest \in SUBSET (0..(Size - 1)) :
          erase' = [erase EXCEPT !.reading = FALSE, !.rest = rest]
    BY <1>3 DEF ScanBlock, Size
  <2>2. Erasing /\ blanked' = blanked
    BY <1>3, ReturnedOk DEF ScanBlock, Returned
  <2>3. /\ erase.method \in Methods /\ Size \in 1..MemSize
        /\ erase'.method = erase.method /\ erase'.i = erase.i
        /\ erase'.reading = FALSE /\ erase'.rest = rest
    BY <1>1, <2>1, <2>2, BlockType DEF LoopTypes, Erasing, Size
  <2>4. rest \subseteq 0..(Size - 1) /\ rest \subseteq 0..(MemSize - 1)
    BY <2>3, Sizes
  <2>5. Size' = Size
    BY <2>3 DEF Size, Block
  <2>6. LoopTypes'
    BY <1>1, <2>1, <2>2, <2>3, <2>4, <2>5 DEF LoopTypes
  <2> QED BY <1>2, <2>3, <2>6 DEF LoopInv, ReadsItsBlock
<1>4. CASE EraseReturns \/ EraseFails
  <2>1. erase' = NotErasing /\ blanked' \in BOOLEAN
    BY <1>1, <1>4 DEF EraseReturns, EraseFails, LoopTypes
  <2>2. ~Erasing'
    BY <2>1, NotErasingType DEF Erasing
  <2> QED BY <1>2, <2>1, <2>2, NotErasingType DEF LoopInv, LoopTypes, ReadsItsBlock
<1> QED BY <1>3, <1>4

(* The steps of the client that begin an erase, or a call of one.          *)
LEMMA LoopCalls ==
  ASSUME LoopInv, at24cs0x_erase \/ WriteRun \/ NextBlock
  PROVE  LoopInv'
<1>1. Invariant /\ LoopTypes
  BY DEF LoopInv
<1>2. CASE at24cs0x_erase
  <2>1. PICK method \in Methods : ReadBlock(method, 0)
    BY <1>2 DEF at24cs0x_erase
  <2>2. 0 \in 0..(SizeInBits - 1)
    BY BlockType, Sizes
  <2> QED BY <1>1, <2>1, <2>2, ReadBlockBegins DEF LoopInv
<1>3. CASE NextBlock
  <2>1. /\ ReadBlock(erase.method, erase.i + Size) /\ erase.i + Size < SizeInBits /\ Erasing
    BY <1>3 DEF NextBlock, BlockDone, Returned, Size
  <2>2. erase.method \in Methods /\ erase.i \in Nat /\ Size \in Nat
    BY <1>1, <2>1, BlockType DEF LoopTypes, Erasing, Size
  <2>3. erase.i + Size \in 0..(SizeInBits - 1)
    BY <2>1, <2>2, BlockType
  <2> QED BY <1>1, <2>1, <2>2, <2>3, ReadBlockBegins DEF LoopInv
<1>4. CASE WriteRun
  <2>1. PICK lo \in erase.rest, hi \in erase.rest :
          /\ Invariant' /\ erase' = [erase EXCEPT !.rest = erase.rest \ (lo..hi)]
          /\ blanked' = blanked
    BY <1>1, <1>4, WriteRunBegins
  <2>2. Erasing /\ ~erase.reading
    BY <1>4 DEF WriteRun, Returned
  <2>3. /\ erase'.method = erase.method /\ erase'.i = erase.i
        /\ erase'.reading = FALSE /\ erase'.rest \subseteq erase.rest
    BY <1>1, <2>1, <2>2 DEF LoopTypes
  <2>4. Size' = Size
    BY <2>3 DEF Size, Block
  <2>5. LoopTypes'
    BY <1>1, <2>1, <2>2, <2>3, <2>4 DEF LoopTypes, Erasing
  <2> QED BY <2>1, <2>3, <2>5 DEF LoopInv, ReadsItsBlock
<1> QED BY <1>2, <1>3, <1>4

(* Every step keeps the loop's invariant.                                  *)
LEMMA LoopInvSteps ==
  ASSUME LoopInv, [EraseNext]_eraseVars
  PROVE  LoopInv'
<1>1. Invariant /\ LoopTypes /\ ReadsItsBlock
  BY DEF LoopInv
<1>2. CASE ~Erasing /\ Calls /\ UNCHANGED erase /\ blanked' = FALSE
  <2>1. Invariant'
    BY <1>1, <1>2, InvariantHolds DEF Next
  <2> QED BY <1>1, <1>2, <2>1 DEF LoopInv, LoopTypes, ReadsItsBlock, Erasing
<1>3. CASE (Driver \/ AckPoll \/ Tick) /\ UNCHANGED <<erase, blanked>>
  <2>1. Invariant'
    BY <1>1, <1>3, InvariantHolds DEF Next
  <2>2. Size' = Size
    BY <1>3 DEF Size, Block
  <2> QED BY <1>1, <1>3, <2>1, <2>2, ReadSteps DEF LoopInv, LoopTypes, Erasing
<1>4. CASE Reset /\ erase' = NotErasing /\ UNCHANGED blanked
  <2>1. Invariant'
    BY <1>1, <1>4, InvariantHolds DEF Next
  <2>2. ~Erasing'
    BY <1>4, NotErasingType DEF Erasing
  <2> QED BY <1>1, <1>4, <2>1, <2>2, NotErasingType DEF LoopInv, LoopTypes, ReadsItsBlock
<1>5. CASE UNCHANGED eraseVars
  <2>1. UNCHANGED vars /\ UNCHANGED <<erase, blanked>>
    BY <1>5 DEF eraseVars
  <2>2. Invariant'
    BY <1>1, <2>1, InvariantHolds
  <2>3. UNCHANGED StoreState
    BY <2>1, TimeUnseen
  <2>4. /\ Size' = Size /\ Cut(erase.method, Size)' = Cut(erase.method, Size)
        /\ ReadRequest(erase.method, erase.i)' = ReadRequest(erase.method, erase.i)
    BY <2>1 DEF Size, Block, ReadRequest, Cut, u8, Cell
  <2> QED BY <1>1, <2>1, <2>2, <2>3, <2>4
          DEF LoopInv, LoopTypes, ReadsItsBlock, Erasing, StoreState, Cell
<1> QED BY <1>2, <1>3, <1>4, <1>5, LoopSteps, LoopCalls DEF EraseNext

---------------------------------------------------------------------------
(* Blanks                                                                  *)

(* Blanks stored on top of m leave blank what was, and what they cover.    *)
LEMMA BlanksStored ==
  ASSUME NEW m, NEW at, NEW f, \A k \in DOMAIN f : f[k] = Blank, NEW c \in Cells,
         m[c] = Blank \/ \E k \in DOMAIN f : Cell(at + k - 1) = c
  PROVE  Store!Overlay(m, at, f)[c] = Blank
<1>1. CASE \E k \in DOMAIN f : (at + k - 1) % MemSize = c
  <2>1. (CHOOSE k \in DOMAIN f : (at + k - 1) % MemSize = c) \in DOMAIN f
    BY <1>1
  <2> QED BY <1>1, <2>1, CellsAreTheRing DEF Store!Overlay
<1>2. CASE ~\E k \in DOMAIN f : (at + k - 1) % MemSize = c
  <2>1. m[c] = Blank
    BY <1>2 DEF Cell
  <2> QED BY <1>2, <2>1, CellsAreTheRing DEF Store!Overlay
<1> QED BY <1>1, <1>2

(* The type of the request.                                                *)
LEMMA RequestType ==
  ASSUME Invariant
  PROVE  /\ Request.at \in Int /\ Request.bytes \in Seq(Byte)
         /\ Request = [kind |-> Request.kind, at |-> Request.at, bytes |-> Request.bytes,
                       len |-> Request.len]
<1>1. call.addr \in Int /\ call.data \in Seq(Byte) /\ Len(call.data) \in Nat /\ call.addr \in Address
  BY Sizes DEF Invariant, IInv, TypeOK, CallRecords, Address
<1> DEFINE n == FrameInFlight
<1>2. n \in 0..Len(call.data)
  BY <1>1, FrameSizeType DEF FrameInFlight
<1>3. Request.at = Cell(call.addr + n) /\ Request.bytes = SubSeq(call.data, n + 1, Len(call.data))
  BY DEF Request
<1> HIDE DEF n
<1>4. Request.at \in Int
  <2>1. call.addr + n \in Int
    BY <1>1, <1>2
  <2>2. Cell(call.addr + n) \in Int
    BY <2>1, Sizes, DivMod DEF Cell
  <2> QED BY <1>3, <2>2
<1>5. Request.bytes \in Seq(Byte)
  BY <1>1, <1>2, <1>3
<1> QED BY <1>4, <1>5 DEF Request

(* A piece of a run of blanks that is stored leaves a run of blanks to     *)
(* store, and no cell is neither blank nor awaited that was before.        *)
LEMMA BlanksGoOn ==
  ASSUME Invariant, Store!StorePiece,
         \A k \in DOMAIN Request.bytes : Request.bytes[k] = Blank
  PROVE  /\ \A k \in DOMAIN Request'.bytes : Request'.bytes[k] = Blank
         /\ Request'.kind = "write"
         /\ \A c \in Cells : mem[c] = Blank => mem'[c] = Blank
         /\ \A c \in Cells :
              BlankOrAwaited(c) =>
                mem'[c] = Blank \/ \E k \in DOMAIN Request'.bytes : Cell(Request'.at + k - 1) = c
<1> DEFINE d == Request.bytes
           at == Request.at
<1>1. at \in Int /\ d \in Seq(Byte) /\ Len(d) \in Nat /\ DOMAIN d = 1..Len(d)
  BY RequestType
<1>2. PICK n \in 1..Len(d) :
        /\ mem' = Store!Overlay(mem, at, SubSeq(d, 1, n))
        /\ Request' = [Request EXCEPT !.at = (at + n) % MemSize,
                                      !.bytes = SubSeq(d, n + 1, Len(d))]
  BY DEF Store!StorePiece
<1> DEFINE f == SubSeq(d, 1, n)
           r == SubSeq(d, n + 1, Len(d))
<1>3. /\ Len(f) = n /\ DOMAIN f = 1..n /\ \A k \in 1..n : f[k] = d[k]
      /\ DOMAIN r = 1..(Len(d) - n) /\ \A k \in 1..(Len(d) - n) : r[k] = d[n + k]
  BY <1>1
<1>4. (\A k \in DOMAIN f : f[k] = Blank) /\ (\A k \in DOMAIN r : r[k] = Blank)
  <2>1. \A k \in 1..n : d[k] = Blank
    BY <1>1
  <2>2. \A k \in 1..(Len(d) - n) : n + k \in 1..Len(d) /\ d[n + k] = Blank
    BY <1>1
  <2> QED BY <1>3, <2>1, <2>2
<1>5. Request.kind = "write"
  BY DEF Store!StorePiece
<1> HIDE DEF f, r, d, at
<1>6. Request'.bytes = r /\ Request'.at = (at + n) % MemSize /\ Request'.kind = "write"
  <2> DEFINE R == Request
  <2>1. R = [kind |-> R.kind, at |-> R.at, bytes |-> R.bytes, len |-> R.len]
    BY RequestType
  <2>2. Request' = [R EXCEPT !.at = (at + n) % MemSize, !.bytes = r]
    BY <1>2 DEF r
  <2>3. R.kind = "write"
    BY <1>5
  <2> HIDE DEF R
  <2> QED BY <2>1, <2>2, <2>3
<1>7. mem' = Store!Overlay(mem, at, f)
  BY <1>2 DEF f
<1>8. ASSUME NEW c \in Cells, mem[c] = Blank
      PROVE  mem'[c] = Blank
  BY <1>4, <1>7, <1>8, BlanksStored
<1>9. ASSUME NEW c \in Cells, BlankOrAwaited(c)
      PROVE  mem'[c] = Blank \/ \E k \in DOMAIN r : Cell(((at + n) % MemSize) + k - 1) = c
  <2>1. CASE mem[c] = Blank
    BY <1>8, <2>1
  <2>2. CASE Awaited(c)
    <3>1. PICK k \in 1..Len(d) : Cell(at + k - 1) = c
      BY <1>1, <2>2 DEF Awaited, d, at
    <3>2. CASE k <= n
      <4>1. k \in DOMAIN f
        BY <1>1, <1>3, <3>2
      <4> QED BY <1>4, <1>7, <3>1, <4>1, BlanksStored
    <3>3. CASE k > n
      <4>1. k - n \in DOMAIN r /\ at + n \in Int /\ k - n - 1 \in Int
        BY <1>1, <1>3, <3>3
      <4>2. Cell(Cell(at + n) + (k - n - 1)) = Cell((at + n) + (k - n - 1))
        BY <4>1, CellOfSum
      <4>3. Cell(at + n) \in Int
        BY <4>1, Sizes, DivMod DEF Cell
      <4>4. /\ (at + n) + (k - n - 1) = at + k - 1
            /\ Cell(at + n) + (k - n - 1) = Cell(at + n) + (k - n) - 1
        BY <1>1, <4>3
      <4>5. Cell(Cell(at + n) + (k - n) - 1) = c
        BY <3>1, <4>2, <4>4
      <4> QED BY <4>1, <4>5 DEF Cell
    <3> QED BY <1>1, <3>2, <3>3
  <2> QED BY <1>9, <2>1, <2>2 DEF BlankOrAwaited
<1> QED BY <1>4, <1>6, <1>8, <1>9

(* With the last run of a block written, all up to its end is blank.       *)
LEMMA BlankUpToHere ==
  ASSUME LoopInv, BlankInv, BlockDone
  PROVE  /\ Erasing /\ erase.method \in Methods /\ erase.i \in Nat /\ Size \in 1..MemSize
         /\ \A j \in 0..(erase.i + Size - 1) : mem[Cell(j)] = Blank
<1>1. /\ Erasing /\ Status = "ok" /\ Request = Store!None /\ ~erase.reading /\ erase.rest = {}
  BY ReturnedOk DEF BlockDone, LoopInv
<1>2. erase.method \in Methods /\ erase.i \in Nat /\ Size \in 1..MemSize
  BY <1>1, BlockType DEF LoopInv, LoopTypes, Erasing, Size
<1>3. ASSUME NEW c
      PROVE  ~Awaited(c)
  BY <1>1 DEF Awaited, Store!None
<1>4. ASSUME NEW j \in 0..(erase.i + Size - 1)
      PROVE  mem[Cell(j)] = Blank
  <2>1. CASE j < erase.i
    BY <1>1, <1>2, <2>1 DEF BlankInv, BlankBehind
  <2>2. CASE j >= erase.i
    <3>1. j - erase.i \in 0..(Size - 1) /\ erase.i + (j - erase.i) = j
      BY <1>2, <2>2
    <3>2. BlankOrAwaited(Cell(erase.i + (j - erase.i)))
      BY <1>1, <3>1 DEF BlankInv, BlockBlanked
    <3> QED BY <1>3, <3>1, <3>2 DEF BlankOrAwaited
  <2> QED BY <1>2, <2>1, <2>2
<1> QED BY <1>1, <1>2, <1>4

---------------------------------------------------------------------------
(* The invariant of the blanks                                             *)

(* Nothing but the loop's own calls is under way while it runs.            *)
LEMMA DriverBlanks ==
  ASSUME LoopInv, BlankInv, Invariant', "short" \notin Faults,
         Driver \/ AckPoll \/ Tick, UNCHANGED <<erase, blanked>>
  PROVE  BlankInv'
<1>1. /\ Size' = Size /\ erase' = erase /\ blanked' = blanked /\ (Erasing' <=> Erasing)
      /\ erase.i \in Int
      /\ \A c : Cell(c) \in Cells \/ c \notin Int
  BY CellType DEF Size, Block, Erasing, LoopInv, LoopTypes
<1>2. \/ /\ Status = "pending"
         /\ Store!StorePiece \/ Store!Succeed \/ Store!GiveUp
      \/ UNCHANGED StoreState
  BY DriverSteps DEF LoopInv
<1>3. WritesBlanks /\ BlockBlanked /\ BlankBehind /\ StaysBlank
  BY DEF BlankInv
<1>4. CASE UNCHANGED StoreState
  <2>1. Request' = Request /\ Status' = Status /\ mem' = mem
    BY <1>4 DEF StoreState
  <2>2. WritesBlanks' /\ BlankBehind' /\ StaysBlank'
    BY <1>1, <1>3, <2>1 DEF WritesBlanks, BlankBehind, StaysBlank, ErasedIsBlank, Cell
  <2>3. BlockBlanked'
    BY <1>1, <1>3, <2>1 DEF BlockBlanked, BlankOrAwaited, Awaited, Cell
  <2> QED BY <2>2, <2>3 DEF BlankInv
<1>5. CASE Status = "pending" /\ ~Erasing
  BY <1>1, <1>3, <1>5 DEF BlankInv, WritesBlanks, BlockBlanked, BlankBehind, StaysBlank
<1>6. CASE Status = "pending" /\ Erasing /\ Store!StorePiece
  <2>1. ~erase.reading
    <3>1. Request.kind = "write"
      BY <1>6 DEF Store!StorePiece
    <3> QED BY <1>6, <3>1 DEF LoopInv, ReadsItsBlock, ReadRequest
  <2>2. \A k \in DOMAIN Request.bytes : Request.bytes[k] = Blank
    BY <1>3, <1>6, <2>1 DEF WritesBlanks
  <2>3. /\ \A k \in DOMAIN Request'.bytes : Request'.bytes[k] = Blank
        /\ Request'.kind = "write"
        /\ \A c \in Cells : mem[c] = Blank => mem'[c] = Blank
        /\ \A c \in Cells :
             BlankOrAwaited(c) =>
               mem'[c] = Blank \/ \E k \in DOMAIN Request'.bytes : Cell(Request'.at + k - 1) = c
    BY <1>6, <2>2, BlanksGoOn DEF LoopInv
  <2>4. WritesBlanks'
    BY <2>3 DEF WritesBlanks
  <2>5. BlankBehind'
    <3>1. ASSUME NEW j \in 0..(erase.i - 1)
          PROVE  mem'[Cell(j)] = Blank
      <4>1. Cell(j) \in Cells /\ mem[Cell(j)] = Blank
        BY <1>1, <1>3, <1>6 DEF BlankBehind
      <4> QED BY <2>3, <4>1
    <3> QED BY <1>1, <3>1 DEF BlankBehind, Cell
  <2>6. BlockBlanked'
    <3>1. ASSUME NEW j \in 0..(Size - 1), j \notin erase.rest
          PROVE  \/ mem'[Cell(erase.i + j)] = Blank
                 \/ \E k \in DOMAIN Request'.bytes : Cell(Request'.at + k - 1) = Cell(erase.i + j)
      <4>1. BlankOrAwaited(Cell(erase.i + j))
        BY <1>3, <1>6, <2>1, <3>1 DEF BlockBlanked
      <4>2. Cell(erase.i + j) \in Cells
        <5>1. erase.i + j \in Int
          BY <1>1
        <5> QED BY <5>1, CellType
      <4> QED BY <2>3, <4>1, <4>2
    <3> QED BY <1>1, <3>1 DEF BlockBlanked, BlankOrAwaited, Awaited, Cell
  <2>7. StaysBlank'
    BY <1>1, <1>3, <1>6 DEF StaysBlank
  <2> QED BY <2>4, <2>5, <2>6, <2>7 DEF BlankInv
<1>7. CASE Status = "pending" /\ Erasing /\ (Store!Succeed \/ Store!GiveUp)
  <2>1. mem' = mem /\ Request' = Store!None
    BY <1>7 DEF Store!Succeed, Store!GiveUp
  <2>2. Request'.kind = "other" /\ Request'.bytes = <<>>
    BY <2>1 DEF Store!None
  <2>3. WritesBlanks'
    BY <2>2 DEF WritesBlanks
  <2>4. BlankBehind'
    BY <1>1, <1>3, <2>1 DEF BlankBehind, Cell
  <2>5. StaysBlank'
    BY <1>1, <1>3, <1>7 DEF StaysBlank
  <2>6. BlockBlanked'
    <3>1. CASE Store!GiveUp
      BY <3>1 DEF Store!GiveUp, BlockBlanked
    <3>2. CASE Store!Succeed
      <4>1. \A c : ~Awaited(c)
        BY <3>2 DEF Store!Succeed, Awaited
      <4>2. \A c : BlankOrAwaited(c) => mem'[c] = Blank
        BY <2>1, <4>1 DEF BlankOrAwaited
      <4> QED BY <1>1, <1>3, <1>7, <4>2 DEF BlockBlanked, BlankOrAwaited, Cell
    <3> QED BY <1>7, <3>1, <3>2
  <2> QED BY <2>3, <2>4, <2>5, <2>6 DEF BlankInv
<1> QED BY <1>2, <1>4, <1>5, <1>6, <1>7

(* The block that was read is blank where nothing is to be written.        *)
LEMMA ScanBlanks ==
  ASSUME BlocksFit, LoopInv, BlankInv, ScanBlock
  PROVE  BlankInv'
<1> PICK rest \in SUBSET (0..(Size - 1)) :
      /\ rest \cap (0..(Len(dest) - 1)) = NotBlank(dest)
      /\ erase' = [erase EXCEPT !.reading = FALSE, !.rest = rest]
  BY DEF ScanBlock, Size
<1>1. /\ Erasing /\ erase.reading /\ Status = "ok" /\ Request = Store!None
      /\ UNCHANGED vars /\ blanked' = blanked
  BY ReturnedOk DEF ScanBlock, LoopInv
<1>2. /\ erase.method \in Methods /\ erase.i \in Nat /\ Size \in 1..MemSize
      /\ erase'.method = erase.method /\ erase'.i = erase.i
      /\ erase'.reading = FALSE /\ erase'.rest = rest
  BY <1>1, BlockType DEF LoopInv, LoopTypes, Erasing, Size
<1>3. Size' = Size /\ (Erasing' <=> Erasing)
  BY <1>2 DEF Size, Block, Erasing
<1>4. dest = [k \in 1..Size |-> mem[Cell(erase.i + k - 1)]]
  <2>1. Size \in 1..Block(erase.method)
    BY <1>2 DEF Size
  <2>2. Cut(erase.method, Size) = Size
    BY <1>2, <2>1, CutType
  <2> QED BY <1>1, <2>2 DEF LoopInv, ReadsItsBlock
<1>5. Request' = Store!None /\ Status' = "ok" /\ mem' = mem
  BY <1>1, TimeUnseen DEF StoreState
<1>6. WritesBlanks'
  BY <1>5 DEF WritesBlanks, Store!None
<1>7. BlankBehind' /\ StaysBlank'
  BY <1>1, <1>2, <1>3, <1>5 DEF BlankInv, BlankBehind, StaysBlank, Cell
<1>8. ASSUME NEW j \in 0..(Size - 1), j \notin rest
      PROVE  mem[Cell(erase.i + j)] = Blank
  <2>1. Len(dest) = Size /\ j + 1 \in 1..Size /\ erase.i + (j + 1) - 1 = erase.i + j
    BY <1>2, <1>4
  <2>2. dest[j + 1] = mem[Cell(erase.i + j)]
    BY <1>4, <2>1
  <2>3. j \notin NotBlank(dest)
    BY <1>8
  <2> QED BY <2>1, <2>2, <2>3 DEF NotBlank
<1>9. BlockBlanked'
  BY <1>2, <1>3, <1>5, <1>8 DEF BlockBlanked, BlankOrAwaited, Cell
<1> QED BY <1>6, <1>7, <1>9 DEF BlankInv

(* A run that is asked to be written is awaited.                           *)
LEMMA RunBlanks ==
  ASSUME BlocksFit, LoopInv, BlankInv, WriteRun
  PROVE  BlankInv'
<1>1. PICK lo \in erase.rest, hi \in erase.rest :
        /\ lo <= hi
        /\ mem' = mem /\ Status' = "pending" /\ blanked' = blanked
        /\ Request' = [kind |-> "write", at |-> Cell(erase.i + lo),
                       bytes |-> [k \in 1..(1 + hi - lo) |-> Blank], len |-> 0]
        /\ erase' = [erase EXCEPT !.rest = erase.rest \ (lo..hi)]
  <2>1. erase.method \in Methods
    BY ReturnedOk DEF WriteRun, LoopInv, LoopTypes, Erasing
  <2>2. \A n \in 1..Size : Cut(erase.method, n) = n
    BY <2>1, CutType DEF Size
  <2> QED BY <2>2, WriteRunBegins DEF LoopInv
<1>2. /\ Erasing /\ ~erase.reading /\ Status = "ok" /\ Request = Store!None
  BY ReturnedOk DEF WriteRun, LoopInv
<1>3. /\ erase.i \in Nat /\ lo \in Nat /\ hi \in Nat /\ Size \in 1..MemSize
      /\ erase'.method = erase.method /\ erase'.i = erase.i
      /\ erase'.reading = FALSE /\ erase'.rest = erase.rest \ (lo..hi)
  BY <1>1, <1>2, BlockType DEF LoopInv, LoopTypes, Erasing, Size
<1>4. Size' = Size /\ (Erasing' <=> Erasing)
  BY <1>3 DEF Size, Block, Erasing
<1>5. WritesBlanks'
  BY <1>1 DEF WritesBlanks
<1>6. BlankBehind' /\ StaysBlank'
  BY <1>1, <1>2, <1>3, <1>4 DEF BlankInv, BlankBehind, StaysBlank, Cell
<1>7. ASSUME NEW j \in 0..(Size - 1), j \notin erase.rest \ (lo..hi)
      PROVE  \/ mem[Cell(erase.i + j)] = Blank
             \/ \E k \in DOMAIN Request'.bytes : Cell(Request'.at + k - 1) = Cell(erase.i + j)
  <2>1. CASE j \notin erase.rest
    <3>1. BlankOrAwaited(Cell(erase.i + j))
      BY <1>2, <2>1 DEF BlankInv, BlockBlanked
    <3>2. ~Awaited(Cell(erase.i + j))
      BY <1>2 DEF Awaited, Store!None
    <3> QED BY <3>1, <3>2 DEF BlankOrAwaited
  <2>2. CASE j \in lo..hi
    <3>1. /\ DOMAIN Request'.bytes = 1..(1 + hi - lo) /\ Request'.at = Cell(erase.i + lo)
      BY <1>1
    <3>2. j - lo + 1 \in 1..(1 + hi - lo) /\ erase.i + lo \in Int /\ j - lo \in Int
          /\ (erase.i + lo) + (j - lo) = erase.i + j
      BY <1>3, <2>2
    <3>3. Cell(Cell(erase.i + lo) + (j - lo)) = Cell(erase.i + j)
      BY <3>2, CellOfSum
    <3>4. Cell(erase.i + lo) \in Int
      BY <3>2, Sizes, CellType DEF Cells
    <3>5. Cell(erase.i + lo) + (j - lo + 1) - 1 = Cell(erase.i + lo) + (j - lo)
      BY <3>2, <3>4
    <3> QED BY <3>1, <3>2, <3>3, <3>5
  <2> QED BY <1>7, <2>1, <2>2
<1>8. BlockBlanked'
  <2>1. mem' = mem
    BY <1>1
  <2> QED BY <1>3, <1>4, <1>7, <2>1 DEF BlockBlanked, BlankOrAwaited, Awaited, Cell
<1> QED BY <1>5, <1>6, <1>8 DEF BlankInv

(* A block is begun with all blank behind it.                              *)
LEMMA BlockBlanks ==
  ASSUME LoopInv, BlankInv, at24cs0x_erase \/ NextBlock
  PROVE  BlankInv'
<1>1. PICK method \in Methods, i \in 0..(SizeInBits - 1) :
        /\ ReadBlock(method, i)
        /\ \A j \in 0..(i - 1) : mem[Cell(j)] = Blank
  <2>1. CASE at24cs0x_erase
    <3>1. 0 \in 0..(SizeInBits - 1) /\ \A j \in 0..(0 - 1) : FALSE
      BY BlockType, Sizes
    <3>2. PICK method \in Methods : ReadBlock(method, 0)
      BY <2>1 DEF at24cs0x_erase
    <3> QED BY <3>1, <3>2
  <2>2. CASE NextBlock
    <3>1. BlockDone /\ erase.i + Size < SizeInBits /\ ReadBlock(erase.method, erase.i + Size)
      BY <2>2 DEF NextBlock, Size
    <3>2. /\ erase.method \in Methods /\ erase.i \in Nat /\ Size \in 1..MemSize
          /\ \A j \in 0..(erase.i + Size - 1) : mem[Cell(j)] = Blank
      BY <3>1, BlankUpToHere
    <3>3. erase.i + Size \in 0..(SizeInBits - 1)
      BY <3>1, <3>2, BlockType
    <3> QED BY <3>1, <3>2, <3>3
  <2> QED BY <2>1, <2>2
<1>2. /\ mem' = mem /\ ~blanked'
      /\ erase' = [method |-> method, i |-> i, reading |-> TRUE, rest |-> {}]
  BY <1>1, ReadBlockBegins DEF LoopInv
<1>3. BlankBehind'
  BY <1>1, <1>2 DEF BlankBehind, Cell
<1> QED BY <1>2, <1>3 DEF BlankInv, WritesBlanks, BlockBlanked, StaysBlank

(* When the loop has reached its end every cell is behind it.              *)
LEMMA EndBlanks ==
  ASSUME LoopInv, BlankInv, EraseReturns \/ EraseFails
  PROVE  BlankInv'
<1>1. /\ UNCHANGED vars /\ ~Erasing' /\ erase' = NotErasing /\ pc = "idle" /\ Erasing
  BY NotErasingType
     DEF EraseReturns, EraseFails, BlockDone, Returned, Erasing
<1>2. Status' # "pending" /\ mem' = mem
  BY <1>1 DEF Status, InCall, vars, eeprom, client
<1>3. blanked' => \A c \in Cells : mem[c] = Blank
  <2>1. CASE EraseFails
    BY <1>1, <2>1 DEF EraseFails, BlankInv, StaysBlank
  <2>2. CASE EraseReturns
    <3>1. BlockDone /\ erase.i + Size >= SizeInBits
      BY <2>2 DEF EraseReturns, Size
    <3>2. /\ erase.i \in Nat /\ Size \in 1..MemSize
          /\ \A j \in 0..(erase.i + Size - 1) : mem[Cell(j)] = Blank
      BY <3>1, BlankUpToHere
    <3>3. ASSUME NEW c \in Cells
          PROVE  mem[c] = Blank
      <4>1. c \in 0..(erase.i + Size - 1)
        BY <3>1, <3>2, BlockType, Sizes DEF Cells
      <4>2. Cell(c) = c
        BY CellOfItself
      <4> QED BY <3>2, <4>1, <4>2
    <3> QED BY <3>3
  <2> QED BY <2>1, <2>2
<1> QED BY <1>1, <1>2, <1>3
        DEF BlankInv, WritesBlanks, BlockBlanked, BlankBehind, StaysBlank, ErasedIsBlank, Cells

(* Every step keeps it, if the EEPROM takes every frame whole and every    *)
(* block's length is one.                                                  *)
LEMMA BlankInvSteps ==
  ASSUME BlocksFit, LoopInv, LoopInv', BlankInv, "short" \notin Faults,
         [EraseNext]_eraseVars
  PROVE  BlankInv'
<1>1. CASE ~Erasing /\ Calls /\ blanked' = FALSE /\ UNCHANGED erase
  BY <1>1 DEF Erasing, BlankInv, WritesBlanks, BlockBlanked, BlankBehind, StaysBlank
<1>2. CASE (Driver \/ AckPoll \/ Tick) /\ UNCHANGED <<erase, blanked>>
  BY <1>2, DriverBlanks DEF LoopInv
<1>3. CASE Reset /\ erase' = NotErasing /\ UNCHANGED blanked
  <2>1. ~Erasing' /\ blanked' = blanked /\ mem' = mem /\ Status' # "pending"
    BY <1>3, NotErasingType DEF Erasing, Reset, eeprom, Status, InCall
  <2> QED BY <2>1 DEF BlankInv, WritesBlanks, BlockBlanked, BlankBehind, StaysBlank,
                      ErasedIsBlank, Cells
<1>4. CASE UNCHANGED eraseVars
  <2>1. UNCHANGED StoreState /\ erase' = erase /\ blanked' = blanked
    BY <1>4, TimeUnseen DEF eraseVars
  <2>2. Size' = Size /\ Request' = Request /\ Status' = Status /\ mem' = mem
    BY <2>1 DEF Size, Block, StoreState
  <2> QED BY <2>1, <2>2
          DEF BlankInv, WritesBlanks, BlockBlanked, BlankOrAwaited, Awaited, BlankBehind,
              StaysBlank, ErasedIsBlank, Erasing, Cell
<1> QED BY <1>1, <1>2, <1>3, <1>4, ScanBlanks, RunBlanks, BlockBlanks, EndBlanks
        DEF EraseNext

---------------------------------------------------------------------------
(* The theorems                                                            *)

(* Nothing is being erased at first.                                       *)
LEMMA EraseInitially == EraseInit => LoopInv /\ BlankInv
<1> SUFFICES ASSUME EraseInit
             PROVE  LoopInv /\ BlankInv
  OBVIOUS
<1>1. Invariant /\ erase = NotErasing /\ ~Erasing /\ blanked = FALSE
  BY InvariantHolds, NotErasingType DEF EraseInit, Erasing
<1> QED BY <1>1, NotErasingType
        DEF LoopInv, LoopTypes, ReadsItsBlock, BlankInv, WritesBlanks, BlockBlanked,
            BlankBehind, StaysBlank

(* The loop's invariant holds throughout.                                  *)
LEMMA LoopInductive == EraseSpec => []LoopInv
BY EraseInitially, LoopInvSteps, PTL DEF EraseSpec

(* An erase keeps the types of the driver and of its own loop: it never    *)
(* asks for a byte that the block it read does not have.                   *)
THEOREM EraseTypes == EraseSpec => []EraseTypeOK
<1>1. LoopInv => EraseTypeOK
  BY DEF LoopInv, LoopTypes, Invariant, IInv, EraseTypeOK
<1> QED BY LoopInductive, <1>1, PTL

(* at24cs0x_erase erases: when it returns PICO_OK every cell is blank, and *)
(* stays so until something is written; for every size of memory and page, *)
(* every method, whatever the memory held, and through resets and refused  *)
(* addresses - for every block whose size is less than 256, the first that *)
(* is no uint8_t len, and if data bytes are not refused, because then      *)
(* at24cs0x_write_bytes returns PICO_OK without having written them.       *)
THEOREM EraseBlanks ==
  ASSUME BlocksFit, "short" \notin Faults
  PROVE  EraseSpec => []ErasedIsBlank
<1>1. EraseInit => BlankInv
  BY EraseInitially
<1>2. LoopInv /\ LoopInv' /\ BlankInv /\ [EraseNext]_eraseVars => BlankInv'
  BY BlankInvSteps
<1>3. BlankInv => ErasedIsBlank
  BY DEF BlankInv, StaysBlank, ErasedIsBlank
<1> QED BY LoopInductive, <1>1, <1>2, <1>3, PTL DEF EraseSpec

(* With at24cs0x_erase among the client's calls the driver still           *)
(* implements the ring of bytes of include/at24cs0x.h.                     *)
THEOREM EraseImplementsStore ==
  ASSUME "short" \notin Faults
  PROVE  EraseSpec => ImplementsStore
<1>1. EraseInit => Store!Init
  BY InitImplements DEF EraseInit
<1>2. ASSUME LoopInv, LoopInv', [EraseNext]_eraseVars
      PROVE  [Store!Next]_(Store!vars)
  <2>1. Invariant /\ Invariant' /\ LoopTypes
    BY <1>2 DEF LoopInv
  <2>2. CASE [Next]_vars
    BY <2>1, <2>2, StepsImplement DEF Store!vars, StoreState
  <2>3. CASE at24cs0x_erase
    <3>1. PICK method \in Methods : ReadBlock(method, 0)
      BY <2>3 DEF at24cs0x_erase
    <3>2. 0 \in 0..(SizeInBits - 1)
      BY BlockType, Sizes
    <3>3. Store!Begin
      BY <2>1, <3>1, <3>2, ReadBlockBegins
    <3> QED BY <3>3 DEF Store!Next
  <2>4. CASE NextBlock
    <3>1. \E op, a, n, d : Begin(op, a, n, d)
      BY <2>4, Zenon DEF NextBlock, ReadBlock
    <3>2. Store!Begin
      BY <2>1, <3>1, BeginImplements
    <3> QED BY <3>2 DEF Store!Next
  <2>5. CASE WriteRun
    <3>1. Store!Begin
      BY <2>1, <2>5, WriteRunBegins
    <3> QED BY <3>1 DEF Store!Next
  <2>6. CASE ScanBlock \/ EraseReturns \/ EraseFails \/ UNCHANGED eraseVars
    <3>1. UNCHANGED vars
      BY <2>6 DEF ScanBlock, EraseReturns, EraseFails, eraseVars
    <3> QED BY <2>2, <3>1
  <2> QED BY <1>2, <2>2, <2>3, <2>4, <2>5, <2>6 DEF EraseNext, Next
<1> QED
  BY LoopInductive, <1>1, <1>2, PTL DEF EraseSpec, ImplementsStore, Store!Spec
=============================================================================
