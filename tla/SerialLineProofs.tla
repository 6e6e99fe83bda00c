-------------------------- MODULE SerialLineProofs --------------------------
(***************************************************************************)
(* Where the line readers write outside their buffer, for every size of    *)
(* it, every line and whatever lies around it; and that they deliver what  *)
(* was typed, if the non-blocking reader is given no line too long for the *)
(* buffer.                                                                 *)
(***************************************************************************)
EXTENDS SerialLine, SequenceTheorems, TLAPS

BlockingOverlong == Overlong \subseteq {"serial_read_line_blocking"}

(* The blocking reader returns as soon as the buffer is full.              *)
RoomToRead == reader = "serial_read_line_blocking" => index < BufferSize - 1

(* The buffer holds the line as far as it has been typed; a complete one   *)
(* leaves the index at the start.                                          *)
BufferHoldsLine ==
  IF LineComplete
  THEN index = 0
  ELSE /\ Len(seen) = index
       /\ \A k \in 1..index : seen[k] # "lf" /\ data[k - 1] = seen[k]

(* The one byte outside that such lines reach: a carriage return in front  *)
(* of the buffer is stripped from an empty line.                           *)
OnlyByteBefore ==
  /\ data[BufferSize] = "text" /\ data[BufferSize + 1] = "text"
  /\ data[-1] # ByteBefore =>
       ByteBefore = "cr" /\ data[-1] = "nul" /\ settings.strip_crlf_ending

StrippedBefore ==
  /\ settings.strip_crlf_ending
  /\ ByteBefore = "cr" /\ data[-1] = "nul"
  /\ data[BufferSize] = "text" /\ data[BufferSize + 1] = "text"

LineInv ==
  /\ TypeOK
  /\ OnlyByteBefore
  /\ RoomToRead
  /\ BufferHoldsLine
  /\ ReturnsEditedLine

(* Between two keys the reader has a line of index keys, without line end. *)
LineSoFar == IF LineComplete THEN <<>> ELSE seen

(* What the buffer holds of a line, from its first positions.              *)
LEMMA LineSoFarIs ==
  ASSUME TypeOK, BufferHoldsLine
  PROVE  /\ LineSoFar \in Seq(Keys) /\ Len(LineSoFar) = index /\ index \in Nat
         /\ \A k \in 1..index : LineSoFar[k] # "lf" /\ data[k - 1] = LineSoFar[k]
<1>1. index \in Nat /\ seen \in Seq(Keys)
  BY SerialAssumption DEF TypeOK, Inside
<1>2. CASE LineComplete
  BY <1>1, <1>2 DEF LineSoFar, BufferHoldsLine
<1>3. CASE ~LineComplete
  BY <1>1, <1>3 DEF LineSoFar, BufferHoldsLine
<1> QED BY <1>2, <1>3

(* The invariant holds before anything is typed.                           *)
LEMMA InitLine == Init => LineInv
<1> SUFFICES ASSUME Init PROVE LineInv
  OBVIOUS
<1>1. /\ data \in [Inside \cup Around -> Keys] /\ OnlyByteBefore
      /\ 0 \in Inside /\ BufferSize \in Nat /\ BufferSize >= 2
  BY SerialAssumption DEF Init, Keys, Inside, Around, OnlyByteBefore
<1>2. ~LineComplete /\ Len(seen) = 0 /\ seen \in Seq(Keys)
  BY DEF Init, LineComplete
<1>3. TypeOK
  BY <1>1, <1>2 DEF Init, TypeOK, PICO_OK, PICO_ERROR_GENERIC
<1> QED
  BY <1>1, <1>2, <1>3
     DEF Init, LineInv, RoomToRead, BufferHoldsLine, ReturnsEditedLine

(* A reader is called, or finds nothing typed.                             *)
LEMMA CallLine ==
  ASSUME LineInv, serial_read_line_blocking \/ serial_read_line \/ NoKey
  PROVE  LineInv'
<1>1. /\ BufferSize \in Nat /\ BufferSize >= 2 /\ 0 \in Inside
      /\ <<>> \in Seq(Keys) /\ Len(<<>>) = 0
  BY SerialAssumption DEF Inside
<1>2. CASE serial_read_line_blocking
  <2>1. /\ seen' = <<>> /\ index' = 0 /\ reader' = "serial_read_line_blocking"
        /\ result' = PICO_OK /\ UNCHANGED <<settings, data>>
    BY <1>2 DEF serial_read_line_blocking
  <2>2. ~LineComplete'
    BY <2>1 DEF LineComplete
  <2>3. TypeOK'
    BY <1>1, <2>1 DEF LineInv, TypeOK, Readers, PICO_OK, PICO_ERROR_GENERIC
  <2> QED
    BY <1>1, <2>1, <2>2, <2>3
       DEF LineInv, OnlyByteBefore, RoomToRead, BufferHoldsLine, ReturnsEditedLine
<1>3. CASE serial_read_line
  <2>1. /\ seen' = (IF index = 0 THEN <<>> ELSE seen) /\ reader' = "serial_read_line"
        /\ result' = PICO_OK /\ UNCHANGED <<settings, data, index>>
    BY <1>3 DEF serial_read_line
  <2>2. ~LineComplete'
    <3>1. CASE index = 0
      BY <2>1, <3>1 DEF LineComplete
    <3>2. CASE index # 0
      BY <2>1, <3>2 DEF LineComplete, LineInv, BufferHoldsLine
    <3> QED BY <3>1, <3>2
  <2>3. TypeOK'
    BY <1>1, <2>1 DEF LineInv, TypeOK, Readers, PICO_OK, PICO_ERROR_GENERIC
  <2>4. BufferHoldsLine'
    <3>1. CASE index = 0
      BY <1>1, <2>1, <2>2, <3>1 DEF BufferHoldsLine
    <3>2. CASE index # 0
      BY <2>1, <2>2, <3>2 DEF LineInv, BufferHoldsLine
    <3> QED BY <3>1, <3>2
  <2> QED
    BY <2>1, <2>2, <2>3, <2>4
       DEF LineInv, OnlyByteBefore, RoomToRead, ReturnsEditedLine
<1>4. CASE NoKey
  <2>1. /\ reader # "none" /\ reader' \in {reader, "none"} /\ result' = PICO_OK
        /\ UNCHANGED <<settings, data, index, seen>>
    BY <1>4 DEF NoKey
  <2>2. LineComplete' <=> LineComplete
    BY <2>1 DEF LineComplete
  <2>3. TypeOK'
    BY <1>1, <2>1 DEF LineInv, TypeOK, PICO_OK, PICO_ERROR_GENERIC
  <2>4. RoomToRead'
    BY <2>1 DEF LineInv, RoomToRead
  <2>5. ReturnsEditedLine'
    <3>1. Delivered(seen)' = Delivered(seen)
      BY <2>1 DEF Delivered
    <3>2. LineComplete => Delivered(seen) = <<>>
      BY <2>1 DEF LineInv, ReturnsEditedLine
    <3> QED BY <2>2, <3>1, <3>2 DEF ReturnsEditedLine
  <2> QED
    BY <2>1, <2>2, <2>3, <2>4, <2>5
       DEF LineInv, OnlyByteBefore, BufferHoldsLine
<1> QED BY <1>2, <1>3, <1>4

---------------------------------------------------------------------------
(* A key is read                                                           *)

(* What a key leaves behind that does not end the line: a longer line, a   *)
(* shorter one, or the same, and no more than the buffer has room for.     *)
LEMMA LineGoesOn ==
  ASSUME LineInv, NEW line \in Seq(Keys),
         \A k \in 1..Len(line) : line[k] # "lf" /\ data'[k - 1] = line[k],
         index' = Len(line), index' \in Inside, seen' = line,
         data' \in [Inside \cup Around -> Keys], OnlyByteBefore',
         reader' \in {reader, "none"}, result' \in {PICO_OK, PICO_ERROR_GENERIC, result},
         reader' # "none" => index' < BufferSize - 1
  PROVE  LineInv'
<1>1. ~LineComplete'
  <2>1. ASSUME line # <<>>
        PROVE  Last(line) # "lf"
    <3>1. Len(line) \in 1..Len(line)
      BY <2>1
    <3> QED BY <3>1 DEF Last
  <2> QED BY <2>1 DEF LineComplete
<1>2. TypeOK'
  BY SerialAssumption DEF LineInv, TypeOK, PICO_OK, PICO_ERROR_GENERIC
<1>3. RoomToRead' /\ ReturnsEditedLine'
  BY <1>1 DEF RoomToRead, ReturnsEditedLine
<1>4. BufferHoldsLine'
  BY <1>1 DEF BufferHoldsLine
<1> QED BY <1>2, <1>3, <1>4 DEF LineInv

(* A key that is stored.                                                   *)
LEMMA StoredFits ==
  ASSUME LineInv, index < BufferSize - 1, NEW key \in Keys
  PROVE  LET p == Stored(key) IN
         /\ p.data \in [Inside \cup Around -> Keys]
         /\ \A k \in Around : p.data[k] = data[k]
         /\ p.data[index] = key /\ \A k \in 0..(index - 1) : p.data[k] = data[k]
         /\ p.index = index + 1
         /\ p.ret = IF index + 1 < BufferSize - 1 THEN PICO_OK ELSE PICO_ERROR_GENERIC
<1> DEFINE d == [data EXCEPT ![index] = key]
           full == [d EXCEPT ![BufferSize - 1] = "nul"]
<1>1. /\ data \in [Inside \cup Around -> Keys] /\ index \in Inside /\ index \in Nat
      /\ BufferSize \in Nat /\ BufferSize - 1 \in Inside /\ "nul" \in Keys
      /\ \A k \in Around : k # index /\ k # BufferSize - 1 /\ k \in Inside \cup Around
      /\ \A k \in 0..(index - 1) : k # index /\ k # BufferSize - 1 /\ k \in Inside \cup Around
  BY SerialAssumption DEF LineInv, TypeOK, Inside, Around, Keys
<1>2. /\ d \in [Inside \cup Around -> Keys] /\ d[index] = key
      /\ \A k \in Inside \cup Around : k # index => d[k] = data[k]
  BY <1>1
<1> HIDE DEF d
<1>3. /\ full \in [Inside \cup Around -> Keys] /\ full[index] = key
      /\ \A k \in Inside \cup Around : k # index /\ k # BufferSize - 1 => full[k] = data[k]
  BY <1>1, <1>2
<1> HIDE DEF full
<1> DEFINE p == Stored(key)
<1>4. CASE Full(index + 1)
  <2>1. Stored(key) = [data |-> full, index |-> index + 1, ret |-> PICO_ERROR_GENERIC]
    BY <1>4 DEF Stored, Parsed, full, d
  <2>2. ~(index + 1 < BufferSize - 1)
    BY <1>1, <1>4 DEF Full
  <2>3. p.data = full /\ p.index = index + 1 /\ p.ret = PICO_ERROR_GENERIC
    BY <2>1
  <2>4. \A k \in Around : full[k] = data[k]
    BY <1>1, <1>3
  <2>5. full[index] = key /\ \A k \in 0..(index - 1) : full[k] = data[k]
    BY <1>1, <1>3
  <2> HIDE DEF p
  <2> QED BY <1>3, <2>2, <2>3, <2>4, <2>5 DEF p
<1>5. CASE ~Full(index + 1)
  <2>1. Stored(key) = [data |-> d, index |-> index + 1, ret |-> PICO_OK]
    BY <1>5 DEF Stored, Parsed, d
  <2>2. index + 1 < BufferSize - 1
    BY <1>1, <1>5 DEF Full
  <2>3. p.data = d /\ p.index = index + 1 /\ p.ret = PICO_OK
    BY <2>1
  <2>4. \A k \in Around : d[k] = data[k]
    BY <1>1, <1>2
  <2>5. d[index] = key /\ \A k \in 0..(index - 1) : d[k] = data[k]
    BY <1>1, <1>2
  <2> HIDE DEF p
  <2> QED BY <1>2, <2>2, <2>3, <2>4, <2>5 DEF p
<1> QED BY <1>4, <1>5

(* A backspace.                                                            *)
LEMMA BackspacedFits ==
  ASSUME LineInv
  PROVE  LET p == Backspaced IN
         /\ p.data \in [Inside \cup Around -> Keys]
         /\ \A k \in Around : p.data[k] = data[k]
         /\ p.index = IF index > 0 THEN index - 1 ELSE index
         /\ \A k \in 0..(p.index - 1) : p.data[k] = data[k]
         /\ p.ret = PICO_OK
<1> DEFINE i == IF index > 0 THEN index - 1 ELSE index
           d == [data EXCEPT ![i] = "nul"]
<1>1. /\ data \in [Inside \cup Around -> Keys] /\ i \in Inside /\ i \in Nat /\ "nul" \in Keys
      /\ \A k \in Around : k # i /\ k \in Inside \cup Around
      /\ \A k \in 0..(i - 1) : k # i /\ k \in Inside \cup Around
  BY SerialAssumption DEF LineInv, TypeOK, Inside, Around, Keys
<1>2. /\ d \in [Inside \cup Around -> Keys]
      /\ \A k \in Inside \cup Around : k # i => d[k] = data[k]
  BY <1>1
<1>3. Backspaced = [data |-> IF settings.del_on_backspace THEN d ELSE data,
                    index |-> i, ret |-> PICO_OK]
  BY DEF Backspaced, Parsed
<1>4. Backspaced.index = i
  BY <1>3
<1> HIDE DEF d
<1> QED BY <1>1, <1>2, <1>3, <1>4

(* A line end: the length it returns is that of what is delivered, which   *)
(* the buffer holds, and a Null behind it.                                 *)
LEMMA LineEndedFits ==
  ASSUME LineInv, index < BufferSize - 1
  PROVE  LET p == LineEnded
             line == Delivered(Append(LineSoFar, "lf"))
         IN
         /\ p.data \in [Inside \cup Around -> Keys]
         /\ \A k \in Around :
              p.data[k] # data[k] =>
                k = -1 /\ p.data[k] = "nul" /\ data[k] = "cr" /\ settings.strip_crlf_ending
         /\ p.index = 0
         /\ p.ret \in -1..(BufferSize - 1)
         /\ line # <<>> =>
              /\ p.ret = Len(line) /\ p.ret > 0
              /\ \A k \in 1..Len(line) : p.data[k - 1] = line[k]
              /\ p.data[Len(line)] = "nul"
<1> DEFINE d == [data EXCEPT ![index] = "lf", ![index + 1] = "nul"]
           n == StrippedLength(d, index)
           e == [k \in DOMAIN d |-> IF k \in n..index THEN "nul" ELSE d[k]]
           s == Append(LineSoFar, "lf")
           line == Delivered(s)
<1>1. /\ data \in [Inside \cup Around -> Keys] /\ index \in Inside /\ index \in Nat
      /\ index + 1 \in Inside /\ "nul" \in Keys /\ "lf" \in Keys
      /\ BufferSize \in Nat /\ BufferSize >= 2
      /\ \A k \in Around : k \notin Inside /\ k \in Inside \cup Around
      /\ Inside = 0..(BufferSize - 1) /\ -1 \in Around
  BY SerialAssumption DEF LineInv, TypeOK, Inside, Around, Keys
<1>2. /\ d \in [Inside \cup Around -> Keys] /\ DOMAIN d = Inside \cup Around
      /\ d[index] = "lf" /\ d[index + 1] = "nul"
      /\ \A k \in Inside \cup Around : k # index /\ k # index + 1 => d[k] = data[k]
  <2> DEFINE ended == [data EXCEPT ![index] = "lf"]
  <2>1. /\ ended \in [Inside \cup Around -> Keys] /\ ended[index] = "lf"
        /\ \A k \in Inside \cup Around : k # index => ended[k] = data[k]
    BY <1>1
  <2>2. d = [ended EXCEPT ![index + 1] = "nul"]
    OBVIOUS
  <2> HIDE DEF ended, d
  <2> QED BY <1>1, <2>1, <2>2
<1> HIDE DEF d
<1>3. /\ LineSoFar \in Seq(Keys) /\ Len(LineSoFar) = index
      /\ \A k \in 1..index : LineSoFar[k] # "lf" /\ data[k - 1] = LineSoFar[k]
  BY LineSoFarIs DEF LineInv
<1>4. /\ s \in Seq(Keys) /\ Len(s) = index + 1 /\ s[index + 1] = "lf"
      /\ \A k \in 1..index : s[k] = LineSoFar[k] /\ s[k] = data[k - 1]
  BY <1>1, <1>3
<1> HIDE DEF s
<1>5. \A k \in 1..(index + 1) : d[k - 1] = s[k]
  BY <1>1, <1>2, <1>4
<1>6. LineEnded = [data |-> e, index |-> 0, ret |-> n]
  BY DEF LineEnded, Parsed, d
<1>7. DOMAIN e = Inside \cup Around /\ (n \in Int => e \in [Inside \cup Around -> Keys])
  BY <1>1, <1>2
<1>8. CASE settings.strip_crlf_ending /\ index = 0 /\ data[-1] = "cr"
  <2>1. d[index - 1] = "cr"
    BY <1>1, <1>2, <1>8
  <2>2. n = -1
    BY <1>8, <2>1 DEF StrippedLength
  <2>3. line = <<>>
    <3>1. line = SubSeq(s, 1, 0)
      BY <1>4, <1>8 DEF Delivered
    <3> QED BY <1>4, <3>1
  <2>4. \A k \in Around : k # -1 => e[k] = data[k]
    <3> SUFFICES ASSUME NEW k \in Around, k # -1
                 PROVE  e[k] = data[k]
      OBVIOUS
    <3>1. k \notin n..index /\ k # index /\ k # index + 1 /\ k \in DOMAIN d
      BY <1>1, <1>2, <1>8, <2>2 DEF Around
    <3> QED BY <1>1, <1>2, <3>1
  <2>5. e[-1] = "nul"
    BY <1>1, <1>2, <1>8, <2>2
  <2> HIDE DEF e, n, line
  <2> QED BY <1>1, <1>6, <1>7, <1>8, <2>2, <2>3, <2>4, <2>5 DEF line, s
<1>9. CASE ~(settings.strip_crlf_ending /\ index = 0 /\ data[-1] = "cr")
  <2>1. n \in 0..(index + 1) /\ Len(line) = n /\ \A k \in 1..n : line[k] = s[k]
    <3>1. CASE ~settings.strip_crlf_ending
      <4>1. n = index + 1 /\ line = s
        BY <3>1 DEF StrippedLength, Delivered
      <4> QED BY <1>1, <1>4, <4>1
    <3>2. CASE settings.strip_crlf_ending /\ index > 0 /\ s[index] = "cr"
      <4>1. d[index - 1] = "cr"
        BY <1>1, <1>5, <3>2
      <4>2. n = index - 1
        BY <3>2, <4>1 DEF StrippedLength
      <4>3. line = SubSeq(s, 1, index - 1)
        BY <1>1, <1>4, <3>2 DEF Delivered
      <4> QED BY <1>1, <1>4, <3>2, <4>2, <4>3
    <3>3. CASE settings.strip_crlf_ending /\ ~(index > 0 /\ s[index] = "cr")
      <4>1. d[index - 1] # "cr"
        <5>1. CASE index > 0
          BY <1>1, <1>5, <3>3, <5>1
        <5>2. CASE index = 0
          BY <1>1, <1>2, <1>9, <3>3, <5>2
        <5> QED BY <1>1, <5>1, <5>2
      <4>2. n = index
        BY <3>3, <4>1 DEF StrippedLength
      <4>3. line = SubSeq(s, 1, index)
        BY <1>1, <1>4, <3>3 DEF Delivered
      <4> QED BY <1>1, <1>4, <4>2, <4>3
    <3> QED BY <3>1, <3>2, <3>3
  <2> HIDE DEF n, line
  <2>2. \A k \in Around : e[k] = data[k]
    <3> TAKE k \in Around
    <3>1. k \notin n..index /\ k # index /\ k # index + 1 /\ k \in DOMAIN d
      BY <1>1, <1>2, <2>1
    <3> QED BY <1>1, <1>2, <3>1
  <2>3. \A k \in 1..n : e[k - 1] = line[k]
    <3> TAKE k \in 1..n
    <3>1. k - 1 \notin n..index /\ k - 1 \in Inside /\ k \in 1..(index + 1)
      BY <1>1, <2>1
    <3> QED BY <1>2, <1>5, <2>1, <3>1
  <2>4. e[n] = "nul"
    <3>1. n \in DOMAIN d
      BY <1>1, <1>2, <2>1
    <3>2. CASE n \in n..index
      BY <3>1, <3>2
    <3>3. CASE n = index + 1
      BY <1>1, <1>2, <3>1, <3>3
    <3> QED BY <1>1, <2>1, <3>2, <3>3
  <2>5. n \in 0..(BufferSize - 1)
    BY <1>1, <2>1
  <2>6. line # <<>> => n > 0
    BY <2>1
  <2> HIDE DEF e
  <2> QED BY <1>6, <1>7, <2>1, <2>2, <2>3, <2>4, <2>5, <2>6 DEF s, line
<1> QED BY <1>8, <1>9

(* Whatever key is read, if it fits or the reader ends the line itself.    *)
LEMMA KeyLine ==
  ASSUME LineInv, BlockingOverlong, ReadKey
  PROVE  LineInv'
<1> DEFINE line == LineSoFar
<1>1. PICK key \in Keys :
        LET p == parse_character(key) IN
        /\ reader # "none"
        /\ reader \in Overlong \/ (~Full(index) /\ p.ret # PICO_ERROR_GENERIC)
        /\ data' = p.data
        /\ index' = p.index
        /\ seen' = Edited(line, key)
        /\ IF Returns(p.ret)
           THEN reader' = "none" /\ result' = p.ret
           ELSE UNCHANGED <<reader, result>>
        /\ UNCHANGED settings
  BY DEF ReadKey, LineSoFar
<1> DEFINE p == parse_character(key)
<1>2. /\ BufferSize \in Nat /\ BufferSize >= 2 /\ index \in Nat /\ Inside = 0..(BufferSize - 1)
      /\ data \in [Inside \cup Around -> Keys] /\ index \in Inside
      /\ TypeOK /\ OnlyByteBefore /\ RoomToRead /\ BufferHoldsLine
      /\ reader \in {"serial_read_line_blocking", "serial_read_line"}
  BY <1>1, SerialAssumption DEF LineInv, TypeOK, Inside, Readers
<1>3. /\ line \in Seq(Keys) /\ Len(line) = index
      /\ \A k \in 1..index : line[k] # "lf" /\ data[k - 1] = line[k]
  BY <1>2, LineSoFarIs
<1> HIDE DEF line
<1>4. index < BufferSize - 1
  BY <1>1, <1>2 DEF BlockingOverlong, RoomToRead, Full
<1>5. ASSUME \A k \in Around :
               data'[k] # data[k] =>
                 k = -1 /\ data'[k] = "nul" /\ data[k] = "cr" /\ settings.strip_crlf_ending
      PROVE  OnlyByteBefore'
  BY <1>1, <1>2, <1>5 DEF OnlyByteBefore, Around
<1>6. CASE Ignored(key)
  <2>0. key # "lf" /\ ~(key = "bs" /\ ~settings.raw_input)
    BY <1>6 DEF Ignored
  <2>1. p = [data |-> data, index |-> index, ret |-> PICO_OK] /\ Edited(line, key) = line
    BY <1>6, <2>0 DEF parse_character, Parsed, Edited
  <2>2. p.data = data /\ p.index = index /\ p.ret = PICO_OK
    BY <2>1
  <2>3. data' = data /\ index' = index /\ seen' = line /\ UNCHANGED <<reader, result>>
    BY <1>1, <2>1, <2>2 DEF Returns, PICO_OK
  <2> QED BY <1>2, <1>3, <1>4, <1>5, <2>3, LineGoesOn
<1>7. CASE key = "bs" /\ ~settings.raw_input
  <2> DEFINE b == Backspaced
             shorter == IF line = <<>> THEN line ELSE Front(line)
  <2>1. ~Ignored(key)
    BY <1>7 DEF Ignored
  <2>2. p = b /\ Edited(line, key) = shorter
    BY <1>7, <2>1 DEF parse_character, Edited
  <2>3. /\ b.data \in [Inside \cup Around -> Keys]
        /\ \A k \in Around : b.data[k] = data[k]
        /\ b.index = IF index > 0 THEN index - 1 ELSE index
        /\ \A k \in 0..(b.index - 1) : b.data[k] = data[k]
        /\ b.ret = PICO_OK
    BY BackspacedFits
  <2>4. /\ shorter \in Seq(Keys) /\ Len(shorter) = b.index
        /\ \A k \in 1..Len(shorter) : shorter[k] = line[k]
    <3>1. CASE line = <<>>
      BY <1>2, <1>3, <2>3, <3>1
    <3>2. CASE line # <<>>
      <4>1. shorter = SubSeq(line, 1, Len(line) - 1) /\ index > 0
        BY <1>2, <1>3, <3>2 DEF Front
      <4>2. Len(line) - 1 \in 0..Len(line) /\ b.index = Len(line) - 1
        BY <1>2, <1>3, <2>3, <4>1
      <4> HIDE DEF shorter, b
      <4>3. /\ SubSeq(line, 1, Len(line) - 1) \in Seq(Keys)
            /\ Len(SubSeq(line, 1, Len(line) - 1)) = Len(line) - 1
            /\ \A k \in 1..(Len(line) - 1) : SubSeq(line, 1, Len(line) - 1)[k] = line[k]
        BY <1>3, <4>2
      <4> QED BY <4>1, <4>2, <4>3
    <3> QED BY <3>1, <3>2
  <2> HIDE DEF b, shorter
  <2>5. /\ data' = b.data /\ index' = b.index /\ seen' = shorter
        /\ UNCHANGED <<reader, result>>
    BY <1>1, <2>2, <2>3 DEF Returns, PICO_OK
  <2>6. \A k \in 1..Len(shorter) : shorter[k] # "lf" /\ data'[k - 1] = shorter[k]
    <3> SUFFICES ASSUME NEW k \in 1..Len(shorter)
                 PROVE  shorter[k] # "lf" /\ data'[k - 1] = shorter[k]
      OBVIOUS
    <3>1. k \in 1..index /\ k - 1 \in 0..(b.index - 1)
      BY <1>2, <2>3, <2>4
    <3>2. line[k] # "lf" /\ data[k - 1] = line[k]
      BY <1>3, <3>1
    <3> QED BY <2>3, <2>4, <2>5, <3>1, <3>2
  <2>7. index' \in Inside /\ index' < BufferSize - 1
    BY <1>2, <1>4, <2>3, <2>5
  <2> QED BY <1>5, <2>3, <2>4, <2>5, <2>6, <2>7, LineGoesOn
<1>8. CASE key = "lf"
  <2> DEFINE e == LineEnded
             delivered == Delivered(Append(line, "lf"))
  <2>1. ~Ignored(key) /\ ~(key = "bs" /\ ~settings.raw_input)
    BY <1>8 DEF Ignored
  <2>2. p = e /\ Edited(line, key) = Append(line, "lf")
    BY <1>8, <2>1 DEF parse_character, Edited
  <2>3. /\ e.data \in [Inside \cup Around -> Keys]
        /\ \A k \in Around :
             e.data[k] # data[k] =>
               k = -1 /\ e.data[k] = "nul" /\ data[k] = "cr" /\ settings.strip_crlf_ending
        /\ e.index = 0
        /\ e.ret \in -1..(BufferSize - 1)
        /\ delivered # <<>> =>
             /\ e.ret = Len(delivered) /\ e.ret > 0
             /\ \A k \in 1..Len(delivered) : e.data[k - 1] = delivered[k]
             /\ e.data[Len(delivered)] = "nul"
    BY <1>4, LineEndedFits DEF line
  <2>4. Delivered(seen)' = delivered
    BY <1>1, <2>2 DEF Delivered
  <2> HIDE DEF e, delivered
  <2>6. /\ data' = e.data /\ index' = 0 /\ seen' = Append(line, "lf")
        /\ IF Returns(e.ret)
           THEN reader' = "none" /\ result' = e.ret
           ELSE UNCHANGED <<reader, result>>
    BY <1>1, <2>2, <2>3
  <2>7. delivered # <<>> => Returns(e.ret)
    BY <2>3 DEF Returns, PICO_OK
  <2>8. /\ seen' \in Seq(Keys) /\ LineComplete'
    <3>1. /\ Append(line, "lf") \in Seq(Keys) /\ Len(Append(line, "lf")) = index + 1
          /\ Append(line, "lf")[index + 1] = "lf"
      BY <1>2, <1>3 DEF Keys
    <3>2. Append(line, "lf") # <<>>
      BY <1>2, <3>1
    <3> QED BY <2>6, <3>1, <3>2 DEF LineComplete, Last
  <2>9. TypeOK'
    BY <1>2, <2>3, <2>6, <2>8 DEF TypeOK, PICO_ERROR_GENERIC
  <2>10. OnlyByteBefore'
    BY <1>5, <2>3, <2>6
  <2>11. RoomToRead' /\ BufferHoldsLine'
    BY <1>2, <2>6, <2>8 DEF RoomToRead, BufferHoldsLine
  <2>12. ReturnsEditedLine'
    BY <2>3, <2>4, <2>6, <2>7 DEF ReturnsEditedLine
  <2> QED BY <2>9, <2>10, <2>11, <2>12 DEF LineInv
<1>9. CASE ~Ignored(key) /\ ~(key = "bs" /\ ~settings.raw_input) /\ key # "lf"
  <2> DEFINE t == Stored(key)
             longer == Append(line, key)
  <2>1. p = t /\ Edited(line, key) = longer
    BY <1>9 DEF parse_character, Edited
  <2>2. /\ t.data \in [Inside \cup Around -> Keys]
        /\ \A k \in Around : t.data[k] = data[k]
        /\ t.data[index] = key /\ \A k \in 0..(index - 1) : t.data[k] = data[k]
        /\ t.index = index + 1
        /\ t.ret = IF index + 1 < BufferSize - 1 THEN PICO_OK ELSE PICO_ERROR_GENERIC
    BY <1>4, StoredFits
  <2>3. /\ longer \in Seq(Keys) /\ Len(longer) = index + 1
        /\ longer[index + 1] = key /\ \A k \in 1..index : longer[k] = line[k]
    BY <1>2, <1>3
  <2> HIDE DEF t, longer
  <2>4. /\ data' = t.data /\ index' = index + 1 /\ seen' = longer
        /\ IF Returns(t.ret)
           THEN reader' = "none" /\ result' = t.ret
           ELSE UNCHANGED <<reader, result>>
        /\ reader \in Overlong \/ t.ret # PICO_ERROR_GENERIC
    BY <1>1, <2>1, <2>2
  <2>5. \A k \in 1..Len(longer) : longer[k] # "lf" /\ data'[k - 1] = longer[k]
    <3> TAKE k \in 1..Len(longer)
    <3>1. CASE k = index + 1
      BY <1>2, <1>9, <2>2, <2>3, <2>4, <3>1
    <3>2. CASE k \in 1..index
      BY <1>2, <1>3, <2>2, <2>3, <2>4, <3>2
    <3> QED BY <1>2, <2>3, <3>1, <3>2
  <2>6. index' \in Inside
    BY <1>2, <1>4, <2>4
  <2>7. /\ reader' \in {reader, "none"} /\ result' \in {PICO_OK, PICO_ERROR_GENERIC, result}
        /\ reader' # "none" => index' < BufferSize - 1
    BY <1>2, <2>2, <2>4 DEF Returns, PICO_OK, PICO_ERROR_GENERIC, BlockingOverlong
  <2> QED BY <1>5, <2>2, <2>3, <2>4, <2>5, <2>6, <2>7, LineGoesOn
<1> QED BY <1>6, <1>7, <1>8, <1>9

---------------------------------------------------------------------------
(* Any line, in any reader                                                 *)

(* The index may be past the end, but not while the blocking reader reads. *)
Placed ==
  /\ data \in [Inside \cup Around -> Keys]
  /\ index \in 0..(BufferSize + 1)
  /\ reader \in Readers \cup {"none"}
  /\ RoomToRead

Past == {BufferSize, BufferSize + 1}

(* A write before the buffer is the line end of an empty line behind a CR; *)
(* one past its end is a key of the non-blocking reader that comes after   *)
(* the buffer was reported full.                                           *)
OutsideWrite ==
  /\ data'[-1] # data[-1] =>
       settings.strip_crlf_ending /\ index = 0 /\ data[-1] = "cr"
  /\ \A k \in Past :
       data'[k] # data[k] => reader = "serial_read_line" /\ index >= BufferSize - 1

(* What parse_character may do, whatever the index.                        *)
LEMMA KeyPlaced ==
  ASSUME Placed, NEW key \in Keys, index <= BufferSize,
         reader = "serial_read_line_blocking" => index < BufferSize - 1
  PROVE  LET p == parse_character(key) IN
         /\ p.data \in [Inside \cup Around -> Keys]
         /\ p.index \in 0..(BufferSize + 1)
         /\ p.ret = PICO_OK => p.index <= index \/ p.index < BufferSize - 1
         /\ p.data[-1] # data[-1] =>
              settings.strip_crlf_ending /\ index = 0 /\ data[-1] = "cr"
         /\ \A k \in Past : p.data[k] # data[k] => index >= BufferSize - 1
<1>1. /\ data \in [Inside \cup Around -> Keys] /\ index \in 0..BufferSize
      /\ BufferSize \in Nat /\ BufferSize >= 2
      /\ Inside \cup Around = -1..(BufferSize + 1)
      /\ {"nul", "lf"} \subseteq Keys
  BY SerialAssumption DEF Placed, Inside, Around, Keys
<1>2. CASE Ignored(key)
  <2>1. key # "lf" /\ ~(key = "bs" /\ ~settings.raw_input)
    BY <1>2 DEF Ignored
  <2>2. parse_character(key) = [data |-> data, index |-> index, ret |-> PICO_OK]
    BY <1>2, <2>1 DEF parse_character, Parsed
  <2> QED BY <1>1, <2>2
<1>3. CASE key = "bs" /\ ~settings.raw_input
  <2> DEFINE i == IF index > 0 THEN index - 1 ELSE index
             d == IF settings.del_on_backspace THEN [data EXCEPT ![i] = "nul"] ELSE data
  <2>1. ~Ignored(key)
    BY <1>3 DEF Ignored
  <2>2. parse_character(key) = [data |-> d, index |-> i, ret |-> PICO_OK]
    BY <1>3, <2>1 DEF parse_character, Backspaced, Parsed
  <2>3. i \in 0..(BufferSize - 1) /\ i <= index
    BY <1>1
  <2> HIDE DEF i
  <2>4. /\ d \in [Inside \cup Around -> Keys]
        /\ \A k \in Inside \cup Around : k # i => d[k] = data[k]
    BY <1>1, <2>3
  <2>5. \A k \in Past \cup {-1} : d[k] = data[k]
    BY <1>1, <2>3, <2>4 DEF Past
  <2> HIDE DEF d
  <2> QED BY <1>1, <2>2, <2>3, <2>4, <2>5
<1>4. CASE key = "lf"
  <2> DEFINE ended == [data EXCEPT ![index] = "lf"]
             d == [data EXCEPT ![index] = "lf", ![index + 1] = "nul"]
             n == StrippedLength(d, index)
             e == [k \in DOMAIN d |-> IF k \in n..index THEN "nul" ELSE d[k]]
  <2>1. ~Ignored(key) /\ ~(key = "bs" /\ ~settings.raw_input)
    BY <1>4 DEF Ignored
  <2>2. parse_character(key) = [data |-> e, index |-> 0, ret |-> n]
    BY <1>4, <2>1 DEF parse_character, LineEnded, Parsed
  <2>3. /\ ended \in [Inside \cup Around -> Keys]
        /\ \A k \in Inside \cup Around : k # index => ended[k] = data[k]
    BY <1>1
  <2>4. d = [ended EXCEPT ![index + 1] = "nul"]
    OBVIOUS
  <2> HIDE DEF ended, d
  <2>5. /\ d \in [Inside \cup Around -> Keys] /\ DOMAIN d = Inside \cup Around
        /\ \A k \in Inside \cup Around : k # index /\ k # index + 1 => d[k] = data[k]
    BY <1>1, <2>3, <2>4
  <2>6. /\ n \in {index - 1, index, index + 1}
        /\ n = index - 1 => settings.strip_crlf_ending /\ d[index - 1] = "cr"
    BY <1>1 DEF StrippedLength
  <2> HIDE DEF n
  <2>7. /\ e \in [Inside \cup Around -> Keys]
        /\ \A k \in Inside \cup Around :
             k \notin n..index /\ k # index + 1 => e[k] = d[k] \/ k = index
    BY <1>1, <2>5, <2>6
  <2>8. ASSUME e[-1] # data[-1]
        PROVE  settings.strip_crlf_ending /\ index = 0 /\ data[-1] = "cr"
    <3>1. d[-1] = data[-1] /\ -1 \in Inside \cup Around
      BY <1>1, <2>5
    <3>2. -1 \in n..index
      BY <1>1, <2>7, <2>8, <3>1
    <3>3. n = -1 /\ index = 0
      BY <1>1, <2>6, <3>2
    <3> QED BY <1>1, <2>6, <3>1, <3>3
  <2>9. ASSUME NEW k \in Past, e[k] # data[k]
        PROVE  index >= BufferSize - 1
    <3>1. k \in Inside \cup Around /\ k >= BufferSize
      BY <1>1 DEF Past
    <3>2. SUFFICES ASSUME index < BufferSize - 1
                   PROVE  FALSE
      BY <1>1
    <3>3. k \notin n..index /\ k # index /\ k # index + 1
      BY <1>1, <3>1, <3>2
    <3> QED BY <2>5, <2>7, <2>9, <3>1, <3>3
  <2> HIDE DEF e
  <2>10. parse_character(key).data = e /\ parse_character(key).index = 0
    BY <2>2
  <2> QED BY <1>1, <2>7, <2>8, <2>9, <2>10
<1>5. CASE ~Ignored(key) /\ ~(key = "bs" /\ ~settings.raw_input) /\ key # "lf"
  <2> DEFINE d == [data EXCEPT ![index] = key]
             full == [d EXCEPT ![BufferSize - 1] = "nul"]
  <2>1. parse_character(key) = Stored(key)
    BY <1>5 DEF parse_character
  <2>2. /\ d \in [Inside \cup Around -> Keys]
        /\ \A k \in Inside \cup Around : k # index => d[k] = data[k]
    BY <1>1
  <2> HIDE DEF d
  <2>3. /\ full \in [Inside \cup Around -> Keys]
        /\ \A k \in Inside \cup Around : k # index /\ k # BufferSize - 1 => full[k] = data[k]
    BY <1>1, <2>2
  <2> HIDE DEF full
  <2>4. Stored(key) = IF Full(index + 1)
                      THEN [data |-> full, index |-> index + 1, ret |-> PICO_ERROR_GENERIC]
                      ELSE [data |-> d, index |-> index + 1, ret |-> PICO_OK]
    BY DEF Stored, Parsed, full, d
  <2>5. /\ Stored(key).data \in {d, full} /\ Stored(key).index = index + 1
        /\ Stored(key).ret = PICO_OK => ~Full(index + 1)
    BY <2>4 DEF PICO_OK, PICO_ERROR_GENERIC
  <2>6. ASSUME NEW f \in {d, full}
        PROVE  /\ f \in [Inside \cup Around -> Keys]
               /\ f[-1] = data[-1]
               /\ \A k \in Past : f[k] # data[k] => index >= BufferSize - 1
    BY <1>1, <2>2, <2>3 DEF Past
  <2>7. Stored(key).ret = PICO_OK => Stored(key).index < BufferSize - 1
    BY <1>1, <2>5 DEF Full
  <2> QED BY <1>1, <2>1, <2>5, <2>6, <2>7
<1> QED BY <1>2, <1>3, <1>4, <1>5

(* Each step leaves the index where it can be, and writes no more outside. *)
LEMMA StepPlaced ==
  ASSUME Placed, [Next]_vars
  PROVE  Placed' /\ [OutsideWrite]_vars
<1>1. BufferSize \in Nat /\ BufferSize >= 2
  BY SerialAssumption
<1>2. CASE \/ serial_read_line_blocking \/ serial_read_line \/ NoKey \/ UNCHANGED vars
  <2>1. UNCHANGED data
    BY <1>2 DEF serial_read_line_blocking, serial_read_line, NoKey, vars
  <2>2. Placed'
    BY <1>1, <1>2
       DEF Placed, RoomToRead, Readers, serial_read_line_blocking, serial_read_line, NoKey, vars
  <2> QED BY <2>1, <2>2 DEF OutsideWrite
<1>3. CASE ReadKey
  <2>1. PICK key \in Keys :
          LET p == parse_character(key) IN
          /\ reader # "none" /\ index <= BufferSize
          /\ data' = p.data /\ index' = p.index
          /\ IF Returns(p.ret) THEN reader' = "none" ELSE reader' = reader
    BY <1>3 DEF ReadKey
  <2> DEFINE p == parse_character(key)
  <2>2. /\ p.data \in [Inside \cup Around -> Keys]
        /\ p.index \in 0..(BufferSize + 1)
        /\ p.ret = PICO_OK => p.index <= index \/ p.index < BufferSize - 1
        /\ p.data[-1] # data[-1] =>
             settings.strip_crlf_ending /\ index = 0 /\ data[-1] = "cr"
        /\ \A k \in Past : p.data[k] # data[k] => index >= BufferSize - 1
    BY <2>1, KeyPlaced DEF Placed, RoomToRead
  <2> HIDE DEF p
  <2>3. /\ data' = p.data /\ index' = p.index
        /\ IF Returns(p.ret) THEN reader' = "none" ELSE reader' = reader
    BY <2>1 DEF p
  <2>4. /\ index \in 0..(BufferSize + 1) /\ reader \in Readers /\ reader # "none"
        /\ reader = "serial_read_line_blocking" => index < BufferSize - 1
    BY <2>1 DEF Placed, RoomToRead, Readers
  <2>5. RoomToRead'
    BY <1>1, <2>2, <2>3, <2>4 DEF RoomToRead, Returns
  <2>6. Placed'
    BY <2>2, <2>3, <2>4, <2>5 DEF Placed
  <2>7. OutsideWrite
    BY <1>1, <2>2, <2>3, <2>4 DEF OutsideWrite, Readers
  <2> QED BY <2>6, <2>7
<1> QED BY <1>2, <1>3 DEF Next

---------------------------------------------------------------------------
(* The theorems                                                            *)

(* So it is an invariant.                                                  *)
LEMMA LineInvariant ==
  ASSUME BlockingOverlong
  PROVE  Spec => []LineInv
<1>1. LineInv /\ [Next]_vars => LineInv'
  <2>1. ASSUME LineInv, UNCHANGED vars
        PROVE  LineInv'
    BY <2>1
       DEF vars, LineInv, TypeOK, OnlyByteBefore, RoomToRead, BufferHoldsLine,
           ReturnsEditedLine, LineComplete, Delivered
  <2> QED BY <2>1, CallLine, KeyLine DEF Next
<1> QED BY InitLine, <1>1, PTL DEF Spec

(* The index stays in the buffer and what is returned below its size.      *)
THEOREM LineTypes ==
  ASSUME BlockingOverlong
  PROVE  Spec => []TypeOK
<1>1. LineInv => TypeOK
  BY DEF LineInv
<1> QED BY <1>1, LineInvariant, PTL

(* Nothing is written outside buffer->data, however long the lines of the  *)
(* blocking reader; but for a carriage return in the byte before it, which *)
(* an empty line loses when line ends are stripped.                        *)
THEOREM NothingOutside ==
  ASSUME BlockingOverlong
  PROVE  Spec => [](WritesStayInside \/ StrippedBefore)
<1>1. LineInv => WritesStayInside \/ StrippedBefore
  BY DEF LineInv, OnlyByteBefore, WritesStayInside, StrippedBefore
<1> QED BY <1>1, LineInvariant, PTL

(* Whatever is typed, in whatever reader, and whatever lies before the     *)
(* buffer, parse_character writes outside it in two ways only: it strips a *)
(* carriage return it finds before the buffer from an empty line, and it   *)
(* stores the keys a non-blocking reader takes once the buffer is full.    *)
THEOREM OutsideInTwoWays == Spec => [][OutsideWrite]_vars
<1>1. Init => Placed
  BY SerialAssumption DEF Init, Placed, RoomToRead, Inside, Around, Keys
<1> QED BY <1>1, StepPlaced, PTL DEF Spec

(* Both readers return the length of the line as the user sees it, and the *)
(* buffer holds it, through backspaces, ignored keys, stripped line ends   *)
(* and any number of calls.                                                *)
THEOREM LinesDelivered ==
  ASSUME BlockingOverlong
  PROVE  Spec => []ReturnsEditedLine
<1>1. LineInv => ReturnsEditedLine
  BY DEF LineInv
<1> QED BY <1>1, LineInvariant, PTL
=============================================================================
