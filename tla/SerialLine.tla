----------------------------- MODULE SerialLine -----------------------------
(***************************************************************************)
(* The line readers of src/serial_io_utils.c, a user who types, and a      *)
(* program that calls one reader or the other on the same buffer.  What is *)
(* echoed is left out; so are the special-character callbacks, which do    *)
(* not touch the buffer.                                                   *)
(***************************************************************************)
EXTENDS Integers, SequencesExt

CONSTANTS
  BufferSize,  \* buffer->size
  Overlong,    \* readers during which lines too long to fit are typed
  ByteBefore   \* what lies in memory just before buffer->data

(* "text" stands for every character that is always stored, "ctl" for the  *)
(* control characters that are stored in raw mode only.                    *)
Keys == {"text", "ctl", "nul", "bs", "cr", "lf"}
Readers == {"serial_read_line_blocking", "serial_read_line"}

ASSUME SerialAssumption ==
  /\ BufferSize \in Nat /\ BufferSize >= 2
  /\ Overlong \subseteq Readers
  /\ ByteBefore \in Keys

VARIABLES
  settings,  \* the settings that reach the buffer
  data,      \* buffer->data, and the memory around it
  index,     \* buffer->index; -1 is the unsigned 0 - 1
  reader,    \* the reader the program is in, or "none"
  result,    \* what the last reader returned, 0 inside a call
  seen       \* history: the line as its user sees it

vars == <<settings, data, index, reader, result, seen>>

PICO_OK == 0
PICO_ERROR_GENERIC == -1

Inside == 0..(BufferSize - 1)
Around == {-1, BufferSize, BufferSize + 1}

---------------------------------------------------------------------------
(* parse_character                                                         *)

(* What parse_character leaves in the buffer and returns.                  *)
Parsed(d, i, r) == [data |-> d, index |-> i, ret |-> r]

Ignored(key) == key = "nul" \/ (key = "ctl" /\ ~settings.raw_input)

BackspacedUnchecked ==
  Parsed([data EXCEPT ![index] = "nul"], index - 1, PICO_OK)
Backspaced ==
  LET i == IF index > 0 THEN index - 1 ELSE index IN
  Parsed(IF settings.del_on_backspace THEN [data EXCEPT ![i] = "nul"] ELSE data,
         i, PICO_OK)

(* The index of the CR in front of the line end is the place of the last   *)
(* character of the line; for an empty line that is the byte before the    *)
(* buffer.                                                                 *)
CRKept(d, i) == IF settings.strip_crlf_ending THEN i ELSE i + 1
StrippedLength(d, i) ==
  IF settings.strip_crlf_ending THEN IF d[i - 1] = "cr" THEN i - 1 ELSE i
  ELSE i + 1

LineEnded ==
  LET d == [data EXCEPT ![index] = "lf", ![index + 1] = "nul"]
      n == StrippedLength(d, index)
  IN  Parsed([k \in DOMAIN d |-> IF k \in n..index THEN "nul" ELSE d[k]], 0, n)

(* "Max index value is size - 1 & the last character must be a Null"       *)
FullTooLate(i) == i >= BufferSize
Full(i) == i >= BufferSize - 1
Stored(key) ==
  LET d == [data EXCEPT ![index] = key] IN
  IF Full(index + 1)
  THEN Parsed([d EXCEPT ![BufferSize - 1] = "nul"], index + 1, PICO_ERROR_GENERIC)
  ELSE Parsed(d, index + 1, PICO_OK)

parse_character(key) ==
  CASE Ignored(key) -> Parsed(data, index, PICO_OK)
    [] key = "bs" /\ ~settings.raw_input -> Backspaced
    [] key = "lf" -> LineEnded
    [] OTHER -> Stored(key)

---------------------------------------------------------------------------
(* The readers                                                             *)

(* A line that has been returned, or dropped, leaves index at 0.           *)
serial_read_line_blocking ==
  /\ reader = "none"
  /\ reader' = "serial_read_line_blocking"
  /\ index' = 0
  /\ seen' = <<>>
  /\ result' = PICO_OK
  /\ UNCHANGED <<settings, data>>

serial_read_line ==
  /\ reader = "none"
  /\ reader' = "serial_read_line"
  /\ seen' = IF index = 0 THEN <<>> ELSE seen
  /\ result' = PICO_OK
  /\ UNCHANGED <<settings, data, index>>

(* The blocking reader returns whatever is not PICO_OK, the other one what *)
(* is above it.                                                            *)
Returns(ret) ==
  IF reader = "serial_read_line" THEN ret > PICO_OK ELSE ret # PICO_OK

LineComplete == seen # <<>> /\ Last(seen) = "lf"

(* What a user sees line to be after one more key.                         *)
Edited(line, key) ==
  CASE Ignored(key) -> line
    [] key = "bs" /\ ~settings.raw_input -> IF line = <<>> THEN line ELSE Front(line)
    [] OTHER -> Append(line, key)

(* Nothing that does not fit is typed while a reader not in Overlong reads. *)
ReadKey ==
  \E key \in Keys :
    LET p == parse_character(key) IN
    /\ reader # "none"
    /\ index <= BufferSize
    /\ \/ reader \in Overlong
       \/ ~Full(index) /\ p.ret # PICO_ERROR_GENERIC
    /\ data' = p.data
    /\ index' = p.index
    /\ seen' = Edited(IF LineComplete THEN <<>> ELSE seen, key)
    /\ IF Returns(p.ret)
       THEN reader' = "none" /\ result' = p.ret
       ELSE UNCHANGED <<reader, result>>
    /\ UNCHANGED settings

(* Nothing has been typed: the blocking reader goes on asking.             *)
NoKey ==
  /\ reader # "none"
  /\ reader' = IF reader = "serial_read_line" THEN "none" ELSE reader
  /\ result' = PICO_OK
  /\ UNCHANGED <<settings, data, index, seen>>

(* The buffer's contents are whatever they were.                           *)
Init ==
  /\ settings \in [strip_crlf_ending : BOOLEAN, raw_input : BOOLEAN,
                   del_on_backspace : BOOLEAN]
  /\ data = [k \in Inside \cup Around |-> IF k = -1 THEN ByteBefore ELSE "text"]
  /\ index = 0
  /\ reader = "none"
  /\ result = PICO_OK
  /\ seen = <<>>

Next ==
  \/ serial_read_line_blocking
  \/ serial_read_line
  \/ ReadKey
  \/ NoKey

Spec == Init /\ [][Next]_vars
---------------------------------------------------------------------------
(* Properties                                                              *)

TypeOK ==
  /\ data \in [Inside \cup Around -> Keys]
  /\ index \in Inside
  /\ reader \in Readers \cup {"none"}
  /\ result \in PICO_ERROR_GENERIC..(BufferSize - 1)
  /\ seen \in Seq(Keys)

(* Nothing is written outside buffer->data, however long the lines and     *)
(* wherever backspaces and line ends come in them: the "Max index value is *)
(* size - 1".                                                              *)
WritesStayInside ==
  data[-1] = ByteBefore /\ data[BufferSize] = "text" /\ data[BufferSize + 1] = "text"

(* What of a complete line the settings have delivered: all of it, or all  *)
(* in front of its line end.                                               *)
Delivered(line) ==
  LET n == Len(line) IN
  CASE ~settings.strip_crlf_ending -> line
    [] settings.strip_crlf_ending /\ n > 1 /\ line[n - 1] = "cr" -> SubSeq(line, 1, n - 2)
    [] OTHER -> SubSeq(line, 1, n - 1)

(* When the line end has been read, the reader returns the length of what  *)
(* the user sees, the buffer holds exactly that, and a Null ends it - in   *)
(* one blocking call, or over any number of non-blocking ones.  An empty   *)
(* line is not reported.                                                   *)
ReturnsEditedLine ==
  LineComplete =>
    LET line == Delivered(seen) IN
    line # <<>> =>
      /\ reader = "none"
      /\ result = Len(line)
      /\ \A k \in 1..Len(line) : data[k - 1] = line[k]
      /\ data[Len(line)] = "nul"
=============================================================================
