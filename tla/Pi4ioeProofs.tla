---------------------------- MODULE Pi4ioeProofs ----------------------------
(***************************************************************************)
(* The I/O expander's driver: its types, for every program and board, and  *)
(* for one that takes no risk the coherence of copies and expander and the *)
(* masked writes, with interrupts between any two steps, and callbacks in  *)
(* them that write registers of their own.                                 *)
(***************************************************************************)
EXTENDS Pi4ioe, SequenceTheorems, TLAPS

---------------------------------------------------------------------------
(* The steps of calls                                                      *)

WriteSteps ==
  [op : {"masked", "copy", "send"}, reg : Config \cup {ID}, mask : Bits, data : Bits]
ReadSteps == [op : {"select", "keep"}, reg : Registers]
PinSteps == [op : {"pin"}, pin : Pins, irqs : Bits]
PlainSteps ==
  [op : {"receive", "init_copies", "clear", "irqs", "reset_intr", "rst_callback"}]
Steps == WriteSteps \cup ReadSteps \cup PinSteps \cup PlainSteps

TypeInv == TypeOK /\ todo \in [Contexts -> Seq(Steps)]

(* The kind of a step is told by what it does.                             *)
LEMMA Kinds ==
  ASSUME NEW s \in Steps
  PROVE  /\ s.op \in {"masked", "copy", "send"} => s \in WriteSteps
         /\ s.op \in {"select", "keep"} => s \in ReadSteps
         /\ s.op = "pin" => s \in PinSteps
  BY DEF Steps, WriteSteps, ReadSteps, PinSteps, PlainSteps

(* Values and masks are sets of bits.                                      *)
LEMMA BitSets ==
  /\ {} \in Bits /\ Pins \in Bits
  /\ SOFTWARE_RESET_BIT \in Pins /\ RESET_INTERRUPT_BIT \in Pins
  /\ \A pin \in Pins, value \in BOOLEAN : When(value, PinMask(pin)) \in Bits /\ PinMask(pin) \in Bits
  /\ \A old, mask, new \in Bits : Masked(old, mask, new) \in Bits
  /\ Values \subseteq Bits /\ 0 \in Pins
<1>1. SOFTWARE_RESET_BIT \in Pins /\ RESET_INTERRUPT_BIT \in Pins
  BY Pi4ioAssumption DEF SOFTWARE_RESET_BIT, RESET_INTERRUPT_BIT, Pins
<1>2. Values \subseteq Bits
  BY Pi4ioAssumption DEF Bits, Pins
<1> QED BY <1>1, <1>2 DEF Bits, When, PinMask, Masked, SOFTWARE_RESET_BIT

(* A reset and the reading of a status give registers; the copies are set  *)
(* up as the driver has a reset leave the registers.                       *)
LEMMA ResetTypes ==
  /\ \A r \in Config : ResetValue(r) \in Bits /\ InitialCopies[r] = ResetValue(r)
  /\ \A r \in [Registers -> Bits] : AfterReset(r) \in [Registers -> Bits]
  /\ regs \in [Registers -> Bits] => \A r : AfterReading(r) \in [Registers -> Bits]
<1>1. \A r : ResetValue(r) \in Bits
  BY BitSets DEF ResetValue
<1>2. \A r \in Config : InitialCopies[r] = ResetValue(r)
  BY DEF InitialCopies, ResetValue
<1>3. ASSUME NEW r \in [Registers -> Bits] PROVE AfterReset(r) \in [Registers -> Bits]
  <2>1. {RESET_INTERRUPT_BIT} \in Bits
    BY BitSets DEF Bits
  <2> HIDE DEF Registers, Bits
  <2> QED BY <1>1, <1>3, <2>1 DEF AfterReset
<1>4. ASSUME regs \in [Registers -> Bits], NEW r PROVE AfterReading(r) \in [Registers -> Bits]
  <2>1. regs[ID] \ {RESET_INTERRUPT_BIT} \in Bits
    BY <1>4 DEF Bits, Registers
  <2>2. {} \in Bits /\ "INTERRUPT_STATUS" \in Registers /\ ID \in Registers
    BY BitSets DEF Registers
  <2> HIDE DEF Registers, Bits
  <2> QED BY <1>4, <2>1, <2>2 DEF AfterReading
<1> QED BY <1>1, <1>2, <1>3, <1>4

(* What calls are made of is made of steps.                                *)
LEMMA CallTypes ==
  /\ \A r \in Config \cup {ID}, mask, new \in Bits :
       /\ write_register_raw(r, mask, new) \in Seq(Steps)
       /\ write_register_masked(r, mask, new) \in Seq(Steps)
  /\ \A r \in Config \cup {ID}, pin \in Pins, value \in BOOLEAN :
       write_register_bit(r, pin, value) \in Seq(Steps)
  /\ \A r \in Registers : read_register_raw(r) \in Seq(Steps)
  /\ init_copies \in Seq(Steps) /\ reset \in Seq(Steps) /\ irq_handler \in Seq(Steps)
  /\ \A op \in {"rst_callback"} : <<Step(op)>> \in Seq(Steps)
<1>1. ASSUME NEW r \in Config \cup {ID}, NEW mask \in Bits, NEW new \in Bits
      PROVE  /\ write_register_raw(r, mask, new) \in Seq(Steps)
             /\ write_register_masked(r, mask, new) \in Seq(Steps)
  <2>1. \A op \in {"masked", "copy", "send"} :
          [op |-> op, reg |-> r, mask |-> mask, data |-> new] \in Steps
    BY DEF Steps, WriteSteps
  <2> HIDE DEF Steps
  <2> QED BY <2>1 DEF write_register_raw, write_register_masked
<1>2. ASSUME NEW r \in Config \cup {ID}, NEW pin \in Pins, NEW value \in BOOLEAN
      PROVE  write_register_bit(r, pin, value) \in Seq(Steps)
  BY <1>1, <1>2, BitSets DEF write_register_bit
<1>3. \A op \in {"receive", "init_copies", "clear", "irqs", "reset_intr", "rst_callback"} :
        <<Step(op)>> \in Seq(Steps) /\ Step(op) \in Steps
  BY DEF Steps, PlainSteps, Step
<1>4. ASSUME NEW r \in Registers PROVE read_register_raw(r) \in Seq(Steps)
  <2>1. [op |-> "select", reg |-> r] \in Steps /\ [op |-> "keep", reg |-> r] \in Steps
    BY DEF Steps, ReadSteps
  <2> HIDE DEF Steps
  <2> QED BY <1>3, <2>1 DEF read_register_raw
<1>5. ID \in Registers /\ "INPUT_STATUS" \in Registers /\ "INTERRUPT_STATUS" \in Registers
  BY DEF Registers
<1>6. init_copies \in Seq(Steps)
  <2> DEFINE a == read_register_raw(ID)
             b == read_register_raw("INPUT_STATUS")
             d == read_register_raw("INTERRUPT_STATUS")
  <2>1. a \in Seq(Steps) /\ b \in Seq(Steps) /\ d \in Seq(Steps)
    BY <1>4, <1>5
  <2>2. <<Step("init_copies")>> \in Seq(Steps) /\ <<Step("clear")>> \in Seq(Steps)
    BY <1>3
  <2> HIDE DEF Steps, a, b, d
  <2> QED BY <2>1, <2>2, ConcatProperties DEF init_copies, a, b, d
<1>7. reset \in Seq(Steps)
  <2>1. write_register_bit(ID, SOFTWARE_RESET_BIT, TRUE) \in Seq(Steps)
    BY <1>2, BitSets
  <2> QED BY <1>6, <2>1, ConcatProperties DEF reset
<1>8. irq_handler \in Seq(Steps)
  <2> DEFINE a == read_register_raw(ID)
             d == read_register_raw("INTERRUPT_STATUS")
  <2>1. a \in Seq(Steps) /\ d \in Seq(Steps)
    BY <1>4, <1>5
  <2>2. <<Step("irqs")>> \in Seq(Steps) /\ <<Step("reset_intr")>> \in Seq(Steps)
    BY <1>3
  <2> HIDE DEF Steps, a, d
  <2> QED BY <2>1, <2>2, ConcatProperties DEF irq_handler, a, d
<1> QED BY <1>1, <1>2, <1>3, <1>4, <1>6, <1>7, <1>8

---------------------------------------------------------------------------
(* Which step follows which                                                *)

WritesControl(s) == s.op \in {"masked", "send"} /\ s.reg = ID

Follows(a, b) ==
  /\ a.op = "copy" => b = [a EXCEPT !.op = "send"]
  /\ b.op = "send" => a.op = "copy"
  /\ b.op # "copy"
  /\ b.op = "masked" => a.op \in {"masked", "send"}
  /\ a.op = "select" => b.op = "receive"
  /\ b.op = "receive" => a.op = "select"
  /\ a.op = "receive" <=> b.op = "keep"
  /\ a.op = "keep" /\ a.reg = ID =>
       b.op = "reset_intr" \/ b = [op |-> "select", reg |-> "INPUT_STATUS"]
  /\ b.op = "reset_intr" => a.op = "keep" /\ a.reg = ID
  /\ b.op = "init_copies" <=> WritesControl(a)
  /\ a.op \notin {"reset_intr", "rst_callback"}

MayEnd(a) == a.op \notin {"copy", "select", "receive"} /\ ~WritesControl(a)

(* The steps of a list follow each other, and what is read is kept in the  *)
(* place of the register that was selected.                                *)
Linked(t) ==
  /\ \A i \in 1..(Len(t) - 1) : Follows(t[i], t[i + 1])
  /\ \A i \in 1..Len(t) : t[i].op = "select" =>
       i + 2 <= Len(t) /\ t[i + 2].op = "keep" /\ t[i + 2].reg = t[i].reg

Last(t) == t[Len(t)]
Chain(t) == Linked(t) /\ (t # <<>> => MayEnd(Last(t)))

Has(t, op) == \E i \in 1..Len(t) : t[i].op = op
First(t, op) == t # <<>> /\ t[1].op = op
EndsIn(t, op) == t # <<>> /\ Last(t).op = op

(* The rest of a list, when its first step is done.                        *)
LEMMA Rest ==
  ASSUME NEW t \in Seq(Steps), t # <<>>, Chain(t)
  PROVE  /\ t[1] \in Steps /\ Head(t) = t[1] /\ Len(t) \in Nat /\ Len(t) >= 1
         /\ Tail(t) \in Seq(Steps) /\ Chain(Tail(t)) /\ Len(Tail(t)) = Len(t) - 1
         /\ Tail(t) = <<>> => MayEnd(t[1]) /\ Len(t) = 1
         /\ Tail(t) # <<>> => /\ Len(t) >= 2 /\ Tail(t)[1] = t[2] /\ t[2] \in Steps
                              /\ Follows(t[1], t[2]) /\ Last(Tail(t)) = Last(t)
         /\ Len(t) >= 3 => Tail(t)[2] = t[3] /\ Follows(t[2], t[3])
         /\ t[1].op = "select" => Len(t) >= 3 /\ t[3].op = "keep" /\ t[3].reg = t[1].reg
         /\ \A op : /\ Has(Tail(t), op) => Has(t, op)
                    /\ Has(t, op) /\ t[1].op # op => Has(Tail(t), op)
<1> DEFINE u == Tail(t)
<1> HIDE DEF Steps
<1>1. /\ Len(t) \in Nat /\ Len(t) >= 1 /\ u \in Seq(Steps) /\ Len(u) = Len(t) - 1
      /\ Head(t) = t[1] /\ \A i \in 1..Len(u) : u[i] = t[i + 1]
  BY HeadTailProperties, LenProperties
<1>2. \A i \in 1..Len(t) : t[i] \in Steps
  BY ElementOfSeq
<1> HIDE DEF u
<1>3. u = <<>> <=> Len(t) = 1
  <2>1. u = <<>> <=> Len(u) = 0
    BY <1>1, EmptySeq
  <2> QED BY <1>1, <2>1
<1>4. Linked(u)
  <2>1. ASSUME NEW i \in 1..(Len(u) - 1) PROVE Follows(u[i], u[i + 1])
    <3>1. i \in 1..Len(u) /\ i + 1 \in 1..Len(u) /\ i + 1 \in 1..(Len(t) - 1)
      BY <1>1
    <3>2. u[i] = t[i + 1] /\ u[i + 1] = t[(i + 1) + 1]
      BY <1>1, <3>1
    <3> QED BY <3>1, <3>2 DEF Chain, Linked
  <2>2. ASSUME NEW i \in 1..Len(u), u[i].op = "select"
        PROVE  i + 2 <= Len(u) /\ u[i + 2].op = "keep" /\ u[i + 2].reg = u[i].reg
    <3>1. i + 1 \in 1..Len(t) /\ u[i] = t[i + 1]
      BY <1>1
    <3>2. /\ (i + 1) + 2 <= Len(t) /\ t[(i + 1) + 2].op = "keep"
          /\ t[(i + 1) + 2].reg = t[i + 1].reg
      BY <2>2, <3>1 DEF Chain, Linked
    <3>3. i + 2 \in 1..Len(u) /\ (i + 1) + 2 = (i + 2) + 1
      BY <1>1, <3>2
    <3>4. u[i + 2] = t[(i + 1) + 2]
      BY <1>1, <3>3
    <3> QED BY <3>1, <3>2, <3>3, <3>4
  <2> QED BY <2>1, <2>2 DEF Linked
<1>5. u # <<>> => /\ Len(t) >= 2 /\ u[1] = t[2] /\ t[2] \in Steps
                  /\ Follows(t[1], t[2]) /\ Last(u) = Last(t)
  <2> SUFFICES ASSUME u # <<>>
               PROVE  /\ Len(t) >= 2 /\ u[1] = t[2] /\ t[2] \in Steps
                      /\ Follows(t[1], t[2]) /\ Last(u) = Last(t)
    OBVIOUS
  <2>1. Len(t) >= 2 /\ 1 \in 1..(Len(t) - 1) /\ 1 \in 1..Len(u) /\ Len(u) \in 1..Len(u)
    BY <1>1, <1>3
  <2>2. u[1] = t[1 + 1] /\ u[Len(u)] = t[Len(u) + 1] /\ Len(u) + 1 = Len(t)
    BY <1>1, <2>1
  <2>3. Follows(t[1], t[1 + 1])
    BY <2>1 DEF Chain, Linked
  <2> QED BY <1>2, <2>1, <2>2, <2>3 DEF Last
<1>6. Chain(u)
  BY <1>4, <1>5 DEF Chain
<1>7. u = <<>> => MayEnd(t[1]) /\ Len(t) = 1
  BY <1>3 DEF Chain, Last
<1>8. Len(t) >= 3 => u[2] = t[3] /\ Follows(t[2], t[3])
  <2> SUFFICES ASSUME Len(t) >= 3 PROVE u[2] = t[3] /\ Follows(t[2], t[3])
    OBVIOUS
  <2>1. 2 \in 1..Len(u) /\ 2 \in 1..(Len(t) - 1)
    BY <1>1
  <2>2. u[2] = t[2 + 1] /\ Follows(t[2], t[2 + 1])
    BY <1>1, <2>1 DEF Chain, Linked
  <2> QED BY <2>2
<1>9. t[1].op = "select" => Len(t) >= 3 /\ t[3].op = "keep" /\ t[3].reg = t[1].reg
  <2>1. 1 \in 1..Len(t)
    BY <1>1
  <2>2. t[1].op = "select" => 1 + 2 <= Len(t) /\ t[1 + 2].op = "keep" /\ t[1 + 2].reg = t[1].reg
    BY <2>1 DEF Chain, Linked
  <2> QED BY <1>1, <2>2
<1>10. ASSUME NEW op PROVE /\ Has(u, op) => Has(t, op)
                           /\ Has(t, op) /\ t[1].op # op => Has(u, op)
  <2>1. ASSUME NEW i \in 1..Len(u), u[i].op = op PROVE Has(t, op)
    <3>1. i + 1 \in 1..Len(t) /\ t[i + 1].op = op
      BY <1>1, <2>1
    <3> QED BY <3>1 DEF Has
  <2>2. ASSUME NEW i \in 1..Len(t), t[i].op = op, t[1].op # op PROVE Has(u, op)
    <3>1. i - 1 \in 1..Len(u) /\ (i - 1) + 1 = i
      BY <1>1, <2>2
    <3>2. u[i - 1].op = op
      BY <1>1, <2>2, <3>1
    <3> QED BY <3>1, <3>2 DEF Has
  <2> QED BY <2>1, <2>2 DEF Has
<1> QED BY <1>1, <1>2, <1>5, <1>6, <1>7, <1>8, <1>9, <1>10 DEF u

(* Two lists, one after the other.                                         *)
LEMMA Joined ==
  ASSUME NEW s \in Seq(Steps), NEW u \in Seq(Steps), Linked(s), Linked(u),
         s # <<>> /\ u # <<>> => Follows(Last(s), u[1])
  PROVE  /\ s \o u \in Seq(Steps) /\ Linked(s \o u) /\ Len(s \o u) = Len(s) + Len(u)
         /\ s = <<>> => s \o u = u
         /\ u = <<>> => s \o u = s
         /\ s # <<>> => (s \o u)[1] = s[1] /\ s \o u # <<>>
         /\ u # <<>> => Last(s \o u) = Last(u) /\ s \o u # <<>>
         /\ \A op : Has(s \o u, op) <=> Has(s, op) \/ Has(u, op)
<1> DEFINE t == s \o u
<1> HIDE DEF Steps
<1>1. /\ t \in Seq(Steps) /\ Len(t) = Len(s) + Len(u)
      /\ \A i \in 1..(Len(s) + Len(u)) : t[i] = IF i <= Len(s) THEN s[i] ELSE u[i - Len(s)]
      /\ Len(s) \in Nat /\ Len(u) \in Nat
  BY ConcatProperties, LenProperties
<1>2. /\ s = <<>> <=> Len(s) = 0
      /\ u = <<>> <=> Len(u) = 0
      /\ t = <<>> <=> Len(t) = 0
  BY <1>1, EmptySeq
<1>3. (s = <<>> => t = u) /\ (u = <<>> => t = s)
  BY ConcatEmptySeq
<1> HIDE DEF t
<1>4. \A i \in 1..Len(s) : i \in 1..Len(t) /\ t[i] = s[i]
  BY <1>1
<1>5. ASSUME NEW i \in 1..Len(u)
      PROVE  i + Len(s) \in 1..Len(t) /\ t[i + Len(s)] = u[i]
  <2>1. /\ i + Len(s) \in 1..(Len(s) + Len(u)) /\ ~(i + Len(s) <= Len(s))
        /\ (i + Len(s)) - Len(s) = i
    BY <1>1
  <2> QED BY <1>1, <2>1
<1>6. \A i \in 1..Len(t) : i \in 1..Len(s) \/ i - Len(s) \in 1..Len(u)
  BY <1>1
<1>7. ASSUME NEW i \in 1..(Len(t) - 1) PROVE Follows(t[i], t[i + 1])
  <2>1. CASE i < Len(s)
    <3>1. i \in 1..(Len(s) - 1) /\ i \in 1..Len(s) /\ i + 1 \in 1..Len(s)
      BY <1>1, <2>1
    <3> QED BY <1>4, <3>1 DEF Linked
  <2>2. CASE i = Len(s)
    <3>1. Len(s) \in 1..Len(s) /\ 1 \in 1..Len(u) /\ 1 + Len(s) = i + 1
      BY <1>1, <2>2
    <3>2. t[i] = Last(s) /\ t[i + 1] = u[1] /\ s # <<>> /\ u # <<>>
      BY <1>1, <1>2, <1>4, <1>5, <2>2, <3>1 DEF Last
    <3> QED BY <3>2
  <2>3. CASE i > Len(s)
    <3>1. /\ i - Len(s) \in 1..(Len(u) - 1) /\ i - Len(s) \in 1..Len(u)
          /\ (i - Len(s)) + 1 \in 1..Len(u)
          /\ (i - Len(s)) + Len(s) = i /\ ((i - Len(s)) + 1) + Len(s) = i + 1
      BY <1>1, <2>3
    <3>2. t[i] = u[i - Len(s)] /\ t[i + 1] = u[(i - Len(s)) + 1]
      BY <1>5, <3>1
    <3> QED BY <3>1, <3>2 DEF Linked
  <2> QED BY <1>1, <2>1, <2>2, <2>3
<1>8. ASSUME NEW i \in 1..Len(t), t[i].op = "select"
      PROVE  i + 2 <= Len(t) /\ t[i + 2].op = "keep" /\ t[i + 2].reg = t[i].reg
  <2>1. CASE i \in 1..Len(s)
    <3>1. i + 2 <= Len(s) /\ s[i + 2].op = "keep" /\ s[i + 2].reg = s[i].reg
      BY <1>4, <1>8, <2>1 DEF Linked
    <3>2. i + 2 \in 1..Len(s) /\ i + 2 <= Len(t)
      BY <1>1, <2>1, <3>1
    <3> QED BY <1>4, <2>1, <3>1, <3>2
  <2>2. CASE i - Len(s) \in 1..Len(u)
    <3> DEFINE k == i - Len(s)
    <3>1. t[i] = u[k]
      <4>1. k + Len(s) = i
        BY <1>1
      <4> QED BY <1>5, <2>2, <4>1
    <3>2. k + 2 <= Len(u) /\ u[k + 2].op = "keep" /\ u[k + 2].reg = u[k].reg
      BY <1>8, <2>2, <3>1 DEF Linked
    <3>3. k + 2 \in 1..Len(u) /\ (k + 2) + Len(s) = i + 2 /\ i + 2 <= Len(t)
      <4>1. k \in Int /\ k >= 1 /\ i = k + Len(s)
        BY <1>1, <2>2
      <4>2. k + 2 <= Len(u) /\ Len(t) = Len(s) + Len(u) /\ Len(s) \in Nat /\ Len(u) \in Nat
        BY <1>1, <3>2
      <4> HIDE DEF k
      <4> QED BY <4>1, <4>2
    <3>4. t[i + 2] = u[k + 2]
      BY <1>5, <3>3
    <3> QED BY <3>1, <3>2, <3>3, <3>4
  <2> QED BY <1>6, <2>1, <2>2
<1>9. Linked(t)
  BY <1>7, <1>8 DEF Linked
<1>10. s # <<>> => t[1] = s[1] /\ t # <<>>
  <2>1. s # <<>> => 1 \in 1..Len(s) /\ Len(t) # 0
    BY <1>1, <1>2
  <2> QED BY <1>2, <1>4, <2>1
<1>11. u # <<>> => Last(t) = Last(u) /\ t # <<>>
  <2>1. u # <<>> => Len(u) \in 1..Len(u) /\ Len(u) + Len(s) = Len(t) /\ Len(t) # 0
    BY <1>1, <1>2
  <2> QED BY <1>2, <1>5, <2>1 DEF Last
<1>12. ASSUME NEW op PROVE Has(t, op) <=> Has(s, op) \/ Has(u, op)
  <2>1. ASSUME NEW i \in 1..Len(t), t[i].op = op PROVE Has(s, op) \/ Has(u, op)
    <3>1. CASE i \in 1..Len(s)
      BY <1>4, <2>1, <3>1 DEF Has
    <3>2. CASE i - Len(s) \in 1..Len(u)
      <4>1. (i - Len(s)) + Len(s) = i
        BY <1>1
      <4>2. t[i] = u[i - Len(s)]
        BY <1>5, <3>2, <4>1
      <4> QED BY <2>1, <3>2, <4>2 DEF Has
    <3> QED BY <1>6, <3>1, <3>2
  <2>2. ASSUME NEW i \in 1..Len(s), s[i].op = op PROVE Has(t, op)
    BY <1>4, <2>2 DEF Has
  <2>3. ASSUME NEW i \in 1..Len(u), u[i].op = op PROVE Has(t, op)
    BY <1>5, <2>3 DEF Has
  <2> QED BY <2>1, <2>2, <2>3 DEF Has
<1> QED BY <1>1, <1>3, <1>9, <1>10, <1>11, <1>12 DEF t

(* Two lists that have steps, one after the other.                         *)
LEMMA JoinedOn ==
  ASSUME NEW s \in Seq(Steps), NEW u \in Seq(Steps), Linked(s), Linked(u),
         s # <<>>, u # <<>>, Follows(Last(s), u[1])
  PROVE  /\ s \o u \in Seq(Steps) /\ Linked(s \o u) /\ s \o u # <<>>
         /\ (s \o u)[1] = s[1] /\ Last(s \o u) = Last(u)
  BY Joined

---------------------------------------------------------------------------
(* The calls, as lists of steps                                            *)

WritesOf(registers) == {s \in WriteSteps : s.reg \in registers}
ConfigWrites == WritesOf(Config)
MainWrites == WritesOf(Written)
IrqWrites == WritesOf(CallbackWritten)
ResetWrites ==
  {s \in WriteSteps : /\ s.reg = ID
                      /\ SOFTWARE_RESET_BIT \in s.mask /\ SOFTWARE_RESET_BIT \in s.data}
Reading == ReadSteps \cup [op : {"receive"}]
ResetSteps == ResetWrites \cup Reading \cup [op : {"init_copies", "clear"}]
HandlerReads == {s \in ReadSteps : s.reg # "INPUT_STATUS"} \cup [op : {"receive"}]
HandlerSteps ==
  HandlerReads \cup PinSteps \cup [op : {"irqs", "reset_intr"}] \cup IrqWrites
InitSteps == Reading \cup [op : {"init_copies", "clear", "rst_callback"}]

(* A program's call: it writes the configuration, reads, or resets.        *)
Resetting(t) == t \in Seq(ResetSteps) /\ EndsIn(t, "clear")
MainShape(t) == t \in Seq(MainWrites) \/ t \in Seq(Reading) \/ Resetting(t)

(* The handler, with what a callback of it writes; what it does after a    *)
(* reset, and what the callback then writes.                               *)
Handling(t) == t \in Seq(HandlerSteps) /\ EndsIn(t, "reset_intr")
Initialising(t) == t \in Seq(InitSteps) /\ EndsIn(t, "rst_callback")
IrqShape(t) == t \in Seq(ConfigWrites) \/ Handling(t) \/ Initialising(t)

(* The steps of every shape are steps.                                     *)
LEMMA StepSets ==
  /\ ConfigWrites \subseteq Steps /\ Reading \subseteq Steps /\ ResetSteps \subseteq Steps
  /\ HandlerSteps \subseteq Steps /\ InitSteps \subseteq Steps
  BY DEF ConfigWrites, IrqWrites, WritesOf, ResetWrites, Reading, ResetSteps, HandlerReads,
         HandlerSteps, InitSteps, Steps, WriteSteps, ReadSteps, PinSteps, PlainSteps

(* The program and its callbacks write configuration registers.            *)
LEMMA WriteSets ==
  /\ MainWrites \subseteq ConfigWrites /\ IrqWrites \subseteq ConfigWrites
  /\ Seq(MainWrites) \subseteq Seq(ConfigWrites)
  /\ Seq(IrqWrites) \subseteq Seq(HandlerSteps)
<1>1. MainWrites \subseteq ConfigWrites /\ IrqWrites \subseteq ConfigWrites
  BY Pi4ioAssumption DEF MainWrites, IrqWrites, ConfigWrites, WritesOf
<1>2. IrqWrites \subseteq HandlerSteps
  BY DEF HandlerSteps
<1> HIDE DEF MainWrites, IrqWrites, ConfigWrites, HandlerSteps
<1> QED BY <1>1, <1>2, SeqMonotonic

(* One step on its own, and a register that is read.                       *)
LEMMA OneStep ==
  ASSUME NEW s \in Steps, s.op # "select"
  PROVE  /\ Linked(<<s>>) /\ <<s>> # <<>> /\ <<s>>[1] = s /\ Last(<<s>>) = s /\ Len(<<s>>) = 1
         /\ \A op : Has(<<s>>, op) <=> s.op = op
  BY DEF Linked, Last, Has

(* read_register_raw as a list of steps.                                   *)
LEMMA ReadList ==
  ASSUME NEW r \in Registers
  PROVE  LET t == read_register_raw(r) IN
         /\ t \in Seq(Reading) /\ t \in Seq(Steps) /\ Chain(t) /\ t # <<>>
         /\ t[1] = [op |-> "select", reg |-> r] /\ Last(t) = [op |-> "keep", reg |-> r]
         /\ \A op : Has(t, op) => op \in {"select", "receive", "keep"}
         /\ r # "INPUT_STATUS" => t \in Seq(HandlerReads)
<1> DEFINE a == [op |-> "select", reg |-> r]
           b == Step("receive")
           k == [op |-> "keep", reg |-> r]
           t == <<a, b, k>>
<1>1. a \in Reading /\ b \in Reading /\ k \in Reading /\ Reading \subseteq Steps
  BY StepSets DEF Reading, ReadSteps, Step
<1>0. r # "INPUT_STATUS" => a \in HandlerReads /\ b \in HandlerReads /\ k \in HandlerReads
  BY DEF HandlerReads, ReadSteps, Step
<1>2. Follows(a, b) /\ Follows(b, k) /\ MayEnd(k)
  BY DEF Follows, MayEnd, WritesControl, Step
<1>3. a.op = "select" /\ a.reg = r /\ b.op = "receive" /\ k.op = "keep" /\ k.reg = r
  BY DEF Step
<1> HIDE DEF a, b, k, Reading, HandlerReads, Steps
<1>4. t \in Seq(Reading) /\ t \in Seq(Steps) /\ Len(t) = 3 /\ t[1] = a /\ t[2] = b /\ t[3] = k
      /\ t # <<>> /\ (r # "INPUT_STATUS" => t \in Seq(HandlerReads))
  BY <1>0, <1>1
<1> HIDE DEF t
<1>5. Linked(t)
  <2>1. \A i \in 1..(Len(t) - 1) : i = 1 \/ i = 2
    BY <1>4
  <2>2. \A i \in 1..(Len(t) - 1) : Follows(t[i], t[i + 1])
    BY <1>2, <1>4, <2>1
  <2>3. \A i \in 1..Len(t) : i = 1 \/ i = 2 \/ i = 3
    BY <1>4
  <2> QED BY <1>3, <1>4, <2>2, <2>3 DEF Linked
<1>6. Last(t) = k
  BY <1>4 DEF Last
<1>7. \A op : Has(t, op) => op \in {"select", "receive", "keep"}
  <2>1. \A i \in 1..Len(t) : i = 1 \/ i = 2 \/ i = 3
    BY <1>4
  <2> QED BY <1>3, <1>4, <2>1 DEF Has
<1>8. read_register_raw(r) = t
  BY DEF read_register_raw, t, a, b, k
<1>9. /\ t \in Seq(Reading) /\ t \in Seq(Steps) /\ Chain(t) /\ t # <<>>
      /\ t[1] = a /\ Last(t) = k /\ (\A op : Has(t, op) => op \in {"select", "receive", "keep"})
      /\ r # "INPUT_STATUS" => t \in Seq(HandlerReads)
  BY <1>2, <1>4, <1>5, <1>6, <1>7 DEF Chain
<1> QED BY <1>8, <1>9 DEF a, k

(* The part of pi4io_reset that sets the copies up as a list of steps.     *)
LEMMA InitList ==
  /\ init_copies \in Seq(Steps) /\ Chain(init_copies) /\ init_copies # <<>>
  /\ init_copies[1] = Step("init_copies") /\ Last(init_copies) = Step("clear")
  /\ init_copies \in Seq(Reading \cup [op : {"init_copies", "clear"}])
<1> DEFINE S == Reading \cup [op : {"init_copies", "clear"}]
           s0 == <<Step("init_copies")>>
           r1 == read_register_raw(ID)
           r2 == read_register_raw("INPUT_STATUS")
           r3 == read_register_raw("INTERRUPT_STATUS")
           s4 == <<Step("clear")>>
<1>1. ID \in Registers /\ "INPUT_STATUS" \in Registers /\ "INTERRUPT_STATUS" \in Registers
  BY DEF Registers
<1>2. Step("init_copies") \in Steps /\ Step("clear") \in Steps
      /\ Step("init_copies") \in S /\ Step("clear") \in S
      /\ Step("init_copies").op = "init_copies" /\ Step("clear").op = "clear"
  BY DEF Steps, PlainSteps, Step
<1>3. /\ Follows(Step("init_copies"), [op |-> "select", reg |-> ID])
      /\ Follows([op |-> "keep", reg |-> ID], [op |-> "select", reg |-> "INPUT_STATUS"])
      /\ Follows([op |-> "keep", reg |-> "INPUT_STATUS"],
                 [op |-> "select", reg |-> "INTERRUPT_STATUS"])
      /\ Follows([op |-> "keep", reg |-> "INTERRUPT_STATUS"], Step("clear"))
      /\ MayEnd(Step("clear"))
  BY DEF Follows, MayEnd, WritesControl, Step, ID
<1>4. /\ r1 \in Seq(Reading) /\ r2 \in Seq(Reading) /\ r3 \in Seq(Reading)
      /\ s0 \in Seq(S) /\ s4 \in Seq(S) /\ s0 \in Seq(Steps) /\ s4 \in Seq(Steps)
  <2>1. r1 \in Seq(Reading) /\ r2 \in Seq(Reading) /\ r3 \in Seq(Reading)
    BY <1>1, ReadList
  <2> HIDE DEF S, Reading, Steps, r1, r2, r3
  <2> QED BY <1>2, <2>1
<1>5. r1 \in Seq(S) /\ r2 \in Seq(S) /\ r3 \in Seq(S)
  <2> HIDE DEF Reading, r1, r2, r3
  <2>1. Reading \subseteq S
    OBVIOUS
  <2> HIDE DEF S
  <2> QED BY <1>4, <2>1, SeqMonotonic
<1>6. /\ Linked(s0) /\ s0 # <<>> /\ s0[1] = Step("init_copies") /\ Last(s0) = Step("init_copies")
      /\ Linked(s4) /\ s4 # <<>> /\ s4[1] = Step("clear") /\ Last(s4) = Step("clear")
  BY <1>2, OneStep
<1>7. /\ r1 \in Seq(Steps) /\ Linked(r1) /\ r1 # <<>> /\ r1[1] = [op |-> "select", reg |-> ID]
      /\ Last(r1) = [op |-> "keep", reg |-> ID]
      /\ r2 \in Seq(Steps) /\ Linked(r2) /\ r2 # <<>> /\ r2[1] = [op |-> "select", reg |-> "INPUT_STATUS"]
      /\ Last(r2) = [op |-> "keep", reg |-> "INPUT_STATUS"]
      /\ r3 \in Seq(Steps) /\ Linked(r3) /\ r3 # <<>> /\ r3[1] = [op |-> "select", reg |-> "INTERRUPT_STATUS"]
      /\ Last(r3) = [op |-> "keep", reg |-> "INTERRUPT_STATUS"]
  BY <1>1, ReadList DEF Chain
<1> HIDE DEF s0, r1, r2, r3, s4, S, Steps, Reading, Registers
<1>8. /\ s0 \o r1 \in Seq(Steps) /\ Linked(s0 \o r1) /\ s0 \o r1 # <<>>
      /\ (s0 \o r1)[1] = Step("init_copies") /\ Last(s0 \o r1) = [op |-> "keep", reg |-> ID]
  BY <1>1, <1>3, <1>4, <1>6, <1>7, JoinedOn
<1>9. /\ s0 \o r1 \o r2 \in Seq(Steps) /\ Linked(s0 \o r1 \o r2) /\ s0 \o r1 \o r2 # <<>>
      /\ (s0 \o r1 \o r2)[1] = Step("init_copies")
      /\ Last(s0 \o r1 \o r2) = [op |-> "keep", reg |-> "INPUT_STATUS"]
  BY <1>1, <1>3, <1>7, <1>8, JoinedOn
<1>10. /\ s0 \o r1 \o r2 \o r3 \in Seq(Steps) /\ Linked(s0 \o r1 \o r2 \o r3)
       /\ s0 \o r1 \o r2 \o r3 # <<>> /\ (s0 \o r1 \o r2 \o r3)[1] = Step("init_copies")
       /\ Last(s0 \o r1 \o r2 \o r3) = [op |-> "keep", reg |-> "INTERRUPT_STATUS"]
  BY <1>1, <1>3, <1>7, <1>9, JoinedOn
<1>11. /\ s0 \o r1 \o r2 \o r3 \o s4 \in Seq(Steps) /\ Linked(s0 \o r1 \o r2 \o r3 \o s4)
       /\ s0 \o r1 \o r2 \o r3 \o s4 # <<>>
       /\ (s0 \o r1 \o r2 \o r3 \o s4)[1] = Step("init_copies")
       /\ Last(s0 \o r1 \o r2 \o r3 \o s4) = Step("clear")
  BY <1>1, <1>3, <1>4, <1>6, <1>10, JoinedOn
<1>12. s0 \o r1 \o r2 \o r3 \o s4 \in Seq(S)
  BY <1>4, <1>5, ConcatProperties
<1>13. init_copies = s0 \o r1 \o r2 \o r3 \o s4
  BY DEF init_copies, s0, r1, r2, r3, s4
<1>14. MayEnd(Step("clear"))
  BY <1>1, <1>3
<1> QED BY <1>11, <1>12, <1>13, <1>14 DEF Chain, S

(* What the handler has to do when it has seen a reset.                    *)
LEMMA AfterResetList ==
  LET t == init_copies \o <<Step("rst_callback")>> IN
  /\ t \in Seq(Steps) /\ Chain(t) /\ Initialising(t) /\ t[1] = Step("init_copies")
<1> DEFINE u == <<Step("rst_callback")>>
<1>1. /\ Step("rst_callback") \in Steps /\ Step("rst_callback").op = "rst_callback"
      /\ Step("rst_callback") \in InitSteps
      /\ Follows(Step("clear"), Step("rst_callback")) /\ MayEnd(Step("rst_callback"))
  BY DEF Steps, PlainSteps, InitSteps, Step, Follows, MayEnd, WritesControl
<1>2. /\ u \in Seq(Steps) /\ u \in Seq(InitSteps) /\ Linked(u) /\ u # <<>>
      /\ u[1] = Step("rst_callback") /\ Last(u) = Step("rst_callback")
  <2> HIDE DEF Steps, InitSteps
  <2> QED BY <1>1, OneStep
<1>3. init_copies \in Seq(InitSteps)
  <2>1. (Reading \cup [op : {"init_copies", "clear"}]) \subseteq InitSteps
    BY DEF InitSteps
  <2> HIDE DEF InitSteps, Reading
  <2> QED BY <2>1, InitList, SeqMonotonic
<1> HIDE DEF u, Steps, InitSteps
<1>4. /\ init_copies \o u \in Seq(Steps) /\ Linked(init_copies \o u) /\ init_copies \o u # <<>>
      /\ (init_copies \o u)[1] = Step("init_copies") /\ Last(init_copies \o u) = Step("rst_callback")
  BY <1>1, <1>2, InitList, Joined DEF Chain
<1>5. init_copies \o u \in Seq(InitSteps)
  BY <1>2, <1>3, ConcatProperties
<1> QED BY <1>1, <1>4, <1>5 DEF Chain, Initialising, EndsIn, u

(* pi4io_irq_handler as a list of steps.                                   *)
LEMMA HandlerList ==
  /\ irq_handler \in Seq(Steps) /\ Chain(irq_handler) /\ Handling(irq_handler)
  /\ irq_handler # <<>> /\ irq_handler[1].op = "select"
<1> DEFINE r1 == read_register_raw("INTERRUPT_STATUS")
           s2 == <<Step("irqs")>>
           r3 == read_register_raw(ID)
           s4 == <<Step("reset_intr")>>
<1>1. ID \in Registers /\ "INTERRUPT_STATUS" \in Registers /\ ID # "INPUT_STATUS"
  BY DEF Registers, ID
<1>2. /\ Step("irqs") \in Steps /\ Step("reset_intr") \in Steps
      /\ Step("irqs") \in HandlerSteps /\ Step("reset_intr") \in HandlerSteps
      /\ Step("irqs").op = "irqs" /\ Step("reset_intr").op = "reset_intr"
  BY DEF Steps, PlainSteps, HandlerSteps, Step
<1>3. /\ Follows([op |-> "keep", reg |-> "INTERRUPT_STATUS"], Step("irqs"))
      /\ Follows(Step("irqs"), [op |-> "select", reg |-> ID])
      /\ Follows([op |-> "keep", reg |-> ID], Step("reset_intr"))
      /\ MayEnd(Step("reset_intr"))
  BY DEF Follows, MayEnd, WritesControl, Step, ID
<1>4. /\ s2 \in Seq(Steps) /\ s2 \in Seq(HandlerSteps) /\ Linked(s2) /\ s2 # <<>>
      /\ s2[1] = Step("irqs") /\ Last(s2) = Step("irqs")
      /\ s4 \in Seq(Steps) /\ s4 \in Seq(HandlerSteps) /\ Linked(s4) /\ s4 # <<>>
      /\ s4[1] = Step("reset_intr") /\ Last(s4) = Step("reset_intr")
  <2> HIDE DEF Steps, HandlerSteps
  <2> QED BY <1>2, OneStep
<1>5. /\ r1 \in Seq(Steps) /\ Linked(r1) /\ r1 # <<>>
      /\ r1[1] = [op |-> "select", reg |-> "INTERRUPT_STATUS"]
      /\ Last(r1) = [op |-> "keep", reg |-> "INTERRUPT_STATUS"]
      /\ r3 \in Seq(Steps) /\ Linked(r3) /\ r3 # <<>> /\ r3[1] = [op |-> "select", reg |-> ID]
      /\ Last(r3) = [op |-> "keep", reg |-> ID]
      /\ r1 \in Seq(HandlerReads) /\ r3 \in Seq(HandlerReads)
  BY <1>1, ReadList DEF Chain
<1>6. r1 \in Seq(HandlerSteps) /\ r3 \in Seq(HandlerSteps)
  <2> HIDE DEF HandlerReads, r1, r3
  <2>1. HandlerReads \subseteq HandlerSteps
    BY DEF HandlerSteps
  <2> HIDE DEF HandlerSteps
  <2> QED BY <1>5, <2>1, SeqMonotonic
<1> HIDE DEF r1, s2, r3, s4, Steps, HandlerSteps, Registers
<1>7. /\ r1 \o s2 \in Seq(Steps) /\ Linked(r1 \o s2) /\ r1 \o s2 # <<>>
      /\ (r1 \o s2)[1] = [op |-> "select", reg |-> "INTERRUPT_STATUS"]
      /\ Last(r1 \o s2) = Step("irqs")
  BY <1>3, <1>4, <1>5, JoinedOn
<1>8. /\ r1 \o s2 \o r3 \in Seq(Steps) /\ Linked(r1 \o s2 \o r3) /\ r1 \o s2 \o r3 # <<>>
      /\ (r1 \o s2 \o r3)[1] = [op |-> "select", reg |-> "INTERRUPT_STATUS"]
      /\ Last(r1 \o s2 \o r3) = [op |-> "keep", reg |-> ID]
  BY <1>3, <1>5, <1>7, JoinedOn
<1>9. /\ r1 \o s2 \o r3 \o s4 \in Seq(Steps) /\ Linked(r1 \o s2 \o r3 \o s4)
      /\ r1 \o s2 \o r3 \o s4 # <<>>
      /\ (r1 \o s2 \o r3 \o s4)[1] = [op |-> "select", reg |-> "INTERRUPT_STATUS"]
      /\ Last(r1 \o s2 \o r3 \o s4) = Step("reset_intr")
  BY <1>3, <1>4, <1>8, JoinedOn
<1>10. r1 \o s2 \o r3 \o s4 \in Seq(HandlerSteps)
  BY <1>4, <1>6, ConcatProperties, SMTT(30)
<1>11. irq_handler = r1 \o s2 \o r3 \o s4
  BY DEF irq_handler, r1, s2, r3, s4
<1> QED BY <1>2, <1>3, <1>9, <1>10, <1>11 DEF Chain, Handling, EndsIn

(* pi4io_reset as a list of steps.                                         *)
LEMMA ResetList ==
  /\ reset \in Seq(Steps) /\ Chain(reset) /\ Resetting(reset)
  /\ reset # <<>> /\ reset[1].op = "masked" /\ Has(reset, "init_copies")
<1> DEFINE w == [op |-> "masked", reg |-> ID, mask |-> {SOFTWARE_RESET_BIT},
                 data |-> {SOFTWARE_RESET_BIT}]
<1>1. write_register_bit(ID, SOFTWARE_RESET_BIT, TRUE) = <<w>>
  BY DEF write_register_bit, write_register_masked, PinMask, When
<1>2. w \in ResetWrites /\ w \in ResetSteps /\ w \in Steps /\ w.op = "masked"
  <2>1. {SOFTWARE_RESET_BIT} \in Bits
    BY BitSets DEF Bits
  <2> QED BY <2>1 DEF ResetWrites, ResetSteps, WriteSteps, Steps
<1>3. Follows(w, Step("init_copies")) /\ MayEnd(Step("clear")) /\ Step("clear").op = "clear"
      /\ Step("init_copies").op = "init_copies"
  BY DEF Follows, MayEnd, WritesControl, Step
<1>4. init_copies \in Seq(ResetSteps)
  <2>1. (Reading \cup [op : {"init_copies", "clear"}]) \subseteq ResetSteps
    BY DEF ResetSteps
  <2> HIDE DEF ResetSteps, Reading
  <2> QED BY <2>1, InitList, SeqMonotonic
<1> HIDE DEF w, Steps, ResetSteps
<1>5. <<w>> \in Seq(Steps) /\ <<w>> \in Seq(ResetSteps) /\ Linked(<<w>>) /\ <<w>> # <<>>
      /\ <<w>>[1] = w /\ Last(<<w>>) = w
  BY <1>2, OneStep
<1>6. /\ <<w>> \o init_copies \in Seq(Steps) /\ Linked(<<w>> \o init_copies)
      /\ <<w>> \o init_copies # <<>> /\ (<<w>> \o init_copies)[1] = w
      /\ Last(<<w>> \o init_copies) = Step("clear")
      /\ Has(init_copies, "init_copies") => Has(<<w>> \o init_copies, "init_copies")
  <2>1. /\ init_copies \in Seq(Steps) /\ Linked(init_copies) /\ init_copies # <<>>
        /\ init_copies[1] = Step("init_copies") /\ Last(init_copies) = Step("clear")
    BY InitList DEF Chain
  <2>2. Follows(Last(<<w>>), init_copies[1])
    BY <1>3, <1>5, <2>1
  <2> HIDE DEF init_copies
  <2> QED BY <1>5, <2>1, <2>2, Joined
<1>7. <<w>> \o init_copies \in Seq(ResetSteps)
  BY <1>4, <1>5, ConcatProperties
<1>8. Has(init_copies, "init_copies")
  <2>1. 1 \in 1..Len(init_copies)
    BY InitList, EmptySeq, LenProperties
  <2> QED BY <1>3, <2>1, InitList DEF Has
<1>9. reset = <<w>> \o init_copies
  BY <1>1 DEF reset
<1> QED BY <1>2, <1>3, <1>6, <1>7, <1>8, <1>9 DEF Chain, Resetting, EndsIn

---------------------------------------------------------------------------
(* Types                                                                   *)

(* The next steps take the place of the one that is done, and the other    *)
(* context's are left alone.                                               *)
LEMMA GoOnSteps ==
  ASSUME TypeInv, NEW c \in Contexts, todo[c] # <<>>, NEW steps \in Seq(Steps), GoOn(c, steps)
  PROVE  /\ todo' \in [Contexts -> Seq(Steps)] /\ DOMAIN todo' = Contexts
         /\ todo'[c] = steps \o Tail(todo[c])
         /\ steps = <<>> => todo'[c] = Tail(todo[c])
         /\ \A d \in Contexts : d # c => todo'[d] = todo[d]
<1> HIDE DEF Steps
<1>1. todo[c] \in Seq(Steps) /\ Tail(todo[c]) \in Seq(Steps)
  BY HeadTailProperties DEF TypeInv
<1>2. steps \o Tail(todo[c]) \in Seq(Steps)
  BY <1>1, ConcatProperties
<1>3. <<>> \o Tail(todo[c]) = Tail(todo[c])
  BY <1>1, ConcatEmptySeq
<1>4. todo' = [todo EXCEPT ![c] = steps \o Tail(todo[c])]
  BY DEF GoOn, TypeInv
<1> QED BY <1>2, <1>3, <1>4 DEF TypeInv

(* The step a context is at is a step.                                     *)
LEMMA NextStep ==
  ASSUME TypeInv, NEW c \in Contexts, todo[c] # <<>>
  PROVE  /\ todo[c] \in Seq(Steps) /\ Head(todo[c]) \in Steps /\ todo[c][1] = Head(todo[c])
         /\ Tail(todo[c]) \in Seq(Steps)
<1> HIDE DEF Steps
<1> QED BY HeadTailProperties DEF TypeInv

(* The types hold when pi4io_init has begun.                               *)
LEMMA TypeInit == Init => TypeInv
<1> SUFFICES ASSUME Init PROVE TypeInv
  OBVIOUS
<1>1. copies \in [Config \cup {ID} -> Bits]
  BY DEF Init
<1>2. [r \in Registers |-> {}] \in [Registers -> Bits]
  BY BitSets
<1>3. regs \in [Registers -> Bits]
  BY <1>2, ResetTypes DEF Init
<1>4. todo \in [Contexts -> Seq(Steps)] /\ DOMAIN todo = Contexts
  <2> HIDE DEF Steps, reset
  <2>1. <<>> \in Seq(Steps)
    OBVIOUS
  <2> QED BY <2>1, CallTypes DEF Init
<1>5. data \in [Contexts -> Bits] /\ pointer = "none"
  BY BitSets DEF Init
<1>6. enabled \in BOOLEAN
  BY Zenon DEF Init
<1> QED BY <1>1, <1>3, <1>4, <1>5, <1>6 DEF TypeInv, TypeOK

(* They hold when a call begins that is made of steps.                     *)
LEMMA BeginTypes ==
  ASSUME TypeInv, NEW steps \in Seq(Steps), Begin(steps)
  PROVE  TypeInv'
<1> HIDE DEF Steps
<1>1. todo' \in [Contexts -> Seq(Steps)] /\ DOMAIN todo' = Contexts
  BY DEF Begin, TypeInv
<1> QED BY <1>1 DEF Begin, TypeInv, TypeOK

(* The registers the program writes.                                       *)
LEMMA CallTypesNext ==
  ASSUME TypeInv, Call
  PROVE  TypeInv'
<1>1. CASE WriteAll
  <2>1. PICK r \in Written, new \in Values : Begin(write_register_raw(r, Pins, new))
    BY <1>1 DEF WriteAll
  <2> QED BY <2>1, BeginTypes, CallTypes, BitSets, Pi4ioAssumption
<1>2. CASE WriteMasked
  <2>1. PICK r \in Written, mask \in Bits, new \in Values :
          Begin(write_register_masked(r, mask, new))
    BY <1>2 DEF WriteMasked
  <2> QED BY <2>1, BeginTypes, CallTypes, BitSets, Pi4ioAssumption
<1>3. CASE WritePin
  <2>1. PICK r \in Written, pin \in Pins, value \in BOOLEAN : Begin(write_register_bit(r, pin, value))
    BY <1>3 DEF WritePin
  <2> QED BY <2>1, BeginTypes, CallTypes, Pi4ioAssumption
<1>4. CASE SetPinPair
  <2>1. PICK pair \in Pairs, pin \in Pins, first \in BOOLEAN, second \in BOOLEAN :
          /\ {pair[1], pair[2]} \subseteq Written
          /\ Begin(write_register_bit(pair[1], pin, first)
                   \o write_register_bit(pair[2], pin, second))
    BY <1>4 DEF SetPinPair
  <2>2. /\ write_register_bit(pair[1], pin, first) \in Seq(Steps)
        /\ write_register_bit(pair[2], pin, second) \in Seq(Steps)
    BY <2>1, CallTypes, Pi4ioAssumption
  <2> QED BY <2>1, <2>2, BeginTypes, ConcatProperties
<1>5. CASE ReadStatus
  <2>1. PICK r \in {"INPUT_STATUS", "INTERRUPT_STATUS"} : Begin(read_register_raw(r))
    BY <1>5 DEF ReadStatus
  <2>2. r \in Registers
    BY <2>1 DEF Registers
  <2> QED BY <2>1, <2>2, BeginTypes, CallTypes
<1>6. CASE pi4io_reset
  BY <1>6, BeginTypes, CallTypes DEF pi4io_reset
<1>7. CASE RegisterCallbacks
  BY <1>7 DEF RegisterCallbacks, TypeInv, TypeOK
<1>8. CASE pi4io_irq_handler
  <2> HIDE DEF Steps, irq_handler
  <2>1. todo' \in [Contexts -> Seq(Steps)] /\ DOMAIN todo' = Contexts
    BY <1>8, CallTypes DEF pi4io_irq_handler, TypeInv
  <2> QED BY <1>8, <2>1 DEF pi4io_irq_handler, TypeInv, TypeOK
<1> QED BY <1>1, <1>2, <1>3, <1>4, <1>5, <1>6, <1>7, <1>8 DEF Call

(* What the board does on its own keeps the types.                         *)
LEMMA BoardTypes ==
  ASSUME TypeInv, InputChanges \/ ExpanderResets
  PROVE  TypeInv'
<1>1. regs' \in [Registers -> Bits]
  <2>1. CASE InputChanges
    <3>1. PICK pin \in Pins, input \in SUBSET Pins, raised \in SUBSET Pins :
            regs' = [regs EXCEPT !["INPUT_STATUS"] = input, !["INTERRUPT_STATUS"] = raised]
      <4>1. PICK pin \in Pins :
              LET input == IF pin \in regs["INPUT_STATUS"]
                           THEN regs["INPUT_STATUS"] \ {pin} ELSE regs["INPUT_STATUS"] \cup {pin}
                  raises == /\ pin \notin regs["INTERRUPT_MASK"]
                            /\ (pin \in input) # (pin \in regs["INPUT_DEFAULT_STATE"])
              IN  regs' = [regs EXCEPT !["INPUT_STATUS"] = input,
                                       !["INTERRUPT_STATUS"] = @ \cup When(raises, {pin})]
        BY <2>1 DEF InputChanges
      <4>2. regs["INPUT_STATUS"] \subseteq Pins /\ regs["INTERRUPT_STATUS"] \subseteq Pins
        BY DEF TypeInv, TypeOK, Registers, Bits
      <4> QED BY <4>1, <4>2 DEF When
    <3> HIDE DEF Registers
    <3> QED BY <3>1 DEF TypeInv, TypeOK, Bits
  <2>2. CASE ExpanderResets
    BY <2>2, ResetTypes DEF ExpanderResets, TypeInv, TypeOK
  <2> QED BY <2>1, <2>2
<1>2. UNCHANGED <<copies, todo, data, enabled>> /\ pointer' \in {pointer, "none"}
  BY DEF InputChanges, ExpanderResets
<1> QED BY <1>1, <1>2 DEF TypeInv, TypeOK

(* What a callback may write.                                              *)
LEMMA CallbackTypes ==
  ASSUME NEW registers, registers \subseteq Config, NEW writes \in CallbackWrites(registers)
  PROVE  writes \in Seq(Steps)
<1> HIDE DEF Steps
<1>1. PinMask(0) \in Bits
  BY BitSets DEF PinMask, Bits
<1>2. \A r \in registers, new \in Values : write_register_masked(r, PinMask(0), new) \in Seq(Steps)
  BY <1>1, BitSets, CallTypes
<1>3. <<>> \in Seq(Steps)
  OBVIOUS
<1>4. writes # <<>> =>
        \E r \in registers, new \in Values : writes = write_register_masked(r, PinMask(0), new)
  BY DEF CallbackWrites
<1> QED BY <1>2, <1>3, <1>4

(* So does every step of a call.                                           *)
LEMMA AdvanceTypes ==
  ASSUME TypeInv, NEW c \in Contexts, Advance(c)
  PROVE  TypeInv'
<1> DEFINE s == Head(todo[c])
<1>1. todo[c] # <<>>
  BY DEF Advance, ComputeMasked, StoreCopy, Send, Select, Receive, Keep, InitCopies,
     ClearResetInterrupt, ReadIrqs, PinIrq, ResetIntr, RstCallback, At
<1>2. s \in Steps
  BY <1>1, NextStep
<1>3. ASSUME NEW steps \in Seq(Steps), GoOn(c, steps),
             copies' \in [Config \cup {ID} -> Bits], regs' \in [Registers -> Bits],
             pointer' \in Registers \cup {"none"}, data' \in [Contexts -> Bits],
             enabled' = enabled
      PROVE  TypeInv'
  BY <1>1, <1>3, GoOnSteps DEF TypeInv, TypeOK
<1>4. <<>> \in Seq(Steps)
  OBVIOUS
<1>5. [data EXCEPT ![c] = {}] \in [Contexts -> Bits]
  BY BitSets DEF TypeInv, TypeOK
<1>6. ID \in Registers /\ Config \subseteq Registers
  BY DEF Registers
<1>7. CASE ComputeMasked(c)
  <2>1. s \in WriteSteps
    BY <1>2, <1>7, Kinds DEF ComputeMasked, At
  <2>2. /\ s.reg \in Config \cup {ID} /\ s.mask \in Bits /\ s.data \in Bits
        /\ copies[s.reg] \in Bits
    BY <2>1 DEF WriteSteps, TypeInv, TypeOK
  <2>3. write_register_raw(s.reg, s.mask, Masked(copies[s.reg], s.mask, s.data)) \in Seq(Steps)
    BY <2>2, BitSets, CallTypes
  <2> QED BY <1>3, <1>7, <2>3 DEF ComputeMasked, TypeInv, TypeOK
<1>8. CASE StoreCopy(c)
  <2>1. s \in WriteSteps
    BY <1>2, <1>8, Kinds DEF StoreCopy, At
  <2>2. [copies EXCEPT ![s.reg] = s.data] \in [Config \cup {ID} -> Bits]
    BY <2>1 DEF WriteSteps, TypeInv, TypeOK
  <2> QED BY <1>3, <1>4, <1>8, <2>2 DEF StoreCopy, TypeInv, TypeOK
<1>9. CASE Send(c)
  <2>1. s \in WriteSteps
    BY <1>2, <1>9, Kinds DEF Send, At
  <2>2. regs' \in [Registers -> Bits]
    <3>1. s.reg \in Registers /\ s.data \in Bits
      BY <1>6, <2>1 DEF WriteSteps
    <3> HIDE DEF Registers, Bits
    <3> QED BY <1>9, <3>1, ResetTypes DEF Send, TypeInv, TypeOK
  <2> QED BY <1>3, <1>4, <1>9, <2>2 DEF Send, TypeInv, TypeOK
<1>10. CASE Select(c)
  <2>1. s.reg \in Registers
    BY <1>2, <1>10, Kinds DEF Select, At, ReadSteps
  <2> QED BY <1>3, <1>4, <1>10, <2>1 DEF Select, TypeInv, TypeOK
<1>11. CASE Receive(c)
  <2>1. data' \in [Contexts -> Bits]
    <3> HIDE DEF Bits, Contexts, Registers
    <3>1. CASE pointer = "none"
      BY <1>11, <3>1 DEF Receive, TypeInv, TypeOK
    <3>2. CASE pointer # "none"
      <4>1. regs[pointer] \in Bits /\ data' = [data EXCEPT ![c] = regs[pointer]]
        BY <1>11, <3>2 DEF Receive, TypeInv, TypeOK
      <4> QED BY <4>1 DEF TypeInv, TypeOK
    <3> QED BY <3>1, <3>2
  <2>2. regs' \in [Registers -> Bits]
    BY <1>11, ResetTypes DEF Receive, TypeInv, TypeOK
  <2> QED BY <1>3, <1>4, <1>11, <2>1, <2>2 DEF Receive, TypeInv, TypeOK
<1>12. CASE Keep(c)
  <2>1. copies' \in [Config \cup {ID} -> Bits]
    BY <1>12 DEF Keep, TypeInv, TypeOK
  <2>2. data' \in [Contexts -> Bits]
    BY <1>5, <1>12 DEF Keep, TypeInv, TypeOK
  <2> QED BY <1>3, <1>4, <1>12, <2>1, <2>2 DEF Keep, TypeInv, TypeOK
<1>13. CASE InitCopies(c)
  <2>1. copies' \in [Config \cup {ID} -> Bits]
    <3>1. \A r \in Config : InitialCopies[r] \in Bits
      BY ResetTypes
    <3> HIDE DEF Config, Bits
    <3> QED BY <1>13, <3>1 DEF InitCopies, TypeInv, TypeOK
  <2> QED BY <1>3, <1>4, <1>13, <2>1 DEF InitCopies, TypeInv, TypeOK
<1>14. CASE ClearResetInterrupt(c)
  <2>1. copies' \in [Config \cup {ID} -> Bits]
    BY <1>14 DEF ClearResetInterrupt, TypeInv, TypeOK, Bits
  <2> QED BY <1>3, <1>4, <1>14, <2>1 DEF ClearResetInterrupt, TypeInv, TypeOK
<1>15. CASE ReadIrqs(c)
  <2> DEFINE pin == [op |-> "pin", pin |-> 0, irqs |-> data[c]]
  <2>1. pin \in Steps
    <3>1. 0 \in Pins /\ data[c] \in Bits
      BY Pi4ioAssumption DEF Pins, TypeInv, TypeOK
    <3> QED BY <3>1 DEF Steps, PinSteps
  <2>2. GoOn(c, <<pin>>) /\ data' = [data EXCEPT ![c] = {}] /\ UNCHANGED <<copies, regs, pointer, enabled>>
    BY <1>15 DEF ReadIrqs
  <2> HIDE DEF pin, Steps
  <2>3. <<pin>> \in Seq(Steps)
    BY <2>1
  <2> QED BY <1>3, <1>5, <2>2, <2>3 DEF TypeInv, TypeOK
<1>16. CASE PinIrq(c)
  <2> DEFINE step == [s EXCEPT !.pin = s.pin + 1, !.irqs = Shifted(s.irqs)]
             next == IF s.irqs # {} /\ s.pin + 1 < NPins THEN <<step>> ELSE <<>>
  <2>1. s \in PinSteps
    BY <1>2, <1>16, Kinds DEF PinIrq, At
  <2>2. s.pin + 1 < NPins => step \in Steps
    <3>1. s.pin + 1 < NPins => s.pin + 1 \in Pins
      BY <2>1, Pi4ioAssumption DEF PinSteps, Pins
    <3>2. s.pin + 1 < NPins => step \in PinSteps
      BY <2>1, <3>1 DEF PinSteps, Shifted
    <3> QED BY <3>2 DEF Steps
  <2>3. next \in Seq(Steps)
    <3> HIDE DEF step, Steps
    <3> QED BY <2>2
  <2>4. PICK writes \in CallbackWrites(CallbackWritten) : GoOn(c, writes \o next)
    <3>1. <<>> \in CallbackWrites(CallbackWritten)
      BY DEF CallbackWrites
    <3> QED BY <1>16, <3>1 DEF PinIrq
  <2>5. writes \o next \in Seq(Steps)
    <3>1. writes \in Seq(Steps)
      BY <2>4, CallbackTypes, Pi4ioAssumption
    <3> HIDE DEF next, Steps
    <3> QED BY <2>3, <3>1, ConcatProperties
  <2> HIDE DEF next
  <2> QED BY <1>3, <1>16, <2>4, <2>5 DEF PinIrq, TypeInv, TypeOK
<1>17. CASE ResetIntr(c)
  <2>1. \E steps \in Seq(Steps) : GoOn(c, steps)
    <3>1. init_copies \o <<Step("rst_callback")>> \in Seq(Steps)
      BY CallTypes, ConcatProperties
    <3> QED BY <1>4, <1>17, <3>1 DEF ResetIntr
  <2> QED BY <1>3, <1>5, <1>17, <2>1 DEF ResetIntr, TypeInv, TypeOK
<1>18. CASE RstCallback(c)
  BY <1>3, <1>18, CallbackTypes, Pi4ioAssumption DEF RstCallback, TypeInv, TypeOK
<1> QED BY <1>7, <1>8, <1>9, <1>10, <1>11, <1>12, <1>13, <1>14, <1>15, <1>16, <1>17, <1>18
        DEF Advance

(* So does every step of the system.                                       *)
LEMMA TypeNext == TypeInv /\ [Next]_vars => TypeInv'
<1>1. ASSUME TypeInv, UNCHANGED vars PROVE TypeInv'
  BY <1>1 DEF TypeInv, TypeOK, vars
<1> QED BY <1>1, CallTypesNext, AdvanceTypes, BoardTypes DEF Next

(* Whatever the program and the board do, and wherever interrupts cut in,  *)
(* calls are lists of steps and registers sets of bits.                    *)
THEOREM TypesKept == Spec => []TypeOK
<1>1. TypeInv => TypeOK
  BY DEF TypeInv
<1> QED BY <1>1, TypeInit, TypeNext, PTL DEF Spec

---------------------------------------------------------------------------
(* The invariant of a program and a board that take no risk                *)

Main == todo["main"]
Irq == todo["irq"]

(* The handler has read DEVICE_ID_AND_CONTROL, which cleared the reset     *)
(* interrupt; when the bit was set, only its data still says so.           *)
IdRead(t) ==
  First(t, "reset_intr") \/ (First(t, "keep") /\ Len(t) >= 2 /\ t[2].op = "reset_intr")
ResetSeen == IdRead(Irq) /\ RESET_INTERRUPT_BIT \in data["irq"]

Sending(t, r) == First(t, "send") /\ t[1].reg = r
Outside(s, held) == \A pin \in Pins \ s.mask : pin \in s.data <=> pin \in held[s.reg]
Writes(t, held, sent) ==
  /\ First(t, "copy") /\ t[1].reg \in Config => Outside(t[1], held)
  /\ First(t, "send") /\ t[1].reg \in Config =>
       held[t[1].reg] = t[1].data /\ Outside(t[1], sent)

Shapes == MainShape(Main) /\ IrqShape(Irq) /\ Chain(Main) /\ Chain(Irq)

(* A callback, like the program, writes no register that the other does.   *)
Apart == CallbackWritten \cap Written = {}

(* A write of a callback that the handler has called is under way.         *)
WriteOps == {"masked", "copy", "send"}
Writing(t) == t # <<>> /\ t[1].op \in WriteOps

(* Only the handler cuts into a call, and never into pi4io_reset: a reset  *)
(* that is pending is known to nobody or is the program's own, and until   *)
(* the handler has read of one, no other call begins and no callback       *)
(* writes.                                                                 *)
OneAtATime ==
  /\ Irq # <<>> /\ Main # <<>> => Handling(Irq) /\ ~Resetting(Main)
  /\ ResetPending => /\ Main = <<>> \/ Resetting(Main)
                     /\ Irq = <<>> \/ (Handling(Irq) /\ ~IdRead(Irq) /\ ~Writing(Irq))
  /\ ResetSeen => Main = <<>>
  /\ First(Irq, "receive") => pointer = Irq[2].reg

(* The registers are what the reset made them until the copies are.        *)
Fresh ==
  ResetPending \/ ResetSeen \/ First(Main, "init_copies") \/ First(Irq, "init_copies")
    => \A r \in Config : regs[r] = ResetValue(r)

Synced ==
  \A r \in Config :
    \/ copies[r] = regs[r]
    \/ ResetPending /\ Main = <<>>
    \/ ResetSeen
    \/ Has(Main, "init_copies") \/ Has(Irq, "init_copies")
    \/ Sending(Main, r) \/ Sending(Irq, r)

WritesKept == Writes(Main, copies, regs) /\ Writes(Irq, copies, regs)

CoherentInv == TypeInv /\ Shapes /\ OneAtATime /\ Fresh /\ Synced /\ WritesKept

---------------------------------------------------------------------------
(* What the shape of a list says of its first step and of the rest         *)

(* The steps of a list, first and last included, are of the kind the list  *)
(* is of.                                                                  *)
LEMMA StepsOf ==
  ASSUME NEW S, NEW t \in Seq(S), t # <<>>
  PROVE  Tail(t) \in Seq(S) /\ 1 \in 1..Len(t) /\ \A i \in 1..Len(t) : t[i] \in S
<1>1. Len(t) \in Nat /\ Len(t) # 0
  BY EmptySeq, LenProperties
<1> QED BY <1>1, HeadTailProperties, ElementOfSeq

(* What the steps of each shape do.                                        *)
LEMMA OpsOf ==
  /\ \A s \in ConfigWrites :
       s \in WriteSteps /\ s.op \in {"masked", "copy", "send"} /\ s.reg \in Config /\ s.reg # ID
  /\ \A s \in Reading : s.op \in {"select", "receive", "keep"}
  /\ \A s \in ResetSteps :
       /\ s.op \in {"masked", "copy", "send", "select", "receive", "keep", "init_copies", "clear"}
       /\ s.op \in {"masked", "copy", "send"} => s \in ResetWrites
  /\ \A s \in MainWrites : s.reg \in Written /\ s \in ConfigWrites
  /\ \A s \in HandlerSteps :
       /\ s.op \in {"select", "receive", "keep", "pin", "irqs", "reset_intr"} \cup WriteOps
       /\ s.op \in WriteOps =>
            s \in WriteSteps /\ s.reg \in CallbackWritten /\ s.reg \in Config /\ s.reg # ID
       /\ s.op = "select" => s.reg # "INPUT_STATUS"
  /\ \A s \in InitSteps :
       s.op \in {"select", "receive", "keep", "init_copies", "clear", "rst_callback"}
<1>1. ID \notin Config /\ Written \subseteq Config /\ CallbackWritten \subseteq Config
  BY Pi4ioAssumption DEF ID, Config
<1> HIDE DEF ID, Config, Bits, Registers, Pins
<1> QED BY <1>1 DEF ConfigWrites, MainWrites, IrqWrites, WritesOf, ResetWrites, Reading, ResetSteps,
       HandlerReads, HandlerSteps, InitSteps, WriteSteps, ReadSteps, PinSteps, WriteOps

(* A list that ends in a certain step does so when another one is done.    *)
LEMMA EndsLater ==
  ASSUME NEW t \in Seq(Steps), t # <<>>, Chain(t), NEW op, EndsIn(t, op)
  PROVE  /\ Tail(t) # <<>> => EndsIn(Tail(t), op)
         /\ t[1].op # op => Tail(t) # <<>>
<1> HIDE DEF Steps
<1>1. Tail(t) = <<>> => Len(t) = 1
  BY Rest
<1>2. Tail(t) # <<>> => Last(Tail(t)) = Last(t)
  BY Rest
<1> QED BY <1>1, <1>2 DEF EndsIn, Last

(* A write of configuration registers has no part in a reset and reads     *)
(* nothing.                                                                *)
LEMMA ConfigWriteList ==
  ASSUME NEW t \in Seq(ConfigWrites), t # <<>>
  PROVE  /\ t[1] \in WriteSteps /\ t[1].op \in {"masked", "copy", "send"}
         /\ t[1].reg \in Config /\ t[1].reg # ID
         /\ Tail(t) \in Seq(ConfigWrites) /\ ~Has(t, "init_copies") /\ ~Has(t, "clear")
         /\ ~Handling(t) /\ ~Initialising(t) /\ ~Resetting(t) /\ ~IdRead(t) /\ t \notin Seq(Reading)
<1> HIDE DEF ConfigWrites, HandlerSteps, InitSteps, ResetSteps, Reading, WriteSteps, Config
<1>1. Tail(t) \in Seq(ConfigWrites) /\ 1 \in 1..Len(t) /\ \A i \in 1..Len(t) : t[i] \in ConfigWrites
  BY StepsOf
<1>2. \A i \in 1..Len(t) : t[i].op \in {"masked", "copy", "send"}
  BY <1>1, OpsOf
<1>3. Len(t) \in 1..Len(t)
  BY EmptySeq, LenProperties
<1>4. ~EndsIn(t, "clear") /\ ~EndsIn(t, "reset_intr") /\ ~EndsIn(t, "rst_callback")
  BY <1>2, <1>3 DEF EndsIn, Last
<1>5. t \notin Seq(Reading)
  BY <1>1, <1>2, StepsOf, OpsOf
<1>6. ~IdRead(t)
  BY <1>1, <1>2 DEF IdRead, First
<1> QED BY <1>1, <1>2, <1>4, <1>5, <1>6, OpsOf DEF Has, Handling, Initialising, Resetting

(* So has a write of the program, to registers that it writes.             *)
LEMMA MainWriteList ==
  ASSUME NEW t \in Seq(MainWrites)
  PROVE  /\ t \in Seq(ConfigWrites)
         /\ t # <<>> => t[1].reg \in Written /\ Tail(t) \in Seq(MainWrites)
<1> HIDE DEF MainWrites, ConfigWrites
<1>1. t # <<>> => Tail(t) \in Seq(MainWrites) /\ t[1] \in MainWrites
  BY StepsOf
<1> QED BY <1>1, WriteSets, OpsOf

(* A read sets no copies up.                                               *)
LEMMA ReadingList ==
  ASSUME NEW t \in Seq(Reading), t # <<>>
  PROVE  /\ t[1].op \in {"select", "receive", "keep"} /\ Tail(t) \in Seq(Reading)
         /\ ~Has(t, "init_copies") /\ ~Has(t, "clear") /\ ~Resetting(t)
<1> HIDE DEF ResetSteps, Reading
<1>1. Tail(t) \in Seq(Reading) /\ 1 \in 1..Len(t) /\ \A i \in 1..Len(t) : t[i] \in Reading
  BY StepsOf
<1>2. \A i \in 1..Len(t) : t[i].op \in {"select", "receive", "keep"}
  BY <1>1, OpsOf
<1>3. Len(t) \in 1..Len(t)
  BY EmptySeq, LenProperties
<1>4. ~EndsIn(t, "clear")
  BY <1>2, <1>3 DEF EndsIn, Last
<1> QED BY <1>1, <1>2, <1>4 DEF Has, Resetting

(* A reset is one until its last step, and writes the reset bit.           *)
LEMMA ResettingList ==
  ASSUME NEW t \in Seq(Steps), Chain(t), Resetting(t)
  PROVE  /\ t # <<>> /\ Has(t, "clear")
         /\ t[1].op \in {"masked", "copy", "send", "select", "receive", "keep",
                         "init_copies", "clear"}
         /\ t[1].op \in {"masked", "copy", "send"} =>
              t[1] \in ResetWrites /\ t[1] \in WriteSteps /\ t[1].reg = ID
         /\ Tail(t) # <<>> => Resetting(Tail(t))
         /\ t[1].op # "clear" => Resetting(Tail(t)) /\ Tail(t) # <<>>
         /\ ~IdRead(t)
<1> HIDE DEF ResetSteps, Steps
<1>1. t # <<>> /\ t \in Seq(ResetSteps) /\ EndsIn(t, "clear")
  BY DEF Resetting, EndsIn
<1>2. Tail(t) \in Seq(ResetSteps) /\ 1 \in 1..Len(t) /\ \A i \in 1..Len(t) : t[i] \in ResetSteps
  BY <1>1, StepsOf
<1>3. Len(t) \in 1..Len(t)
  BY <1>1, EmptySeq, LenProperties
<1>4. Has(t, "clear")
  BY <1>1, <1>3 DEF EndsIn, Last, Has
<1>5. t[1].op \in {"masked", "copy", "send"} =>
        t[1] \in ResetWrites /\ t[1] \in WriteSteps /\ t[1].reg = ID
  BY <1>2, OpsOf DEF ResetWrites
<1>6. Len(t) >= 2 => 2 \in 1..Len(t)
  BY <1>3
<1>7. ~IdRead(t)
  <2>1. \A s \in ResetSteps : s.op # "reset_intr"
    BY OpsOf
  <2> QED BY <1>2, <1>6, <2>1 DEF IdRead, First
<1> QED BY <1>1, <1>2, <1>4, <1>5, <1>7, EndsLater, OpsOf DEF Resetting

(* The handler is in the handler until its last step; after                *)
(* DEVICE_ID_AND_CONTROL it reads nothing more.                            *)
LEMMA HandlingList ==
  ASSUME NEW t \in Seq(Steps), Chain(t), Handling(t)
  PROVE  /\ t # <<>> /\ ~Has(t, "init_copies") /\ ~Initialising(t)
         /\ t[1].op \in {"select", "receive", "keep", "pin", "irqs", "reset_intr"} \cup WriteOps
         /\ t[1].op \in WriteOps =>
              t[1] \in WriteSteps /\ t[1].reg \in CallbackWritten /\ t[1].reg \in Config
         /\ Tail(t) # <<>> => Handling(Tail(t))
         /\ t[1].op # "reset_intr" => Handling(Tail(t)) /\ Tail(t) # <<>>
         /\ t[1].op = "receive" /\ t[2].reg = ID => IdRead(Tail(t))
<1> HIDE DEF HandlerSteps, InitSteps, Steps, WriteSteps, Config
<1>1. t # <<>> /\ t \in Seq(HandlerSteps) /\ EndsIn(t, "reset_intr")
  BY DEF Handling, EndsIn
<1>2. Tail(t) \in Seq(HandlerSteps) /\ 1 \in 1..Len(t) /\ \A i \in 1..Len(t) : t[i] \in HandlerSteps
  BY <1>1, StepsOf
<1>3. /\ \A i \in 1..Len(t) :
           t[i].op \in {"select", "receive", "keep", "pin", "irqs", "reset_intr"} \cup WriteOps
      /\ t[1].op \in WriteOps =>
           t[1] \in WriteSteps /\ t[1].reg \in CallbackWritten /\ t[1].reg \in Config
  BY <1>2, OpsOf
<1>4. Len(t) \in 1..Len(t) /\ Len(t) \in Nat
  BY <1>1, EmptySeq, LenProperties
<1>5. ~EndsIn(t, "rst_callback")
  BY <1>3, <1>4 DEF EndsIn, Last, WriteOps
<1>6. ASSUME t[1].op = "receive", t[2].reg = ID PROVE IdRead(Tail(t))
  <2>1. Len(t) >= 2 /\ Tail(t) # <<>> /\ Follows(t[1], t[2]) /\ t[2].op = "keep"
        /\ Len(Tail(t)) = Len(t) - 1 /\ Tail(t)[1] = t[2]
    <3>1. Tail(t) # <<>>
      BY <1>1, <1>6, EndsLater
    <3> QED BY <1>1, <1>6, <3>1, Rest DEF Follows
  <2>2. Len(t) >= 3
    <3>1. t[Len(t)].op = "reset_intr"
      BY <1>1 DEF EndsIn, Last
    <3>2. Len(t) # 2
      <4> SUFFICES ASSUME Len(t) = 2 PROVE FALSE
        OBVIOUS
      <4>1. t[Len(t)] = t[2]
        OBVIOUS
      <4>2. t[2].op = "reset_intr" /\ t[2].op = "keep"
        BY <2>1, <3>1, <4>1
      <4> QED BY <4>2
    <3> DEFINE n == Len(t)
    <3>3. n \in Nat /\ n >= 2 /\ n # 2
      BY <1>4, <2>1, <3>2
    <3> HIDE DEF n
    <3>4. n >= 3
      BY <3>3
    <3> QED BY <3>4 DEF n
  <2>3. Tail(t)[2] = t[3] /\ Follows(t[2], t[3])
    BY <1>1, <2>2, Rest
  <2>4. t[3].op = "reset_intr"
    <3>1. t[3].op = "reset_intr" \/ t[3] = [op |-> "select", reg |-> "INPUT_STATUS"]
      BY <1>6, <2>1, <2>3 DEF Follows
    <3>2. t[3] \in HandlerSteps
      <4>1. 3 \in 1..Len(t)
        BY <1>4, <2>2
      <4> QED BY <1>2, <4>1
    <3> QED BY <3>1, <3>2, OpsOf
  <2>5. Len(Tail(t)) >= 2
    BY <1>4, <2>1, <2>2
  <2> QED BY <2>1, <2>3, <2>4, <2>5 DEF IdRead, First
<1> QED BY <1>1, <1>2, <1>3, <1>5, <1>6, EndsLater DEF Has, Handling, Initialising, WriteOps

(* After a reset the handler sets the copies up until it is in             *)
(* rst_callback, and asks no more of the reset interrupt.                  *)
LEMMA InitialisingList ==
  ASSUME NEW t \in Seq(Steps), Chain(t), Initialising(t)
  PROVE  /\ t # <<>> /\ ~Handling(t) /\ ~IdRead(t)
         /\ t[1].op \in {"select", "receive", "keep", "init_copies", "clear", "rst_callback"}
         /\ Tail(t) # <<>> => Initialising(Tail(t))
         /\ t[1].op # "rst_callback" => Initialising(Tail(t)) /\ Tail(t) # <<>>
<1> HIDE DEF InitSteps, Steps
<1>1. t # <<>> /\ t \in Seq(InitSteps) /\ EndsIn(t, "rst_callback")
  BY DEF Initialising, EndsIn
<1>2. Tail(t) \in Seq(InitSteps) /\ 1 \in 1..Len(t) /\ \A i \in 1..Len(t) : t[i] \in InitSteps
  BY <1>1, StepsOf
<1>3. \A i \in 1..Len(t) :
        t[i].op \in {"select", "receive", "keep", "init_copies", "clear", "rst_callback"}
  BY <1>2, OpsOf
<1>4. ~Handling(t)
  <2> HIDE DEF WriteSteps, Config
  <2> QED BY <1>1, HandlingList
<1>5. Len(t) \in Nat
  BY LenProperties
<1>6. ~IdRead(t)
  <2>1. Len(t) >= 2 => 2 \in 1..Len(t)
    BY <1>5
  <2> QED BY <1>2, <1>3, <2>1 DEF IdRead, First
<1> QED BY <1>1, <1>2, <1>3, <1>4, <1>6, EndsLater DEF Initialising

(* Of a list with no steps.                                                *)
LEMMA Nothing ==
  /\ <<>> \in Seq(Steps) /\ Chain(<<>>) /\ MainShape(<<>>) /\ IrqShape(<<>>) /\ ~IdRead(<<>>)
  /\ ~Resetting(<<>>) /\ ~Handling(<<>>)
  /\ \A op : ~First(<<>>, op) /\ ~Has(<<>>, op)
  /\ ~Writing(<<>>) /\ \A r : ~Sending(<<>>, r)
  /\ \A held, sent : Writes(<<>>, held, sent)
<1>1. \A op : ~First(<<>>, op) /\ ~Has(<<>>, op) /\ ~EndsIn(<<>>, op)
  BY DEF First, Has, EndsIn
<1>2. Chain(<<>>)
  BY DEF Chain, Linked
<1>3. <<>> \in Seq(Steps) /\ <<>> \in Seq(ConfigWrites) /\ <<>> \in Seq(MainWrites)
  OBVIOUS
<1> QED BY <1>1, <1>2, <1>3
        DEF MainShape, IrqShape, IdRead, Sending, Writes, Resetting, Handling, Writing

(* The rest of a list has a shape when the list has one.                   *)
LEMMA ShapeRest ==
  ASSUME NEW t \in Seq(Steps), t # <<>>, Chain(t)
  PROVE  /\ MainShape(t) => MainShape(Tail(t))
         /\ IrqShape(t) => IrqShape(Tail(t))
<1> HIDE DEF Steps, MainWrites, ConfigWrites, Reading
<1>1. MainShape(t) => MainShape(Tail(t))
  BY Nothing, MainWriteList, ReadingList, ResettingList DEF MainShape
<1>2. IrqShape(t) => IrqShape(Tail(t))
  <2> HIDE DEF WriteSteps, Config
  <2> QED BY Nothing, ConfigWriteList, HandlingList, InitialisingList DEF IrqShape
<1> QED BY <1>1, <1>2

(* What the head of a list says of its shape.                              *)
LEMMA HeadSays ==
  ASSUME NEW t \in Seq(Steps), t # <<>>, Chain(t)
  PROVE  /\ MainShape(t) =>
              /\ t[1].op \in {"masked", "copy", "send", "select", "receive", "keep",
                              "init_copies", "clear"}
              /\ t[1].op \in {"masked", "copy", "send"} =>
                   \/ /\ t \in Seq(MainWrites) /\ t \in Seq(ConfigWrites)
                      /\ t[1].reg \in Written /\ t[1].reg \in Config
                   \/ Resetting(t) /\ t[1] \in ResetWrites /\ t[1].reg = ID
              /\ t[1].op \in {"init_copies", "clear"} => Resetting(t)
              /\ ~IdRead(t)
         /\ IrqShape(t) =>
              /\ t[1].op \in {"masked", "copy", "send"} =>
                   \/ t \in Seq(ConfigWrites) /\ t[1].reg \in Config
                   \/ Handling(t)
              /\ t[1].op \in {"init_copies", "clear", "rst_callback"} =>
                   Initialising(t) /\ ~Handling(t)
              /\ t[1].op \in {"select", "receive", "keep"} => Handling(t) \/ Initialising(t)
              /\ t[1].op \in {"irqs", "pin", "reset_intr"} => Handling(t)
<1> HIDE DEF Steps, WriteSteps, Config, Reading, ConfigWrites, MainWrites
<1>1. t \in Seq(Reading) => ~IdRead(t)
  <2> SUFFICES ASSUME t \in Seq(Reading), IdRead(t) PROVE FALSE
    OBVIOUS
  <2>1. 1 \in 1..Len(t) /\ \A i \in 1..Len(t) : t[i] \in Reading
    BY StepsOf
  <2>2. \A i \in 1..Len(t) : t[i].op # "reset_intr"
    BY <2>1, OpsOf
  <2>3. Len(t) >= 2 => 2 \in 1..Len(t)
    BY LenProperties
  <2> QED BY <2>1, <2>2, <2>3 DEF IdRead, First
<1>2. MainShape(t) => t \in Seq(MainWrites) \/ t \in Seq(Reading) \/ Resetting(t)
  BY DEF MainShape
<1>3. IrqShape(t) => t \in Seq(ConfigWrites) \/ Handling(t) \/ Initialising(t)
  BY DEF IrqShape
<1>4. t \in Seq(MainWrites) => t \in Seq(ConfigWrites) /\ t[1].reg \in Written
  BY MainWriteList
<1> QED BY <1>1, <1>2, <1>3, <1>4, ConfigWriteList, ReadingList, ResettingList, HandlingList,
       InitialisingList DEF WriteOps

(* While a call writes, sets the copies up, or is in rst_callback, the     *)
(* other context is idle, but for the writes of a callback in the handler. *)
LEMMA Alone ==
  ASSUME CoherentInv, NEW c \in Contexts, NEW o \in Contexts, c # o,
         NEW op \in {"masked", "copy", "send", "init_copies", "clear", "rst_callback"},
         At(c, op), c = "irq" /\ op \in WriteOps => ~Handling(todo[c])
  PROVE  /\ todo[o] = <<>> /\ ~ResetSeen /\ (c = "irq" => ~ResetPending)
         /\ todo[c] \in Seq(Steps) /\ todo[c] # <<>> /\ Chain(todo[c])
         /\ Head(todo[c]) = todo[c][1] /\ todo[c][1].op = op
         /\ c = "main" => MainShape(todo[c])
         /\ c = "irq" => IrqShape(todo[c])
         /\ ResetPending => Resetting(todo[c])
<1> HIDE DEF Steps
<1>1. /\ Main \in Seq(Steps) /\ Irq \in Seq(Steps) /\ Chain(Main) /\ Chain(Irq)
      /\ MainShape(Main) /\ IrqShape(Irq)
  BY DEF CoherentInv, TypeInv, Shapes, Main, Irq, Contexts
<1>2. todo[c] # <<>> /\ Head(todo[c]) = todo[c][1] /\ todo[c][1].op = op
  BY <1>1, Rest DEF At, Contexts, Main, Irq
<1>3. CASE c = "main"
  <2>1. Irq = <<>> /\ todo[o] = <<>> /\ todo[c] = Main
    BY <1>3 DEF At, Idle, Contexts, Irq, Main
  <2>2. ~IdRead(Irq)
    BY <2>1, Nothing
  <2> QED BY <1>1, <1>2, <1>3, <2>1, <2>2 DEF ResetSeen, CoherentInv, OneAtATime
<1>4. CASE c = "irq"
  <2>1. todo[o] = Main /\ todo[c] = Irq
    BY <1>4 DEF Contexts, Irq, Main
  <2>2. ~Handling(Irq) /\ ~IdRead(Irq)
    <3>1. ~Handling(Irq)
      <4> HIDE DEF Config, ResetWrites
      <4> QED BY <1>1, <1>2, <1>4, <2>1, HeadSays DEF WriteOps
    <3> QED BY <1>1, <1>2, <2>1, <3>1, InitialisingList, ConfigWriteList DEF IrqShape
  <2> QED BY <1>1, <1>2, <1>4, <2>1, <2>2 DEF ResetSeen, CoherentInv, OneAtATime
<1> QED BY <1>3, <1>4 DEF Contexts

(* What such a step has to show, when u is what it leaves to be done.      *)
LEMMA AloneNext ==
  ASSUME TypeInv', NEW c \in Contexts, NEW o \in Contexts, c # o, todo'[o] = <<>>,
         NEW u, todo'[c] = u, Chain(u),
         c = "main" => MainShape(u), c = "irq" => IrqShape(u),
         ~First(u, "receive"), ~IdRead(u),
         ResetPending' => c = "main" /\ (u = <<>> \/ Resetting(u)),
         ResetPending' \/ First(u, "init_copies") => \A r \in Config : regs'[r] = ResetValue(r),
         \A r \in Config : copies'[r] = regs'[r] \/ Has(u, "init_copies") \/ Sending(u, r),
         Writes(u, copies', regs')
  PROVE  CoherentInv'
<1> HIDE DEF Steps
<1>1. CASE c = "main"
  <2>1. Main' = u /\ Irq' = <<>>
    BY <1>1 DEF Main, Irq, Contexts
  <2>2. ~ResetSeen'
    BY <2>1, Nothing DEF ResetSeen
  <2>3. Shapes'
    BY <1>1, <2>1, Nothing DEF Shapes
  <2>4. OneAtATime'
    BY <2>1, <2>2, Nothing DEF OneAtATime
  <2>5. Fresh'
    BY <2>1, <2>2, Nothing DEF Fresh
  <2>6. Synced'
    BY <2>1 DEF Synced
  <2>7. WritesKept'
    BY <2>1, Nothing DEF WritesKept
  <2> QED BY <2>3, <2>4, <2>5, <2>6, <2>7 DEF CoherentInv
<1>2. CASE c = "irq"
  <2>1. Irq' = u /\ Main' = <<>>
    BY <1>2 DEF Main, Irq, Contexts
  <2>2. ~ResetSeen' /\ ~ResetPending'
    BY <1>2, <2>1 DEF ResetSeen
  <2>3. Shapes'
    BY <1>2, <2>1, Nothing DEF Shapes
  <2>4. OneAtATime'
    BY <2>1, <2>2, Nothing DEF OneAtATime
  <2>5. Fresh'
    BY <2>1, <2>2, Nothing DEF Fresh
  <2>6. Synced'
    BY <2>1 DEF Synced
  <2>7. WritesKept'
    BY <2>1, Nothing DEF WritesKept
  <2> QED BY <2>3, <2>4, <2>5, <2>6, <2>7 DEF CoherentInv
<1> QED BY <1>1, <1>2 DEF Contexts

(* What holds of its list before.                                          *)
LEMMA AloneHolds ==
  ASSUME CoherentInv, NEW c \in Contexts, NEW o \in Contexts, c # o,
         NEW op \in {"masked", "copy", "send", "init_copies", "clear", "rst_callback"},
         At(c, op), c = "irq" /\ op \in WriteOps => ~Handling(todo[c])
  PROVE  /\ \A r \in Config : \/ copies[r] = regs[r] \/ Has(todo[c], "init_copies")
                              \/ Sending(todo[c], r)
         /\ ResetPending \/ First(todo[c], "init_copies") =>
              \A r \in Config : regs[r] = ResetValue(r)
         /\ Writes(todo[c], copies, regs)
<1> HIDE DEF Steps
<1>1. /\ todo[o] = <<>> /\ todo[c] # <<>> /\ ~ResetSeen
      /\ c = "irq" => ~ResetPending
  BY Alone
<1>2. \A q : ~First(<<>>, q) /\ ~Has(<<>>, q)
  BY Nothing
<1>3. \A r : ~Sending(<<>>, r)
  BY Nothing
<1>4. CASE c = "main"
  <2>1. Main = todo[c] /\ Irq = <<>>
    BY <1>1, <1>4 DEF Main, Irq, Contexts
  <2> QED BY <1>1, <1>2, <1>3, <2>1 DEF CoherentInv, Synced, Fresh, WritesKept
<1>5. CASE c = "irq"
  <2>1. Irq = todo[c] /\ Main = <<>>
    BY <1>1, <1>5 DEF Main, Irq, Contexts
  <2> QED BY <1>1, <1>2, <1>3, <1>5, <2>1 DEF CoherentInv, Synced, Fresh, WritesKept
<1> QED BY <1>4, <1>5 DEF Contexts

(* write_register_raw as a list of steps.                                  *)
LEMMA RawList ==
  ASSUME NEW r \in Config \cup {ID}, NEW mask \in Bits, NEW new \in Bits
  PROVE  LET t == write_register_raw(r, mask, new) IN
         /\ t \in Seq(Steps) /\ Linked(t) /\ t # <<>>
         /\ t[1] = [op |-> "copy", reg |-> r, mask |-> mask, data |-> new]
         /\ Last(t) = [op |-> "send", reg |-> r, mask |-> mask, data |-> new]
         /\ \A op : Has(t, op) => op \in {"copy", "send"}
         /\ r \in Config => t \in Seq(ConfigWrites)
         /\ r \in Written => t \in Seq(MainWrites)
         /\ r \in CallbackWritten => t \in Seq(IrqWrites)
         /\ r = ID /\ SOFTWARE_RESET_BIT \in mask /\ SOFTWARE_RESET_BIT \in new =>
              t \in Seq(ResetSteps)
<1> DEFINE a == [op |-> "copy", reg |-> r, mask |-> mask, data |-> new]
           b == [op |-> "send", reg |-> r, mask |-> mask, data |-> new]
           t == write_register_raw(r, mask, new)
<1>1. a \in WriteSteps /\ b \in WriteSteps /\ WriteSteps \subseteq Steps
  BY DEF WriteSteps, Steps
<1>2. /\ r \in Config => a \in ConfigWrites /\ b \in ConfigWrites
      /\ r \in Written => a \in MainWrites /\ b \in MainWrites
      /\ r \in CallbackWritten => a \in IrqWrites /\ b \in IrqWrites
  BY <1>1 DEF ConfigWrites, MainWrites, IrqWrites, WritesOf
<1>3. r = ID /\ SOFTWARE_RESET_BIT \in mask /\ SOFTWARE_RESET_BIT \in new =>
        a \in ResetSteps /\ b \in ResetSteps
  BY <1>1 DEF ResetWrites, ResetSteps
<1>4. Follows(a, b) /\ a.op = "copy" /\ b.op = "send"
  BY DEF Follows, WritesControl
<1>5. t = <<a, b>>
  BY DEF write_register_raw
<1>6. /\ t \in Seq(Steps) /\ t # <<>> /\ Len(t) = 2 /\ t[1] = a /\ t[2] = b
      /\ r \in Config => t \in Seq(ConfigWrites)
      /\ r \in Written => t \in Seq(MainWrites)
      /\ r \in CallbackWritten => t \in Seq(IrqWrites)
      /\ r = ID /\ SOFTWARE_RESET_BIT \in mask /\ SOFTWARE_RESET_BIT \in new =>
           t \in Seq(ResetSteps)
  <2> HIDE DEF a, b, t, ConfigWrites, MainWrites, IrqWrites, ResetSteps, Steps, Config, ID, WriteSteps
  <2> QED BY <1>1, <1>2, <1>3, <1>5
<1> HIDE DEF a, b, t, ConfigWrites, MainWrites, IrqWrites, ResetSteps, Steps, WriteSteps
<1>7. \A i \in 1..Len(t) : i = 1 \/ i = 2
  BY <1>6
<1>8. Linked(t)
  <2>1. \A i \in 1..(Len(t) - 1) : i = 1
    BY <1>6
  <2> QED BY <1>4, <1>6, <1>7, <2>1 DEF Linked
<1>9. \A op : Has(t, op) => op \in {"copy", "send"}
  BY <1>4, <1>6, <1>7 DEF Has
<1>10. Last(t) = b
  BY <1>6 DEF Last
<1> QED BY <1>6, <1>8, <1>9, <1>10 DEF a, b, t

(* The value of a masked write differs from the copy, and so from the      *)
(* register, within the mask only.                                         *)
LEMMA ComputeMaskedAlone ==
  ASSUME CoherentInv, NEW c \in Contexts, ComputeMasked(c), TypeInv',
         c = "irq" => ~Handling(todo[c])
  PROVE  CoherentInv'
<1> DEFINE t == todo[c]
           s == t[1]
           new == Masked(copies[s.reg], s.mask, s.data)
           w == write_register_raw(s.reg, s.mask, new)
           u == w \o Tail(t)
<1>1. PICK o \in Contexts : o # c
  BY DEF Contexts
<1>2. At(c, "masked")
  BY DEF ComputeMasked
<1>3. /\ todo[o] = <<>> /\ t \in Seq(Steps) /\ t # <<>> /\ Chain(t) /\ Head(t) = s
      /\ s.op = "masked" /\ (c = "main" => MainShape(t)) /\ (c = "irq" => IrqShape(t))
      /\ (ResetPending => Resetting(t)) /\ (c = "irq" => ~ResetPending)
  BY <1>1, <1>2, Alone
<1>4. /\ \A r \in Config : copies[r] = regs[r] \/ Has(t, "init_copies") \/ Sending(t, r)
      /\ ResetPending => \A r \in Config : regs[r] = ResetValue(r)
  BY <1>1, <1>2, AloneHolds
<1>5. /\ s \in Steps /\ Tail(t) \in Seq(Steps) /\ Chain(Tail(t))
      /\ (Tail(t) = <<>> => MayEnd(s)) /\ (Tail(t) # <<>> => Follows(s, Tail(t)[1]))
      /\ Has(t, "init_copies") => Has(Tail(t), "init_copies")
  BY <1>3, Rest
<1>6. s \in WriteSteps /\ s.reg \in Config \cup {ID} /\ s.mask \in Bits /\ s.data \in Bits
      /\ copies[s.reg] \in Bits
  BY <1>3, <1>5, Kinds DEF WriteSteps, CoherentInv, TypeInv, TypeOK
<1>7. new \in Bits /\ \A pin \in Pins \ s.mask : pin \in new <=> pin \in copies[s.reg]
  BY <1>6, BitSets DEF Masked
<1> HIDE DEF new
<1>8. /\ w \in Seq(Steps) /\ Linked(w) /\ w # <<>>
      /\ w[1] = [op |-> "copy", reg |-> s.reg, mask |-> s.mask, data |-> new]
      /\ Last(w) = [op |-> "send", reg |-> s.reg, mask |-> s.mask, data |-> new]
      /\ s.reg \in Config => w \in Seq(ConfigWrites)
      /\ s.reg \in Written => w \in Seq(MainWrites)
      /\ s.reg = ID /\ SOFTWARE_RESET_BIT \in s.mask /\ SOFTWARE_RESET_BIT \in new =>
           w \in Seq(ResetSteps)
  BY <1>6, <1>7, RawList
<1>9. /\ Tail(t) # <<>> => Follows(Last(w), Tail(t)[1])
      /\ Tail(t) = <<>> => MayEnd(Last(w))
  BY <1>3, <1>5, <1>8 DEF Follows, MayEnd, WritesControl
<1>10. GoOn(c, w)
  BY <1>3 DEF ComputeMasked, new
<1> HIDE DEF w, s, t, Steps, WriteSteps, Config, Registers
<1>11. /\ u \in Seq(Steps) /\ Linked(u) /\ u # <<>> /\ u[1] = w[1]
       /\ Tail(t) # <<>> => Last(u) = Last(Tail(t))
       /\ Tail(t) = <<>> => u = w
       /\ \A op : Has(u, op) <=> Has(w, op) \/ Has(Tail(t), op)
  BY <1>5, <1>8, <1>9, Joined DEF Chain
<1>12. Chain(u)
  BY <1>5, <1>9, <1>11 DEF Chain
<1>13. todo'[c] = u /\ todo'[o] = <<>>
  BY <1>1, <1>3, <1>8, <1>10, GoOnSteps DEF CoherentInv, t
<1>14. /\ c = "main" => (t \in Seq(MainWrites) /\ s.reg \in Written) \/ Resetting(t)
       /\ c = "irq" => t \in Seq(ConfigWrites) /\ s.reg \in Config
  <2> HIDE DEF ConfigWrites, MainWrites, ResetWrites
  <2> QED BY <1>3, HeadSays DEF s, t
<1>15. t \in Seq(ConfigWrites) => u \in Seq(ConfigWrites)
  <2> SUFFICES ASSUME t \in Seq(ConfigWrites) PROVE u \in Seq(ConfigWrites)
    OBVIOUS
  <2>1. s.reg \in Config /\ Tail(t) \in Seq(ConfigWrites)
    BY <1>3, ConfigWriteList DEF s
  <2> HIDE DEF ConfigWrites
  <2> QED BY <1>8, <2>1, ConcatProperties
<1>23. t \in Seq(MainWrites) /\ s.reg \in Written => u \in Seq(MainWrites)
  <2> HIDE DEF MainWrites
  <2>1. t \in Seq(MainWrites) => Tail(t) \in Seq(MainWrites)
    BY <1>3, MainWriteList
  <2> QED BY <1>8, <2>1, ConcatProperties
<1>16. Resetting(t) => Resetting(u) /\ c = "main"
  <2> SUFFICES ASSUME Resetting(t) PROVE Resetting(u) /\ c = "main"
    OBVIOUS
  <2>1. Resetting(Tail(t)) /\ Tail(t) # <<>> /\ s \in ResetWrites /\ s.reg = ID
    BY <1>3, ResettingList DEF s
  <2>2. SOFTWARE_RESET_BIT \in new /\ SOFTWARE_RESET_BIT \in s.mask
    BY <2>1 DEF ResetWrites, new, Masked
  <2>3. w \in Seq(ResetSteps) /\ Tail(t) \in Seq(ResetSteps)
    BY <1>8, <2>1, <2>2 DEF Resetting
  <2>4. u \in Seq(ResetSteps)
    <3> HIDE DEF ResetSteps
    <3> QED BY <2>3, ConcatProperties
  <2>5. c = "main"
    <3>1. ID \notin Config
      BY DEF ID, Config
    <3> QED BY <1>14, <2>1, <3>1 DEF Contexts
  <2> QED BY <1>11, <2>1, <2>4, <2>5 DEF Resetting, EndsIn
<1>17. u[1].op = "copy" /\ ~First(u, "receive") /\ ~First(u, "init_copies") /\ ~IdRead(u)
  BY <1>8, <1>11 DEF First, IdRead
<1>18. UNCHANGED <<copies, regs>>
  BY DEF ComputeMasked
<1>19. Writes(u, copies', regs')
  BY <1>7, <1>8, <1>11, <1>17, <1>18 DEF Writes, First, Outside
<1>20. \A r \in Config : copies'[r] = regs'[r] \/ Has(u, "init_copies") \/ Sending(u, r)
  <2>1. \A r : ~Sending(t, r)
    BY <1>3 DEF Sending, First, s
  <2> QED BY <1>4, <1>5, <1>11, <1>18, <2>1
<1>21. (c = "main" => MainShape(u)) /\ (c = "irq" => IrqShape(u))
  BY <1>14, <1>15, <1>16, <1>23 DEF MainShape, IrqShape
<1>22. ResetPending' => ResetPending
  BY <1>18 DEF ResetPending
<1> HIDE DEF u
<1> QED BY <1>1, <1>3, <1>4, <1>12, <1>13, <1>16, <1>17, <1>18, <1>19, <1>20, <1>21, <1>22, AloneNext

(* When such a step leaves the rest of the call to be done.                *)
LEMMA AloneRest ==
  ASSUME CoherentInv, NEW c \in Contexts, NEW o \in Contexts, c # o,
         NEW op \in {"masked", "copy", "send", "init_copies", "clear", "rst_callback"},
         At(c, op), GoOn(c, <<>>), c = "irq" /\ op \in WriteOps => ~Handling(todo[c])
  PROVE  LET t == todo[c]
             u == Tail(t)
         IN
         /\ todo'[c] = u /\ todo'[o] = <<>> /\ Chain(u)
         /\ (c = "main" => MainShape(u)) /\ (c = "irq" => IrqShape(u))
         /\ ~First(u, "receive") /\ ~IdRead(u) /\ ~First(u, "copy")
         /\ ResetPending => c = "main" /\ (u = <<>> \/ Resetting(u))
         /\ First(u, "init_copies") => WritesControl(t[1])
         /\ WritesControl(t[1]) => First(u, "init_copies") /\ Has(u, "init_copies")
         /\ Has(t, "init_copies") /\ op # "init_copies" => Has(u, "init_copies")
         /\ First(u, "send") => op = "copy"
         /\ op = "copy" => First(u, "send") /\ u[1] = [t[1] EXCEPT !.op = "send"]
<1> DEFINE t == todo[c]
           u == Tail(t)
<1>1. /\ todo[o] = <<>> /\ t \in Seq(Steps) /\ t # <<>> /\ Chain(t) /\ t[1].op = op
      /\ (c = "main" => MainShape(t)) /\ (c = "irq" => IrqShape(t))
      /\ (ResetPending => Resetting(t)) /\ (c = "irq" => ~ResetPending)
  BY Alone
<1>2. /\ u \in Seq(Steps) /\ Chain(u)
      /\ (u = <<>> => MayEnd(t[1])) /\ (u # <<>> => Follows(t[1], u[1]))
      /\ (Has(t, "init_copies") /\ op # "init_copies" => Has(u, "init_copies"))
      /\ Len(u) = Len(t) - 1
  BY <1>1, Rest
<1>3. todo'[c] = u /\ todo'[o] = <<>>
  <2>1. <<>> \in Seq(Steps)
    BY Nothing
  <2> QED BY <1>1, <2>1, GoOnSteps DEF CoherentInv
<1>4. (c = "main" => MainShape(u)) /\ (c = "irq" => IrqShape(u))
  BY <1>1, ShapeRest
<1>5. Resetting(t) => u = <<>> \/ Resetting(u)
  BY <1>1, ResettingList
<1> HIDE DEF t, u, Steps
<1>6. ~First(u, "receive") /\ ~First(u, "copy") /\ ~First(u, "keep") /\ ~First(u, "reset_intr")
  BY <1>1, <1>2 DEF First, Follows
<1>7. First(u, "init_copies") <=> WritesControl(t[1])
  BY <1>1, <1>2 DEF First, Follows, MayEnd
<1>8. First(u, "init_copies") => Has(u, "init_copies")
  <2>1. u # <<>> => 1 \in 1..Len(u)
    BY <1>2, EmptySeq, LenProperties
  <2> QED BY <2>1 DEF First, Has
<1>9. /\ First(u, "send") => op = "copy"
      /\ op = "copy" => u # <<>> /\ u[1] = [t[1] EXCEPT !.op = "send"]
  BY <1>1, <1>2 DEF First, Follows, MayEnd
<1>10. op = "copy" => First(u, "send")
  <2>1. op = "copy" => t[1] \in WriteSteps
    BY <1>1, Rest, Kinds
  <2> QED BY <1>9, <2>1 DEF First, WriteSteps
<1>11. ~IdRead(u)
  BY <1>6 DEF IdRead
<1> QED BY <1>1, <1>2, <1>3, <1>4, <1>5, <1>6, <1>7, <1>8, <1>9, <1>10, <1>11 DEF t, u, Contexts

(* The copy is ahead of the register until it is sent.                     *)
LEMMA StoreCopyAlone ==
  ASSUME CoherentInv, NEW c \in Contexts, StoreCopy(c), TypeInv',
         c = "irq" => ~Handling(todo[c])
  PROVE  CoherentInv'
<1> DEFINE t == todo[c]
           s == t[1]
           u == Tail(t)
<1>1. PICK o \in Contexts : o # c
  BY DEF Contexts
<1>2. At(c, "copy") /\ GoOn(c, <<>>) /\ UNCHANGED <<regs, pointer, data, enabled>>
  BY DEF StoreCopy
<1>3. /\ t \in Seq(Steps) /\ t # <<>> /\ Chain(t) /\ Head(t) = s /\ s.op = "copy"
      /\ (c = "main" => MainShape(t)) /\ (c = "irq" => IrqShape(t))
  BY <1>1, <1>2, Alone
<1>4. /\ \A r \in Config : copies[r] = regs[r] \/ Has(t, "init_copies") \/ Sending(t, r)
      /\ ResetPending => \A r \in Config : regs[r] = ResetValue(r)
      /\ Writes(t, copies, regs)
  BY <1>1, <1>2, AloneHolds
<1>5. /\ todo'[c] = u /\ todo'[o] = <<>> /\ Chain(u)
      /\ (c = "main" => MainShape(u)) /\ (c = "irq" => IrqShape(u))
      /\ ~First(u, "receive") /\ ~IdRead(u) /\ ~First(u, "copy")
      /\ ResetPending => c = "main" /\ (u = <<>> \/ Resetting(u))
      /\ First(u, "init_copies") => WritesControl(s)
      /\ Has(t, "init_copies") => Has(u, "init_copies")
      /\ First(u, "send") /\ u[1] = [s EXCEPT !.op = "send"]
  BY <1>1, <1>2, AloneRest
<1>6. s \in WriteSteps
  BY <1>3, Rest, Kinds
<1>7. /\ copies' = [copies EXCEPT ![s.reg] = s.data]
      /\ DOMAIN copies = Config \cup {ID}
  BY <1>3 DEF StoreCopy, CoherentInv, TypeInv, TypeOK
<1> HIDE DEF t, s, u, Steps, Config, Registers
<1>8. /\ u[1].op = "send" /\ u[1].reg = s.reg /\ u[1].mask = s.mask /\ u[1].data = s.data
      /\ s.reg \in Config \cup {ID}
  BY <1>5, <1>6 DEF WriteSteps
<1>9. /\ s.reg \in Config => copies'[s.reg] = s.data /\ Sending(u, s.reg)
      /\ \A r \in Config : r # s.reg => copies'[r] = copies[r]
  BY <1>5, <1>7, <1>8 DEF Sending
<1>10. s.reg \in Config => ~Has(t, "init_copies") /\ ~Resetting(t)
  <2>1. s.reg \in Config => s.reg # ID
    BY DEF Config, ID
  <2>2. s.reg \in Config => t \in Seq(ConfigWrites)
    <3> HIDE DEF ConfigWrites, MainWrites, ResetWrites
    <3> QED BY <1>3, <2>1, HeadSays DEF s, t, Contexts
  <2> QED BY <1>3, <2>2, ConfigWriteList
<1>11. s.reg \in Config => copies[s.reg] = regs[s.reg] /\ Outside(s, copies)
  BY <1>3, <1>4, <1>10 DEF Sending, First, Writes, s
<1>12. Writes(u, copies', regs')
  <2>1. First(u, "send") /\ u[1].reg \in Config =>
          copies'[u[1].reg] = u[1].data /\ Outside(u[1], regs')
    BY <1>2, <1>8, <1>9, <1>11 DEF Outside
  <2> QED BY <1>5, <2>1 DEF Writes
<1>13. \A r \in Config : copies'[r] = regs'[r] \/ Has(u, "init_copies") \/ Sending(u, r)
  <2>1. \A r : ~Sending(t, r)
    BY <1>3 DEF Sending, First, s
  <2>2. ASSUME NEW r \in Config PROVE copies'[r] = regs'[r] \/ Has(u, "init_copies") \/ Sending(u, r)
    <3>1. copies[r] = regs[r] \/ Has(t, "init_copies")
      BY <1>4, <2>1
    <3> QED BY <1>2, <1>5, <1>9, <3>1
  <2> QED BY <2>2
<1>14. (ResetPending' <=> ResetPending) /\ ~First(u, "init_copies")
  BY <1>2, <1>8 DEF ResetPending, First
<1>15. ResetPending' => \A r \in Config : regs'[r] = ResetValue(r)
  BY <1>2, <1>4, <1>14
<1> QED BY <1>1, <1>5, <1>12, <1>13, <1>14, <1>15, AloneNext

(* Then they are the same; or the expander is reset, and the copies are to *)
(* be set up next.                                                         *)
LEMMA SendAlone ==
  ASSUME CoherentInv, NEW c \in Contexts, Send(c), TypeInv',
         c = "irq" => ~Handling(todo[c])
  PROVE  CoherentInv'
<1> DEFINE t == todo[c]
           s == t[1]
           u == Tail(t)
<1>1. PICK o \in Contexts : o # c
  BY DEF Contexts
<1>2. At(c, "send") /\ GoOn(c, <<>>) /\ UNCHANGED <<copies, data, enabled>> /\ pointer' = "none"
  BY DEF Send
<1>3. /\ t \in Seq(Steps) /\ t # <<>> /\ Chain(t) /\ Head(t) = s /\ s.op = "send"
      /\ (c = "main" => MainShape(t)) /\ (c = "irq" => IrqShape(t))
      /\ (ResetPending => Resetting(t))
  BY <1>1, <1>2, Alone
<1>4. /\ \A r \in Config : copies[r] = regs[r] \/ Has(t, "init_copies") \/ Sending(t, r)
      /\ Writes(t, copies, regs)
  BY <1>1, <1>2, AloneHolds
<1>5. /\ todo'[c] = u /\ todo'[o] = <<>> /\ Chain(u)
      /\ (c = "main" => MainShape(u)) /\ (c = "irq" => IrqShape(u))
      /\ ~First(u, "receive") /\ ~IdRead(u) /\ ~First(u, "copy") /\ ~First(u, "send")
      /\ First(u, "init_copies") => WritesControl(s)
      /\ WritesControl(s) => First(u, "init_copies") /\ Has(u, "init_copies")
  BY <1>1, <1>2, AloneRest
<1>6. Writes(u, copies', regs')
  BY <1>5 DEF Writes
<1>7. ID \notin Config /\ ID \in Registers /\ Config \subseteq Registers /\ "INPUT_STATUS" \notin Config
      /\ DOMAIN regs = Registers
  BY DEF ID, Config, Registers, CoherentInv, TypeInv, TypeOK
<1>8. regs' = IF s.reg = ID
              THEN IF SOFTWARE_RESET_BIT \in s.data THEN AfterReset(regs) ELSE regs
              ELSE [regs EXCEPT ![s.reg] = s.data]
  BY <1>3 DEF Send
<1> HIDE DEF t, s, u, Steps, Config, Registers
<1>9. CASE t \in Seq(ConfigWrites) /\ s.reg \in Config
  <2>1. ~Has(t, "init_copies") /\ ~Resetting(t) /\ s.reg # ID
    BY <1>3, <1>7, <1>9, ConfigWriteList
  <2>2. ~ResetPending /\ ~WritesControl(s) /\ ~First(u, "init_copies")
    BY <1>3, <1>5, <2>1 DEF WritesControl
  <2>3. regs'[s.reg] = s.data /\ \A r \in Registers : r # s.reg => regs'[r] = regs[r]
    BY <1>7, <1>8, <1>9, <2>1
  <2>4. copies[s.reg] = s.data
    BY <1>3, <1>4, <1>9 DEF Writes, First, s
  <2>5. \A r \in Config : copies'[r] = regs'[r]
    <3>1. ASSUME NEW r \in Config, r # s.reg PROVE copies[r] = regs[r]
      BY <1>4, <2>1, <3>1 DEF Sending, s
    <3> QED BY <1>2, <1>7, <2>3, <2>4, <3>1
  <2>6. ~ResetPending'
    BY <1>7, <2>1, <2>2, <2>3 DEF ResetPending
  <2> QED BY <1>1, <1>5, <1>6, <2>2, <2>5, <2>6, AloneNext
<1>10. CASE Resetting(t) /\ s \in ResetWrites /\ s.reg = ID /\ c = "main"
  <2>1. SOFTWARE_RESET_BIT \in s.data
    BY <1>10 DEF ResetWrites
  <2>2. regs' = AfterReset(regs)
    BY <1>8, <1>10, <2>1
  <2>3. \A r \in Config : regs'[r] = ResetValue(r)
    BY <1>7, <2>2 DEF AfterReset
  <2>4. WritesControl(s) /\ Has(u, "init_copies")
    BY <1>3, <1>5, <1>10 DEF WritesControl
  <2>5. Resetting(u)
    BY <1>3, <1>10, ResettingList DEF s, u
  <2> QED BY <1>1, <1>5, <1>6, <1>10, <2>3, <2>4, <2>5, AloneNext
<1>11. (t \in Seq(ConfigWrites) /\ s.reg \in Config)
       \/ (Resetting(t) /\ s \in ResetWrites /\ s.reg = ID /\ c = "main")
  <2> HIDE DEF ConfigWrites, MainWrites, ResetWrites
  <2> QED BY <1>3, <1>7, HeadSays DEF s, t, Contexts
<1> QED BY <1>9, <1>10, <1>11

(* The copies are set up to what the reset made the registers.             *)
LEMMA InitCopiesCoherent ==
  ASSUME CoherentInv, NEW c \in Contexts, InitCopies(c), TypeInv'
  PROVE  CoherentInv'
<1> DEFINE t == todo[c]
           u == Tail(t)
<1>1. PICK o \in Contexts : o # c
  BY DEF Contexts
<1>2. At(c, "init_copies") /\ GoOn(c, <<>>) /\ UNCHANGED <<regs, pointer, data, enabled>>
  BY DEF InitCopies
<1>0. "init_copies" \notin WriteOps
  BY DEF WriteOps
<1>3. t # <<>> /\ t[1].op = "init_copies"
  BY <1>0, <1>1, <1>2, Alone
<1>4. \A r \in Config : regs[r] = ResetValue(r)
  BY <1>0, <1>1, <1>2, <1>3, AloneHolds DEF First
<1>5. /\ todo'[c] = u /\ todo'[o] = <<>> /\ Chain(u)
      /\ (c = "main" => MainShape(u)) /\ (c = "irq" => IrqShape(u))
      /\ ~First(u, "receive") /\ ~IdRead(u) /\ ~First(u, "copy")
      /\ ResetPending => c = "main" /\ (u = <<>> \/ Resetting(u))
      /\ First(u, "init_copies") => WritesControl(t[1])
      /\ ~First(u, "send")
  BY <1>0, <1>1, <1>2, AloneRest
<1>6. ~First(u, "init_copies")
  BY <1>3, <1>5 DEF WritesControl
<1> HIDE DEF t, u, Steps, Config, Registers
<1>7. \A r \in Config : copies'[r] = regs'[r]
  <2>1. \A r \in Config : copies'[r] = ResetValue(r)
    BY ResetTypes DEF InitCopies, CoherentInv, TypeInv, TypeOK
  <2> QED BY <1>2, <1>4, <2>1
<1>8. Writes(u, copies', regs')
  BY <1>5 DEF Writes
<1>9. (ResetPending' => ResetPending) /\ \A r \in Config : regs'[r] = ResetValue(r)
  BY <1>2, <1>4 DEF ResetPending
<1> QED BY <1>1, <1>5, <1>6, <1>7, <1>8, <1>9, AloneNext

(* Clearing the reset bit touches the copy of DEVICE_ID_AND_CONTROL only.  *)
LEMMA ClearCoherent ==
  ASSUME CoherentInv, NEW c \in Contexts, ClearResetInterrupt(c), TypeInv'
  PROVE  CoherentInv'
<1> DEFINE t == todo[c]
           u == Tail(t)
<1>1. PICK o \in Contexts : o # c
  BY DEF Contexts
<1>2. At(c, "clear") /\ GoOn(c, <<>>) /\ UNCHANGED <<regs, pointer, data, enabled>>
  BY DEF ClearResetInterrupt
<1>0. "clear" \notin WriteOps
  BY DEF WriteOps
<1>3. t # <<>> /\ t[1].op = "clear"
  BY <1>0, <1>1, <1>2, Alone
<1>4. /\ \A r \in Config : copies[r] = regs[r] \/ Has(t, "init_copies") \/ Sending(t, r)
      /\ ResetPending => \A r \in Config : regs[r] = ResetValue(r)
  BY <1>0, <1>1, <1>2, AloneHolds
<1>5. /\ todo'[c] = u /\ todo'[o] = <<>> /\ Chain(u)
      /\ (c = "main" => MainShape(u)) /\ (c = "irq" => IrqShape(u))
      /\ ~First(u, "receive") /\ ~IdRead(u) /\ ~First(u, "copy")
      /\ ResetPending => c = "main" /\ (u = <<>> \/ Resetting(u))
      /\ First(u, "init_copies") => WritesControl(t[1])
      /\ Has(t, "init_copies") => Has(u, "init_copies")
      /\ ~First(u, "send")
  BY <1>0, <1>1, <1>2, AloneRest
<1>6. ~First(u, "init_copies") /\ \A r : ~Sending(t, r)
  BY <1>3, <1>5 DEF WritesControl, Sending, First
<1> HIDE DEF t, u, Steps, Registers
<1>7. \A r \in Config : copies'[r] = copies[r]
  <2>1. ID \notin Config
    BY DEF ID, Config
  <2> HIDE DEF Config
  <2> QED BY <2>1 DEF ClearResetInterrupt, CoherentInv, TypeInv, TypeOK
<1> HIDE DEF Config
<1>8. \A r \in Config : copies'[r] = regs'[r] \/ Has(u, "init_copies")
  BY <1>2, <1>4, <1>5, <1>6, <1>7
<1>9. Writes(u, copies', regs')
  BY <1>5 DEF Writes
<1>10. (ResetPending' => ResetPending) /\ regs' = regs
  BY <1>2 DEF ResetPending
<1> QED BY <1>1, <1>4, <1>5, <1>6, <1>8, <1>9, <1>10, AloneNext

(* One masked write of a configuration register.                           *)
LEMMA MaskedList ==
  ASSUME NEW r \in Config, NEW mask \in Bits, NEW new \in Bits
  PROVE  LET t == write_register_masked(r, mask, new) IN
         /\ t \in Seq(ConfigWrites) /\ t \in Seq(Steps) /\ Chain(t) /\ t # <<>>
         /\ t[1].op = "masked" /\ t[1].reg = r /\ Last(t) = t[1]
         /\ r \in Written => t \in Seq(MainWrites)
         /\ r \in CallbackWritten => t \in Seq(IrqWrites)
<1> DEFINE s == [op |-> "masked", reg |-> r, mask |-> mask, data |-> new]
           t == write_register_masked(r, mask, new)
<1>1. s \in ConfigWrites /\ s \in Steps /\ s.op = "masked" /\ s.reg = r
  BY DEF ConfigWrites, WritesOf, WriteSteps, Steps
<1>6. (r \in Written => s \in MainWrites) /\ (r \in CallbackWritten => s \in IrqWrites)
  BY DEF MainWrites, IrqWrites, WritesOf, WriteSteps
<1>2. t = <<s>>
  BY DEF write_register_masked
<1>3. MayEnd(s)
  <2>1. r # ID
    BY DEF Config, ID
  <2> QED BY <1>1, <2>1 DEF MayEnd, WritesControl
<1> HIDE DEF s, t, ConfigWrites, MainWrites, IrqWrites, Steps, Config
<1>4. /\ t \in Seq(ConfigWrites) /\ t \in Seq(Steps)
      /\ r \in Written => t \in Seq(MainWrites)
      /\ r \in CallbackWritten => t \in Seq(IrqWrites)
  BY <1>1, <1>2, <1>6
<1>5. Linked(t) /\ t # <<>> /\ t[1] = s /\ Last(t) = s
  BY <1>1, <1>2, OneStep
<1> QED BY <1>1, <1>3, <1>4, <1>5 DEF Chain, t

(* What a callback writes, as a list of steps.                             *)
LEMMA CallbackList ==
  ASSUME NEW registers, registers \subseteq Config, NEW writes \in CallbackWrites(registers)
  PROVE  /\ writes \in Seq(ConfigWrites) /\ writes \in Seq(Steps) /\ Chain(writes)
         /\ registers \subseteq CallbackWritten => writes \in Seq(IrqWrites)
         /\ writes # <<>> => /\ writes[1].op = "masked" /\ Last(writes) = writes[1]
                             /\ writes[1].reg \in Config
<1> HIDE DEF Config, ConfigWrites, IrqWrites, Steps
<1>1. ASSUME NEW r \in registers, NEW new \in Values,
             writes = write_register_masked(r, PinMask(0), new)
      PROVE  /\ writes \in Seq(ConfigWrites) /\ writes \in Seq(Steps) /\ Chain(writes)
             /\ registers \subseteq CallbackWritten => writes \in Seq(IrqWrites)
             /\ writes[1].op = "masked" /\ writes[1].reg \in Config /\ Last(writes) = writes[1]
  <2>1. r \in Config /\ PinMask(0) \in Bits /\ new \in Bits
    BY BitSets DEF PinMask, Bits
  <2> QED BY <1>1, <2>1, MaskedList
<1>2. <<>> \in Seq(ConfigWrites) /\ <<>> \in Seq(IrqWrites)
  OBVIOUS
<1>3. writes # <<>> =>
        \E r \in registers, new \in Values : writes = write_register_masked(r, PinMask(0), new)
  BY DEF CallbackWrites
<1> QED BY <1>1, <1>2, <1>3, Nothing

(* rst_callback finds the copies set up, and may begin to write.           *)
LEMMA RstCallbackCoherent ==
  ASSUME CoherentInv, NEW c \in Contexts, RstCallback(c), TypeInv'
  PROVE  CoherentInv'
<1> DEFINE t == todo[c]
<1>1. PICK o \in Contexts : o # c
  BY DEF Contexts
<1>2. At(c, "rst_callback") /\ UNCHANGED <<copies, regs, pointer, data, enabled>>
  BY DEF RstCallback
<1>0. "rst_callback" \notin WriteOps
  BY DEF WriteOps
<1>3. PICK u \in CallbackWrites(Written \cup CallbackWritten) : GoOn(c, u)
  BY DEF RstCallback
<1>4. /\ u \in Seq(ConfigWrites) /\ u \in Seq(Steps) /\ Chain(u)
      /\ u # <<>> => u[1].op = "masked"
  BY CallbackList, Pi4ioAssumption
<1>5. /\ todo[o] = <<>> /\ t \in Seq(Steps) /\ t # <<>> /\ Chain(t) /\ t[1].op = "rst_callback"
      /\ (c = "irq" => ~ResetPending) /\ (c = "main" => MainShape(t))
  BY <1>0, <1>1, <1>2, Alone
<1>6. c = "irq"
  BY <1>5, HeadSays DEF Contexts
<1>7. Tail(t) = <<>> /\ Len(t) = 1
  <2>1. Tail(t) = <<>>
    BY <1>5, Rest DEF Follows
  <2> QED BY <1>5, <2>1, Rest
<1>8. \A r \in Config : copies[r] = regs[r]
  <2>1. ~Has(t, "init_copies")
    <3>1. \A i \in 1..Len(t) : i = 1
      BY <1>7
    <3> QED BY <1>5, <3>1 DEF Has
  <2>2. \A r : ~Sending(t, r)
    BY <1>5 DEF Sending, First
  <2> QED BY <1>0, <1>1, <1>2, <2>1, <2>2, AloneHolds
<1>9. todo'[c] = u /\ todo'[o] = <<>>
  <2>1. u \in Seq(Steps)
    BY <1>4
  <2>2. u \o <<>> = u
    BY <2>1, ConcatEmptySeq
  <2> HIDE DEF Steps
  <2> QED BY <1>1, <1>3, <1>5, <1>7, <2>1, <2>2, GoOnSteps DEF CoherentInv
<1>10. /\ ~First(u, "receive") /\ ~First(u, "init_copies") /\ ~First(u, "send") /\ ~First(u, "copy")
       /\ ~IdRead(u)
  BY <1>4 DEF First, IdRead
<1>11. Writes(u, copies', regs')
  BY <1>10 DEF Writes
<1>12. IrqShape(u)
  BY <1>4 DEF IrqShape
<1>13. ~ResetPending'
  BY <1>2, <1>5, <1>6 DEF ResetPending
<1> HIDE DEF t, Steps, Config, ConfigWrites
<1> QED BY <1>1, <1>2, <1>4, <1>6, <1>8, <1>9, <1>10, <1>11, <1>12, <1>13, AloneNext

(* While a callback writes that the handler has called, no reset is        *)
(* pending, and the handler has more to do.                                *)
LEMMA Beside ==
  ASSUME CoherentInv, NEW op \in WriteOps, At("irq", op), Handling(Irq)
  PROVE  /\ Irq \in Seq(Steps) /\ Irq # <<>> /\ Chain(Irq) /\ Head(Irq) = Irq[1]
         /\ Irq[1].op = op /\ Irq[1] \in WriteSteps
         /\ Irq[1].reg \in CallbackWritten /\ Irq[1].reg \in Config
         /\ Tail(Irq) \in Seq(Steps) /\ Chain(Tail(Irq)) /\ Handling(Tail(Irq))
         /\ Tail(Irq) # <<>> /\ Follows(Irq[1], Tail(Irq)[1])
         /\ ~ResetPending
<1> HIDE DEF Steps, WriteSteps, Config
<1>1. Irq \in Seq(Steps) /\ Irq # <<>> /\ Chain(Irq)
  BY DEF CoherentInv, TypeInv, Shapes, Irq, Contexts, At
<1>2. Head(Irq) = Irq[1] /\ Irq[1].op = op
  BY <1>1, Rest DEF At, Irq
<1>3. ~ResetPending
  BY <1>1, <1>2 DEF CoherentInv, OneAtATime, Writing
<1>4. op # "reset_intr"
  BY DEF WriteOps
<1> QED BY <1>1, <1>2, <1>3, <1>4, Rest, HandlingList

(* What a step of such a write has to show: it is to a register that the   *)
(* program, whose call the handler cuts into, does not write.              *)
LEMMA BesideWriteNext ==
  ASSUME Apart, CoherentInv, TypeInv', NEW op \in WriteOps, At("irq", op), Handling(Irq),
         NEW u, Irq' = u, Main' = Main, Handling(u), Chain(u), ~First(u, "receive"), ~IdRead(u),
         ~ResetPending',
         \A x \in Config : x # Irq[1].reg => copies'[x] = copies[x] /\ regs'[x] = regs[x],
         copies'[Irq[1].reg] = regs'[Irq[1].reg] \/ Sending(u, Irq[1].reg),
         Writes(u, copies', regs')
  PROVE  CoherentInv'
<1> HIDE DEF Steps, WriteSteps, Config
<1> DEFINE r == Irq[1].reg
<1>1. Irq # <<>> /\ Irq[1].op = op /\ r \in CallbackWritten /\ Irq \in Seq(Steps) /\ Chain(Irq)
  BY Beside
<1>2. /\ Main \in Seq(Steps) /\ Chain(Main) /\ MainShape(Main) /\ ~Resetting(Main)
  <2>1. Main \in Seq(Steps) /\ Chain(Main) /\ MainShape(Main)
    BY DEF CoherentInv, TypeInv, Shapes, Main, Contexts
  <2> QED BY <1>1, <2>1, Nothing DEF CoherentInv, OneAtATime
<1>3. /\ Main # <<>> /\ Main[1].op \in WriteOps => Main[1].reg \in Written
      /\ ~Has(Main, "init_copies") /\ ~First(Main, "init_copies")
  <2> HIDE DEF ConfigWrites, MainWrites, ResetWrites, Reading
  <2>1. Main # <<>> /\ Main[1].op \in WriteOps => Main[1].reg \in Written
    BY <1>2, HeadSays DEF WriteOps
  <2>2. ~Has(Main, "init_copies")
    BY <1>2, Nothing, MainWriteList, ConfigWriteList, ReadingList DEF MainShape
  <2>3. ~First(Main, "init_copies")
    BY <1>2, HeadSays DEF First
  <2> QED BY <2>1, <2>2, <2>3
<1>4. ~Has(Irq, "init_copies") /\ ~Has(u, "init_copies") /\ ~First(u, "init_copies")
  <2>1. u \in Seq(Steps)
    BY DEF TypeInv, Irq, Contexts
  <2>2. ~First(u, "init_copies")
    BY <2>1, HandlingList DEF First, WriteOps
  <2> QED BY <1>1, <2>1, <2>2, HandlingList
<1>5. ~ResetSeen' /\ ~ResetSeen /\ ~ResetPending
  <2>1. ~IdRead(Irq)
    BY <1>1 DEF IdRead, First, WriteOps
  <2> QED BY <2>1, Beside DEF ResetSeen
<1>6. \A x : Sending(Main, x) \/ First(Main, "copy") => Main[1].reg # r
  BY <1>1, <1>3 DEF Sending, First, WriteOps, Apart
<1> HIDE DEF r
<1>7. Shapes'
  BY <1>2 DEF Shapes, IrqShape
<1>8. OneAtATime'
  BY <1>1, <1>2, <1>5 DEF OneAtATime
<1>9. Fresh'
  BY <1>3, <1>4, <1>5 DEF Fresh
<1>10. Synced'
  <2>1. ASSUME NEW x \in Config
        PROVE  copies'[x] = regs'[x] \/ Sending(Main', x) \/ Sending(Irq', x)
    <3>1. CASE x = r
      BY <3>1 DEF r
    <3>2. CASE x # r
      <4>1. ~Sending(Irq, x)
        BY <3>2 DEF Sending, r
      <4>2. copies[x] = regs[x] \/ Sending(Main, x)
        BY <1>3, <1>4, <1>5, <4>1 DEF CoherentInv, Synced
      <4> QED BY <3>2, <4>2 DEF r
    <3> QED BY <3>1, <3>2
  <2> QED BY <2>1 DEF Synced
<1>11. WritesKept'
  <2>1. First(Main, "send") => Sending(Main, Main[1].reg)
    BY DEF Sending
  <2>2. ASSUME First(Main, "copy") \/ First(Main, "send"), Main[1].reg \in Config
        PROVE  /\ copies'[Main[1].reg] = copies[Main[1].reg]
               /\ regs'[Main[1].reg] = regs[Main[1].reg]
    BY <1>6, <2>1, <2>2 DEF r
  <2>3. Writes(Main, copies, regs)
    BY DEF CoherentInv, WritesKept
  <2>4. Writes(Main', copies', regs')
    BY <2>2, <2>3 DEF Writes, Outside
  <2> QED BY <2>4 DEF WritesKept
<1> QED BY <1>7, <1>8, <1>9, <1>10, <1>11 DEF CoherentInv

(* Until it is sent, the register is what its copy is.                     *)
LEMMA BesideSynced ==
  ASSUME Apart, CoherentInv, NEW op \in WriteOps, At("irq", op), Handling(Irq),
         ~Sending(Irq, Irq[1].reg)
  PROVE  copies[Irq[1].reg] = regs[Irq[1].reg]
<1> HIDE DEF Steps, WriteSteps, Config
<1>1. /\ Irq # <<>> /\ Irq[1].op = op /\ Irq[1].reg \in CallbackWritten /\ Irq[1].reg \in Config
      /\ Irq \in Seq(Steps) /\ Chain(Irq) /\ ~ResetPending
  BY Beside
<1>2. Main \in Seq(Steps) /\ Chain(Main) /\ MainShape(Main) /\ ~Resetting(Main)
  <2>1. Main \in Seq(Steps) /\ Chain(Main) /\ MainShape(Main)
    BY DEF CoherentInv, TypeInv, Shapes, Main, Contexts
  <2> QED BY <1>1, <2>1, Nothing DEF CoherentInv, OneAtATime
<1>3. ~Sending(Main, Irq[1].reg) /\ ~Has(Main, "init_copies")
  <2> HIDE DEF ConfigWrites, MainWrites, ResetWrites, Reading
  <2>1. Main # <<>> /\ Main[1].op = "send" => Main[1].reg \in Written
    BY <1>2, HeadSays
  <2>2. ~Has(Main, "init_copies")
    BY <1>2, Nothing, MainWriteList, ConfigWriteList, ReadingList DEF MainShape
  <2> QED BY <1>1, <2>1, <2>2 DEF Sending, First, Apart
<1>4. ~ResetSeen /\ ~Has(Irq, "init_copies")
  <2>1. ~IdRead(Irq)
    BY <1>1 DEF IdRead, First, WriteOps
  <2> QED BY <1>1, <2>1, HandlingList DEF ResetSeen
<1> QED BY <1>1, <1>3, <1>4 DEF CoherentInv, Synced

(* The value of such a write is computed.                                  *)
LEMMA ComputeMaskedBeside ==
  ASSUME Apart, CoherentInv, ComputeMasked("irq"), TypeInv', Handling(Irq)
  PROVE  CoherentInv'
<1> DEFINE t == Irq
           s == t[1]
           new == Masked(copies[s.reg], s.mask, s.data)
           w == write_register_raw(s.reg, s.mask, new)
           u == w \o Tail(t)
<1>1. At("irq", "masked") /\ UNCHANGED <<copies, regs>> /\ "masked" \in WriteOps
  BY DEF ComputeMasked, WriteOps
<1> HIDE DEF Steps, WriteSteps, Config
<1>2. /\ t \in Seq(Steps) /\ t # <<>> /\ Head(t) = s /\ s.op = "masked" /\ s \in WriteSteps
      /\ s.reg \in CallbackWritten /\ s.reg \in Config
      /\ Tail(t) \in Seq(Steps) /\ Chain(Tail(t)) /\ Handling(Tail(t)) /\ Tail(t) # <<>>
      /\ Follows(s, Tail(t)[1]) /\ ~ResetPending
  BY <1>1, Beside
<1>3. s.mask \in Bits /\ s.data \in Bits /\ copies[s.reg] \in Bits
  BY <1>2 DEF WriteSteps, CoherentInv, TypeInv, TypeOK
<1>4. new \in Bits /\ \A pin \in Pins \ s.mask : pin \in new <=> pin \in copies[s.reg]
  BY <1>3, BitSets DEF Masked
<1> HIDE DEF new
<1>5. /\ w \in Seq(Steps) /\ Linked(w) /\ w # <<>> /\ w \in Seq(IrqWrites)
      /\ w[1] = [op |-> "copy", reg |-> s.reg, mask |-> s.mask, data |-> new]
      /\ Last(w) = [op |-> "send", reg |-> s.reg, mask |-> s.mask, data |-> new]
  BY <1>2, <1>3, <1>4, RawList
<1>6. Follows(Last(w), Tail(t)[1])
  BY <1>2, <1>5 DEF Follows, WritesControl
<1>7. GoOn("irq", w)
  BY <1>2 DEF ComputeMasked, new, Irq
<1> HIDE DEF w, s, t
<1>8. u \in Seq(Steps) /\ Linked(u) /\ u # <<>> /\ u[1] = w[1] /\ Last(u) = Last(Tail(t))
  BY <1>2, <1>5, <1>6, JoinedOn DEF Chain
<1>9. Chain(u)
  BY <1>2, <1>8 DEF Chain
<1>10. Handling(u)
  <2>1. w \in Seq(HandlerSteps) /\ Tail(t) \in Seq(HandlerSteps)
    BY <1>2, <1>5, WriteSets DEF Handling
  <2>2. u \in Seq(HandlerSteps)
    <3> HIDE DEF HandlerSteps
    <3> QED BY <2>1, ConcatProperties
  <2> QED BY <1>2, <1>8, <2>2 DEF Handling, EndsIn
<1>11. Irq' = u /\ Main' = Main
  BY <1>2, <1>5, <1>7, GoOnSteps DEF CoherentInv, t, Irq, Main, Contexts
<1>12. u[1].op = "copy" /\ ~First(u, "receive") /\ ~First(u, "send") /\ ~IdRead(u)
  BY <1>5, <1>8 DEF First, IdRead
<1>13. Writes(u, copies', regs')
  BY <1>1, <1>4, <1>5, <1>8, <1>12 DEF Writes, Outside
<1>14. copies[s.reg] = regs[s.reg]
  <2>1. ~Sending(Irq, s.reg) /\ Irq # <<>> /\ Chain(Irq) /\ Irq \in Seq(Steps)
    BY <1>1, <1>2, Beside DEF Sending, First, s, t
  <2> QED BY <1>1, <1>2, <2>1, BesideSynced DEF s, t
<1>15. ~ResetPending'
  BY <1>1, <1>2 DEF ResetPending
<1> HIDE DEF u
<1> QED BY <1>1, <1>9, <1>10, <1>11, <1>12, <1>13, <1>14, <1>15, BesideWriteNext DEF s, t

(* The copy is stored.                                                     *)
LEMMA StoreCopyBeside ==
  ASSUME Apart, CoherentInv, StoreCopy("irq"), TypeInv', Handling(Irq)
  PROVE  CoherentInv'
<1> DEFINE t == Irq
           s == t[1]
           u == Tail(t)
<1>1. At("irq", "copy") /\ GoOn("irq", <<>>) /\ UNCHANGED regs /\ "copy" \in WriteOps
  BY DEF StoreCopy, WriteOps
<1> HIDE DEF Steps, Config
<1>2. /\ t \in Seq(Steps) /\ t # <<>> /\ Head(t) = s /\ s.op = "copy" /\ s \in WriteSteps
      /\ s.reg \in Config /\ Chain(u) /\ Handling(u) /\ u # <<>> /\ Follows(s, u[1])
      /\ ~ResetPending
  <2> HIDE DEF WriteSteps
  <2> QED BY <1>1, Beside
<1>3. u[1].op = "send" /\ u[1].reg = s.reg /\ u[1].mask = s.mask /\ u[1].data = s.data
  BY <1>2 DEF Follows, WriteSteps
<1> HIDE DEF WriteSteps
<1>4. Irq' = u /\ Main' = Main
  BY <1>1, <1>2, Nothing, GoOnSteps DEF CoherentInv, Irq, Main, Contexts
<1>5. copies'[s.reg] = s.data /\ \A x \in Config : x # s.reg => copies'[x] = copies[x]
  BY <1>2 DEF StoreCopy, CoherentInv, TypeInv, TypeOK, Irq
<1>6. copies[s.reg] = regs[s.reg] /\ Outside(s, copies)
  <2>1. ~Sending(Irq, s.reg)
    BY <1>2 DEF Sending, First
  <2>2. Writes(Irq, copies, regs)
    BY DEF CoherentInv, WritesKept
  <2> QED BY <1>1, <1>2, <2>1, <2>2, BesideSynced DEF Writes, First
<1> HIDE DEF t, s, u
<1>7. First(u, "send") /\ ~First(u, "copy") /\ ~First(u, "receive") /\ ~IdRead(u)
      /\ Sending(u, s.reg)
  BY <1>2, <1>3 DEF First, IdRead, Sending
<1>8. Writes(u, copies', regs')
  BY <1>1, <1>3, <1>5, <1>6, <1>7 DEF Writes, Outside
<1>9. ~ResetPending'
  BY <1>1, <1>2 DEF ResetPending
<1> QED BY <1>1, <1>2, <1>4, <1>5, <1>7, <1>8, <1>9, BesideWriteNext DEF s, t

(* It is sent, and changes no bit outside the mask.                        *)
LEMMA SendBeside ==
  ASSUME Apart, CoherentInv, Send("irq"), TypeInv', Handling(Irq)
  PROVE  CoherentInv'
<1> DEFINE t == Irq
           s == t[1]
           u == Tail(t)
<1>1. At("irq", "send") /\ GoOn("irq", <<>>) /\ UNCHANGED copies /\ "send" \in WriteOps
  BY DEF Send, WriteOps
<1>2. /\ t \in Seq(Steps) /\ t # <<>> /\ Head(t) = s /\ s.op = "send"
      /\ s.reg \in Config /\ Chain(u) /\ Handling(u) /\ u # <<>> /\ Follows(s, u[1])
      /\ ~ResetPending
  <2> HIDE DEF WriteSteps, Steps, Config
  <2> QED BY <1>1, Beside
<1>3. Config \subseteq Registers /\ ID \in Registers /\ ID \notin Config /\ DOMAIN regs = Registers
  BY DEF Config, Registers, ID, CoherentInv, TypeInv, TypeOK
<1> HIDE DEF Steps, Config, Registers, ID
<1>4. Irq' = u /\ Main' = Main
  BY <1>1, <1>2, Nothing, GoOnSteps DEF CoherentInv, Irq, Main, Contexts
<1>5. regs' = [regs EXCEPT ![s.reg] = s.data]
  BY <1>2, <1>3 DEF Send, Irq
<1>6. copies[s.reg] = s.data
  BY <1>2 DEF CoherentInv, WritesKept, Writes, First
<1> HIDE DEF t, s, u
<1>7. ~First(u, "send") /\ ~First(u, "copy") /\ ~First(u, "receive") /\ ~IdRead(u)
  BY <1>2 DEF First, IdRead, Follows
<1>8. /\ regs'[s.reg] = s.data /\ regs'[ID] = regs[ID]
      /\ \A x \in Config : x # s.reg => regs'[x] = regs[x]
  BY <1>2, <1>3, <1>5
<1>9. Writes(u, copies', regs')
  BY <1>7 DEF Writes
<1>10. ~ResetPending'
  BY <1>2, <1>8 DEF ResetPending
<1> QED BY <1>1, <1>2, <1>4, <1>6, <1>7, <1>8, <1>9, <1>10, BesideWriteNext DEF s, t

(* So every step of a write keeps the invariant.                           *)
LEMMA WriteCoherent ==
  ASSUME Apart, CoherentInv, NEW c \in Contexts, ComputeMasked(c) \/ StoreCopy(c) \/ Send(c),
         TypeInv'
  PROVE  CoherentInv'
<1>1. CASE c = "irq" /\ Handling(todo[c])
  <2>1. Handling(Irq) /\ (ComputeMasked("irq") \/ StoreCopy("irq") \/ Send("irq"))
    BY <1>1 DEF Irq
  <2> QED BY <2>1, ComputeMaskedBeside, StoreCopyBeside, SendBeside
<1>2. CASE ~(c = "irq" /\ Handling(todo[c]))
  BY <1>2, ComputeMaskedAlone, StoreCopyAlone, SendAlone
<1> QED BY <1>1, <1>2

(* What a step has to show that neither writes nor sets the copies up, and *)
(* that another context may have cut into or be cut into by.               *)
LEMMA BesideNext ==
  ASSUME CoherentInv, TypeInv', NEW c \in Contexts, NEW o \in Contexts, c # o,
         NEW t, todo[c] = t, t # <<>>, NEW u, todo'[c] = u, todo'[o] = todo[o],
         \A r \in Config : copies'[r] = copies[r] /\ regs'[r] = regs[r],
         ResetPending' => ResetPending, Chain(u),
         t[1].op \notin {"send", "copy", "init_copies"},
         ~First(u, "send"), ~First(u, "copy"), ~First(u, "init_copies"),
         ResetPending' => ~First(u, "masked"),
         Has(t, "init_copies") => Has(u, "init_copies"),
         c = "main" => MainShape(u) /\ Irq = <<>> /\ (Resetting(t) => Resetting(u)),
         c = "irq" => /\ IrqShape(u) /\ (Handling(t) => Handling(u))
                      /\ First(u, "receive") => pointer' = u[2].reg
                      /\ ResetSeen' => ResetSeen \/ ResetPending
                      /\ ResetSeen \/ ResetPending => ResetSeen' \/ ResetPending'
                      /\ ~(ResetPending' /\ IdRead(u))
  PROVE  CoherentInv'
<1> HIDE DEF Steps, Config
<1>1. \A r : ~Sending(t, r) /\ ~Sending(u, r)
  BY DEF Sending, First
<1>2. ~First(t, "init_copies")
  BY DEF First
<1>3. Writes(u, copies', regs')
  BY DEF Writes
<1>4. \A x : Writes(x, copies, regs) => Writes(x, copies', regs')
  <2>1. ASSUME NEW x, Writes(x, copies, regs) PROVE Writes(x, copies', regs')
    <3>1. x[1].reg \in Config => /\ Outside(x[1], copies) => Outside(x[1], copies')
                                 /\ Outside(x[1], regs) => Outside(x[1], regs')
                                 /\ copies'[x[1].reg] = copies[x[1].reg]
      BY DEF Outside
    <3> QED BY <2>1, <3>1 DEF Writes
  <2> QED BY <2>1
<1>5. CASE c = "main"
  <2>1. Main = t /\ Main' = u /\ Irq = <<>> /\ Irq' = <<>>
    BY <1>5 DEF Main, Irq, Contexts
  <2>2. ~ResetSeen /\ ~ResetSeen'
    BY <2>1, Nothing DEF ResetSeen
  <2>3. Shapes'
    BY <1>5, <2>1, Nothing DEF Shapes
  <2>4. OneAtATime'
    BY <1>5, <2>1, <2>2, Nothing DEF OneAtATime, CoherentInv
  <2>5. Fresh'
    BY <2>1, <2>2, Nothing DEF Fresh, CoherentInv
  <2>6. Synced'
    BY <1>1, <2>1, <2>2, Nothing DEF Synced, CoherentInv
  <2>7. WritesKept'
    BY <1>3, <2>1, Nothing DEF WritesKept
  <2> QED BY <2>3, <2>4, <2>5, <2>6, <2>7 DEF CoherentInv
<1>6. CASE c = "irq"
  <2>1. Irq = t /\ Irq' = u /\ Main' = Main
    BY <1>6 DEF Main, Irq, Contexts
  <2>2. Shapes'
    BY <1>6, <2>1 DEF Shapes, CoherentInv
  <2>3. OneAtATime'
    <3>1. ResetPending' => ~Writing(u)
      BY DEF Writing, WriteOps, First
    <3> QED BY <1>6, <2>1, <3>1 DEF OneAtATime, CoherentInv
  <2>4. Fresh'
    BY <1>6, <2>1 DEF Fresh, CoherentInv
  <2>5. Synced'
    <3>1. ASSUME NEW r \in Config
          PROVE  \/ copies'[r] = regs'[r]
                 \/ ResetPending' /\ Main' = <<>>
                 \/ ResetSeen'
                 \/ Has(Main', "init_copies") \/ Has(Irq', "init_copies")
                 \/ Sending(Main', r) \/ Sending(Irq', r)
      <4>1. \/ copies[r] = regs[r]
            \/ ResetPending /\ Main = <<>>
            \/ ResetSeen
            \/ Has(Main, "init_copies") \/ Has(Irq, "init_copies")
            \/ Sending(Main, r) \/ Sending(Irq, r)
        BY DEF CoherentInv, Synced
      <4>2. ResetSeen => Main = <<>>
        BY DEF CoherentInv, OneAtATime
      <4> QED BY <1>1, <1>6, <2>1, <4>1, <4>2
    <3> QED BY <3>1 DEF Synced
  <2>6. WritesKept'
    BY <1>3, <1>4, <2>1 DEF WritesKept, CoherentInv
  <2> QED BY <2>2, <2>3, <2>4, <2>5, <2>6 DEF CoherentInv
<1> QED BY <1>5, <1>6 DEF Contexts

(* A step of a read leaves the rest of the call to be done.                *)
LEMMA ReadRest ==
  ASSUME CoherentInv, NEW c \in Contexts, NEW o \in Contexts, c # o,
         NEW op \in {"select", "receive", "keep"}, At(c, op), GoOn(c, <<>>)
  PROVE  LET t == todo[c]
             u == Tail(t)
         IN
         /\ t \in Seq(Steps) /\ t # <<>> /\ Chain(t) /\ Head(t) = t[1] /\ t[1].op = op
         /\ todo'[c] = u /\ todo'[o] = todo[o] /\ Chain(u)
         /\ c = "main" => MainShape(t) /\ MainShape(u) /\ Irq = <<>>
         /\ c = "irq" => IrqShape(u) /\ t = Irq /\ (Handling(t) \/ Initialising(t))
         /\ ~First(u, "send") /\ ~First(u, "copy") /\ ~First(u, "init_copies")
         /\ ~First(u, "masked")
         /\ Has(t, "init_copies") => Has(u, "init_copies")
         /\ Resetting(t) => Resetting(u)
         /\ Handling(t) => Handling(u)
         /\ op = "select" => ~IdRead(t) /\ ~IdRead(u) /\ u[2].reg = t[1].reg
         /\ op = "receive" => ~IdRead(t) /\ u[1] = t[2] /\ (IdRead(u) => t[2].reg = ID)
         /\ op # "select" => ~First(u, "receive")
         /\ op = "keep" => (IdRead(u) <=> IdRead(t))
         /\ Len(t) \in Nat /\ Len(t) >= 1
<1> DEFINE t == todo[c]
           u == Tail(t)
<1>1. /\ t \in Seq(Steps) /\ t # <<>> /\ Chain(t) /\ Head(t) = t[1] /\ t[1].op = op
      /\ c = "main" => MainShape(t) /\ Irq = <<>>
      /\ c = "irq" => IrqShape(t) /\ t = Irq
  <2>1. t # <<>> /\ (c = "main" => Irq = <<>>) /\ Head(t).op = op
    BY DEF At, Idle, Irq
  <2>2. t \in Seq(Steps)
    BY DEF CoherentInv, TypeInv
  <2>3. Chain(t) /\ (c = "main" => MainShape(t)) /\ (c = "irq" => IrqShape(t) /\ t = Irq)
    BY DEF CoherentInv, Shapes, Main, Irq, Contexts
  <2> HIDE DEF t, Steps
  <2> QED BY <2>1, <2>2, <2>3, Rest
<1> HIDE DEF Steps
<1>2. /\ u \in Seq(Steps) /\ Chain(u) /\ Len(u) = Len(t) - 1 /\ Len(t) \in Nat /\ Len(t) >= 1
      /\ (u = <<>> => MayEnd(t[1]) /\ Len(t) = 1)
      /\ (u # <<>> => Len(t) >= 2 /\ u[1] = t[2] /\ Follows(t[1], t[2]))
      /\ (Has(t, "init_copies") => Has(u, "init_copies"))
      /\ (Len(t) >= 3 => u[2] = t[3] /\ Follows(t[2], t[3]))
      /\ (op = "select" => Len(t) >= 3 /\ t[3].reg = t[1].reg)
  BY <1>1, Rest
<1>3. todo'[c] = u /\ todo'[o] = todo[o]
  <2>1. <<>> \in Seq(Steps)
    BY Nothing
  <2> QED BY <1>1, <2>1, GoOnSteps DEF CoherentInv
<1>4. (c = "main" => MainShape(u)) /\ (c = "irq" => IrqShape(u) /\ (Handling(t) \/ Initialising(t)))
  <2> HIDE DEF ConfigWrites, MainWrites, ResetWrites, Config
  <2> QED BY <1>1, ShapeRest, HeadSays
<1>5. (Resetting(t) => Resetting(u)) /\ (Handling(t) => Handling(u))
  BY <1>1, ResettingList, HandlingList
<1> HIDE DEF t, u
<1>6. /\ ~First(u, "send") /\ ~First(u, "copy") /\ ~First(u, "init_copies")
      /\ ~First(u, "masked")
  BY <1>1, <1>2 DEF First, Follows, WritesControl
<1>7. op = "select" => ~IdRead(t) /\ ~IdRead(u) /\ u[2].reg = t[1].reg
  BY <1>1, <1>2 DEF IdRead, First, Follows
<1>8. op = "receive" => ~IdRead(t) /\ u[1] = t[2] /\ (IdRead(u) => t[2].reg = ID)
  <2> SUFFICES ASSUME op = "receive"
               PROVE  ~IdRead(t) /\ u[1] = t[2] /\ (IdRead(u) => t[2].reg = ID)
    OBVIOUS
  <2>1. ~IdRead(t)
    BY <1>1 DEF IdRead, First
  <2>2. u # <<>> /\ u[1] = t[2] /\ t[2].op = "keep"
    BY <1>1, <1>2 DEF MayEnd, Follows
  <2>3. IdRead(u) => Len(u) >= 2 /\ u[2].op = "reset_intr"
    BY <2>2 DEF IdRead, First
  <2>4. Len(u) >= 2 => Len(t) >= 3
    BY <1>2
  <2>5. IdRead(u) => Follows(t[2], t[3]) /\ t[3].op = "reset_intr"
    BY <1>2, <2>3, <2>4
  <2> QED BY <2>1, <2>2, <2>5 DEF Follows
<1>9. op # "select" => ~First(u, "receive")
  BY <1>1, <1>2 DEF First, Follows
<1>10. op = "keep" => (IdRead(u) <=> IdRead(t))
  <2> SUFFICES ASSUME op = "keep" PROVE IdRead(u) <=> IdRead(t)
    OBVIOUS
  <2>1. ~First(u, "keep")
    BY <1>1, <1>2 DEF First, Follows
  <2>2. IdRead(u) <=> First(u, "reset_intr")
    BY <2>1 DEF IdRead
  <2>3. IdRead(t) <=> Len(t) >= 2 /\ t[2].op = "reset_intr"
    BY <1>1 DEF IdRead, First
  <2>4. Len(t) >= 2 <=> u # <<>>
    <3>1. u # <<>> => Len(u) # 0
      BY <1>2, EmptySeq
    <3>2. u = <<>> => Len(t) = 1
      BY <1>2
    <3> QED BY <1>2, <3>1, <3>2
  <2> QED BY <1>2, <2>2, <2>3, <2>4 DEF First
<1> QED BY <1>1, <1>2, <1>3, <1>4, <1>5, <1>6, <1>7, <1>8, <1>9, <1>10 DEF t, u

(* The handler's selection is the register it reads next.                  *)
LEMMA SelectCoherent ==
  ASSUME CoherentInv, NEW c \in Contexts, Select(c), TypeInv'
  PROVE  CoherentInv'
<1> DEFINE t == todo[c]
           u == Tail(t)
<1>1. PICK o \in Contexts : o # c
  BY DEF Contexts
<1>2. /\ At(c, "select") /\ GoOn(c, <<>>) /\ UNCHANGED <<copies, regs, data, enabled>>
      /\ pointer' = Head(t).reg
  BY DEF Select
<1>3. /\ t # <<>> /\ Head(t) = t[1] /\ t[1].op = "select"
      /\ todo'[c] = u /\ todo'[o] = todo[o] /\ Chain(u)
      /\ c = "main" => MainShape(u) /\ Irq = <<>>
      /\ c = "irq" => IrqShape(u) /\ t = Irq
      /\ ~First(u, "send") /\ ~First(u, "copy") /\ ~First(u, "init_copies")
      /\ ~First(u, "masked")
      /\ Has(t, "init_copies") => Has(u, "init_copies")
      /\ Resetting(t) => Resetting(u)
      /\ Handling(t) => Handling(u)
      /\ ~IdRead(t) /\ ~IdRead(u) /\ u[2].reg = t[1].reg
  BY <1>1, <1>2, ReadRest, ZenonT(40)
<1>4. (ResetPending' <=> ResetPending) /\ pointer' = u[2].reg
  BY <1>2, <1>3 DEF ResetPending
<1>5. c = "irq" => Irq' = u
  BY <1>3 DEF Irq
<1>6. c = "irq" => ~ResetSeen /\ ~ResetSeen'
  BY <1>3, <1>5 DEF ResetSeen
<1> HIDE DEF t, u, Steps, Config
<1> QED BY <1>1, <1>2, <1>3, <1>4, <1>6, BesideNext DEF t

(* Reading DEVICE_ID_AND_CONTROL clears the reset interrupt; that there    *)
(* was one is now for the handler to remember.                             *)
LEMMA ReceiveCoherent ==
  ASSUME CoherentInv, NEW c \in Contexts, Receive(c), TypeInv'
  PROVE  CoherentInv'
<1> DEFINE t == todo[c]
           u == Tail(t)
<1>1. PICK o \in Contexts : o # c
  BY DEF Contexts
<1>2. /\ At(c, "receive") /\ GoOn(c, <<>>) /\ UNCHANGED <<copies, enabled>>
      /\ regs' = AfterReading(pointer)
  BY DEF Receive
<1>3. /\ t \in Seq(Steps) /\ t # <<>> /\ Chain(t) /\ t[1].op = "receive"
      /\ todo'[c] = u /\ todo'[o] = todo[o] /\ Chain(u)
      /\ c = "main" => MainShape(u) /\ Irq = <<>>
      /\ c = "irq" => IrqShape(u) /\ t = Irq /\ (Handling(t) \/ Initialising(t))
      /\ ~First(u, "send") /\ ~First(u, "copy") /\ ~First(u, "init_copies")
      /\ ~First(u, "masked")
      /\ Has(t, "init_copies") => Has(u, "init_copies")
      /\ Resetting(t) => Resetting(u)
      /\ Handling(t) => Handling(u)
      /\ ~IdRead(t) /\ u[1] = t[2] /\ (IdRead(u) => t[2].reg = ID)
      /\ ~First(u, "receive")
  BY <1>1, <1>2, ReadRest, ZenonT(40)
<1>4. DOMAIN regs = Registers /\ ID \in Registers /\ ID \notin Config
      /\ "INTERRUPT_STATUS" \notin Config /\ ID # "INTERRUPT_STATUS" /\ "none" \notin Registers
  BY DEF CoherentInv, TypeInv, TypeOK, ID, Config, Registers
<1> HIDE DEF t, u, Steps, Config, Registers, ID
<1>5. /\ \A r \in Config : regs'[r] = regs[r]
      /\ pointer = ID => ~ResetPending'
      /\ pointer # ID => (ResetPending' <=> ResetPending)
  <2>1. CASE pointer = "INTERRUPT_STATUS"
    BY <1>2, <1>4, <2>1 DEF AfterReading, ResetPending
  <2>2. CASE pointer = ID
    BY <1>2, <1>4, <2>2 DEF AfterReading, ResetPending
  <2>3. CASE pointer \notin {"INTERRUPT_STATUS", ID}
    BY <1>2, <1>4, <2>3 DEF AfterReading, ResetPending
  <2> QED BY <2>1, <2>2, <2>3
<1>6. ASSUME c = "irq"
      PROVE  /\ ResetSeen' => ResetSeen \/ ResetPending
             /\ ResetSeen \/ ResetPending => ResetSeen' \/ ResetPending'
             /\ ~(ResetPending' /\ IdRead(u))
  <2>1. t = Irq /\ Irq' = u
    BY <1>3, <1>6 DEF Irq
  <2>2. ~ResetSeen
    BY <1>3, <2>1 DEF ResetSeen
  <2>3. pointer = t[2].reg
    BY <1>3, <2>1 DEF CoherentInv, OneAtATime, First
  <2>4. ResetPending => Handling(t)
    BY <1>3, <2>1 DEF CoherentInv, OneAtATime
  <2>5. CASE pointer = ID
    <3>1. data'["irq"] = regs[ID]
      BY <1>4, <1>6, <2>5 DEF Receive, CoherentInv, TypeInv, TypeOK, Contexts
    <3>2. Handling(t) => IdRead(u)
      BY <1>3, <2>3, <2>5, HandlingList DEF u
    <3> QED BY <1>5, <2>1, <2>2, <2>4, <2>5, <3>1, <3>2 DEF ResetSeen, ResetPending
  <2>6. CASE pointer # ID
    <3>1. ~IdRead(u) /\ ~ResetSeen'
      BY <1>3, <2>1, <2>3, <2>6 DEF ResetSeen
    <3> QED BY <1>5, <2>2, <2>6, <3>1
  <2> QED BY <2>5, <2>6
<1>7. ResetPending' => ResetPending
  BY <1>5
<1>8. t[1].op \notin {"send", "copy", "init_copies"} /\ t = todo[c]
  BY <1>3 DEF t
<1> QED BY <1>1, <1>2, <1>3, <1>5, <1>6, <1>7, <1>8, BesideNext

(* It remembers until it looks at it.                                      *)
LEMMA KeepCoherent ==
  ASSUME CoherentInv, NEW c \in Contexts, Keep(c), TypeInv'
  PROVE  CoherentInv'
<1> DEFINE t == todo[c]
           u == Tail(t)
<1>1. PICK o \in Contexts : o # c
  BY DEF Contexts
<1>2. /\ At(c, "keep") /\ GoOn(c, <<>>) /\ UNCHANGED <<regs, pointer, enabled>>
      /\ copies' = IF Head(t).reg = ID THEN [copies EXCEPT ![ID] = data[c]] ELSE copies
      /\ data' = IF Len(t) > 1 /\ t[2].op \in {"irqs", "reset_intr"}
                 THEN data ELSE [data EXCEPT ![c] = {}]
  BY DEF Keep
<1>3. /\ t # <<>> /\ t[1].op = "keep"
      /\ todo'[c] = u /\ todo'[o] = todo[o] /\ Chain(u)
      /\ c = "main" => MainShape(u) /\ Irq = <<>>
      /\ c = "irq" => IrqShape(u) /\ t = Irq
      /\ ~First(u, "send") /\ ~First(u, "copy") /\ ~First(u, "init_copies")
      /\ ~First(u, "masked")
      /\ Has(t, "init_copies") => Has(u, "init_copies")
      /\ Resetting(t) => Resetting(u)
      /\ Handling(t) => Handling(u)
      /\ ~First(u, "receive") /\ (IdRead(u) <=> IdRead(t))
      /\ Len(t) \in Nat
  BY <1>1, <1>2, ReadRest
<1> HIDE DEF t, u, Steps, Registers
<1>4. \A r \in Config : copies'[r] = copies[r]
  <2>1. ID \notin Config
    BY DEF ID, Config
  <2> HIDE DEF Config
  <2> QED BY <1>2, <2>1 DEF CoherentInv, TypeInv, TypeOK
<1> HIDE DEF Config
<1>5. ResetPending' <=> ResetPending
  BY <1>2 DEF ResetPending
<1>6. IdRead(t) => data' = data
  <2>1. IdRead(t) => Len(t) >= 2 /\ t[2].op = "reset_intr"
    BY <1>3 DEF IdRead, First
  <2>2. Len(t) >= 2 => Len(t) > 1
    BY <1>3
  <2> QED BY <1>2, <2>1, <2>2
<1>7. c = "irq" => /\ ResetSeen' <=> ResetSeen
                   /\ ~(ResetPending /\ IdRead(t))
  BY <1>3, <1>6 DEF ResetSeen, Irq, CoherentInv, OneAtATime
<1> QED BY <1>1, <1>2, <1>3, <1>4, <1>5, <1>7, BesideNext DEF t

(* The handler's loop over the pins, and what a callback of it writes.     *)
LEMMA PinLoopCoherent ==
  ASSUME CoherentInv, TypeInv', NEW c \in Contexts, NEW op \in {"irqs", "pin"}, At(c, op),
         NEW writes \in CallbackWrites(CallbackWritten), ResetPending => writes = <<>>,
         NEW next, next = <<>> \/ \E p \in PinSteps : next = <<p>>, GoOn(c, writes \o next),
         UNCHANGED <<copies, regs, pointer>>
  PROVE  CoherentInv'
<1> DEFINE t == todo[c]
           steps == writes \o next
           u == steps \o Tail(t)
<1>1. PICK o \in Contexts : o # c
  BY DEF Contexts
<1>2. t # <<>> /\ Head(t).op = op
  BY DEF At
<1>3. t \in Seq(Steps)
  BY DEF CoherentInv, TypeInv
<1>4. Chain(t) /\ (c = "main" => MainShape(t)) /\ (c = "irq" => IrqShape(t) /\ t = Irq)
  BY DEF CoherentInv, Shapes, Main, Irq, Contexts
<1> HIDE DEF Steps, PinSteps, Config
<1>5. t[1].op = op
  BY <1>2, <1>3, <1>4, Rest DEF t
<1>6. c = "irq" /\ Handling(t)
  <2> HIDE DEF ConfigWrites, MainWrites, ResetWrites
  <2> QED BY <1>2, <1>3, <1>4, <1>5, HeadSays DEF Contexts
<1>7. /\ Tail(t) \in Seq(Steps) /\ Chain(Tail(t)) /\ Handling(Tail(t)) /\ Tail(t) # <<>>
      /\ Tail(t)[1] = t[2] /\ Follows(t[1], t[2])
  BY <1>2, <1>3, <1>4, <1>5, <1>6, Rest, HandlingList
<1>8. \A p \in PinSteps : p \in Steps /\ p \in HandlerSteps /\ p.op = "pin"
  BY DEF Steps, PinSteps, HandlerSteps
<1>20. /\ next \in Seq(Steps) /\ next \in Seq(HandlerSteps) /\ Linked(next)
       /\ next # <<>> => /\ Follows(Last(next), t[2]) /\ next[1].op = "pin"
                         /\ Last(next).op = "pin"
  <2>1. CASE next = <<>>
    <3>1. <<>> \in Seq(Steps) /\ <<>> \in Seq(HandlerSteps) /\ Linked(<<>>)
      BY Nothing DEF Chain
    <3> QED BY <2>1, <3>1
  <2>2. CASE \E p \in PinSteps : next = <<p>>
    <3>1. PICK p \in PinSteps : next = <<p>>
      BY <2>2
    <3>2. Linked(next) /\ next[1] = p /\ Last(next) = p
      BY <1>8, <3>1, OneStep
    <3>3. Follows(p, t[2])
      BY <1>5, <1>7, <1>8 DEF Follows, WritesControl
    <3> HIDE DEF HandlerSteps
    <3>4. next \in Seq(Steps) /\ next \in Seq(HandlerSteps)
      BY <1>8, <3>1
    <3> QED BY <1>8, <3>2, <3>3, <3>4
  <2> QED BY <2>1, <2>2
<1>21. /\ writes \in Seq(Steps) /\ writes \in Seq(HandlerSteps) /\ Linked(writes)
       /\ writes # <<>> => /\ writes[1].op = "masked" /\ Follows(Last(writes), t[2])
                           /\ next # <<>> => Follows(Last(writes), next[1])
  <2>1. /\ writes \in Seq(Steps) /\ Linked(writes) /\ writes \in Seq(IrqWrites)
        /\ writes # <<>> => /\ writes[1].op = "masked" /\ Last(writes) = writes[1]
                            /\ writes[1].reg \in Config
    BY CallbackList, Pi4ioAssumption DEF Chain
  <2>2. writes \in Seq(HandlerSteps)
    BY <2>1, WriteSets
  <2>3. ID \notin Config
    BY DEF ID, Config
  <2>4. writes # <<>> => Follows(Last(writes), t[2])
    BY <1>5, <1>7, <2>1, <2>3 DEF Follows, WritesControl
  <2>5. writes # <<>> /\ next # <<>> => Follows(Last(writes), next[1])
    BY <1>20, <2>1, <2>3 DEF Follows, WritesControl
  <2> QED BY <2>1, <2>2, <2>4, <2>5
<1>9. /\ steps \in Seq(Steps) /\ steps \in Seq(HandlerSteps) /\ Linked(steps)
      /\ steps # <<>> => /\ Follows(Last(steps), t[2]) /\ steps[1].op \in {"pin", "masked"}
                         /\ ResetPending => steps[1].op = "pin"
  <2>1. /\ steps \in Seq(Steps) /\ Linked(steps)
        /\ writes = <<>> => steps = next
        /\ next = <<>> => steps = writes
        /\ writes # <<>> => steps[1] = writes[1]
        /\ next # <<>> => Last(steps) = Last(next)
    BY <1>20, <1>21, Joined
  <2>2. steps \in Seq(HandlerSteps)
    <3> HIDE DEF HandlerSteps
    <3> QED BY <1>20, <1>21, ConcatProperties
  <2> HIDE DEF steps, HandlerSteps
  <2> QED BY <1>20, <1>21, <2>1, <2>2
<1> HIDE DEF steps
<1>10. /\ u \in Seq(Steps) /\ Linked(u) /\ u # <<>> /\ Last(u) = Last(Tail(t))
       /\ steps = <<>> => u = Tail(t)
       /\ steps # <<>> => u[1] = steps[1]
  BY <1>7, <1>9, Joined DEF Chain
<1>11. Chain(u)
  BY <1>7, <1>10 DEF Chain
<1>12. Handling(u)
  <2>1. Tail(t) \in Seq(HandlerSteps)
    BY <1>7 DEF Handling
  <2>2. u \in Seq(HandlerSteps)
    <3> HIDE DEF HandlerSteps
    <3> QED BY <1>9, <2>1, ConcatProperties
  <2> QED BY <1>7, <1>10, <2>2 DEF Handling, EndsIn
<1>13. todo'[c] = u /\ todo'[o] = todo[o]
  BY <1>1, <1>2, <1>9, GoOnSteps DEF CoherentInv, steps
<1> HIDE DEF t, u
<1>14. /\ u[1].op \notin {"send", "copy", "init_copies", "receive", "keep", "reset_intr"}
       /\ ResetPending => u[1].op # "masked"
  BY <1>5, <1>7, <1>9, <1>10 DEF Follows, WritesControl
<1>15. /\ ~First(u, "send") /\ ~First(u, "copy") /\ ~First(u, "init_copies")
       /\ (ResetPending => ~First(u, "masked")) /\ ~First(u, "receive") /\ ~IdRead(u) /\ ~IdRead(t)
  BY <1>5, <1>14 DEF First, IdRead
<1>16. Irq' = u /\ ~ResetSeen /\ ~ResetSeen'
  BY <1>4, <1>6, <1>13, <1>15 DEF Irq, ResetSeen
<1>17. ~Has(t, "init_copies")
  BY <1>3, <1>4, <1>6, HandlingList DEF t
<1>18. ResetPending' <=> ResetPending
  BY DEF ResetPending
<1>19. t[1].op \notin {"send", "copy", "init_copies"} /\ IrqShape(u) /\ todo[c] = t
  BY <1>5, <1>12 DEF IrqShape, t
<1> QED BY <1>1, <1>2, <1>6, <1>11, <1>12, <1>13, <1>15, <1>16, <1>17, <1>18, <1>19, BesideNext

(* The loop over the pins begins.                                          *)
LEMMA ReadIrqsCoherent ==
  ASSUME CoherentInv, NEW c \in Contexts, ReadIrqs(c), TypeInv'
  PROVE  CoherentInv'
<1> DEFINE first == [op |-> "pin", pin |-> 0, irqs |-> data[c]]
<1>1. first \in PinSteps
  <2>1. 0 \in Pins /\ data[c] \in Bits
    BY Pi4ioAssumption DEF Pins, CoherentInv, TypeInv, TypeOK
  <2> QED BY <2>1 DEF PinSteps
<1>2. At(c, "irqs") /\ GoOn(c, <<first>>) /\ UNCHANGED <<copies, regs, pointer>>
  BY DEF ReadIrqs
<1>3. <<>> \in CallbackWrites(CallbackWritten)
  BY DEF CallbackWrites
<1> HIDE DEF first
<1>4. <<>> \o <<first>> = <<first>>
  OBVIOUS
<1> HIDE DEF PinSteps, Steps
<1> QED BY <1>1, <1>2, <1>3, <1>4, PinLoopCoherent

(* It goes on or ends, and a callback may begin to write when no reset is  *)
(* pending.                                                                *)
LEMMA PinIrqCoherent ==
  ASSUME Usage = {}, CoherentInv, NEW c \in Contexts, PinIrq(c), TypeInv'
  PROVE  CoherentInv'
<1> DEFINE s == Head(todo[c])
           step == [s EXCEPT !.pin = s.pin + 1, !.irqs = Shifted(s.irqs)]
           next == IF s.irqs # {} /\ s.pin + 1 < NPins THEN <<step>> ELSE <<>>
<1>1. At(c, "pin") /\ UNCHANGED <<copies, regs, pointer>>
  BY DEF PinIrq
<1>2. s \in PinSteps
  <2>1. s \in Steps /\ s.op = "pin"
    BY <1>1, NextStep DEF At, CoherentInv
  <2> QED BY <2>1, Kinds
<1>3. s.pin + 1 < NPins => step \in PinSteps
  <2>1. s.pin + 1 < NPins => s.pin + 1 \in Pins
    BY <1>2, Pi4ioAssumption DEF PinSteps, Pins
  <2> QED BY <1>2, <2>1 DEF PinSteps, Shifted
<1>4. PICK writes \in CallbackWrites(CallbackWritten) :
        GoOn(c, writes \o next) /\ (ResetPending => writes = <<>>)
  <2>1. <<>> \in CallbackWrites(CallbackWritten)
    BY DEF CallbackWrites
  <2> QED BY <2>1 DEF PinIrq
<1>5. next = <<>> \/ \E p \in PinSteps : next = <<p>>
  BY <1>3
<1> HIDE DEF next, s, PinSteps, Steps
<1> QED BY <1>1, <1>4, <1>5, PinLoopCoherent

(* When the handler has seen a reset it sets the copies up before anything *)
(* else can run; when not, they are what they were.                        *)
LEMMA ResetIntrCoherent ==
  ASSUME Usage = {}, CoherentInv, NEW c \in Contexts, ResetIntr(c), TypeInv'
  PROVE  CoherentInv'
<1> DEFINE t == todo[c]
           after == init_copies \o <<Step("rst_callback")>>
<1>1. /\ At(c, "reset_intr") /\ UNCHANGED <<copies, regs, pointer, enabled>>
      /\ GoOn(c, IF SaysReset(data[c]) THEN after ELSE <<>>)
  BY DEF ResetIntr
<1>2. t # <<>> /\ Head(t).op = "reset_intr"
  BY <1>1 DEF At
<1>3. t \in Seq(Steps)
  BY DEF CoherentInv, TypeInv
<1>4. Chain(t) /\ (c = "main" => MainShape(t)) /\ (c = "irq" => IrqShape(t) /\ t = Irq)
  BY DEF CoherentInv, Shapes, Main, Irq, Contexts
<1> HIDE DEF Steps, Config
<1>5. t[1].op = "reset_intr"
  BY <1>2, <1>3, <1>4, Rest DEF t
<1>6. c = "irq" /\ Handling(t) /\ t = Irq
  <2> HIDE DEF ConfigWrites, MainWrites, ResetWrites
  <2> QED BY <1>2, <1>3, <1>4, <1>5, HeadSays DEF Contexts
<1>7. Tail(t) = <<>>
  BY <1>2, <1>3, <1>4, <1>5, Rest DEF Follows
<1>8. IdRead(t) /\ ~ResetPending /\ (ResetSeen <=> SaysReset(data[c])) /\ ~Has(t, "init_copies")
      /\ \A r : ~Sending(t, r)
  <2>1. IdRead(t)
    BY <1>2, <1>5 DEF IdRead, First
  <2>2. ~ResetPending
    BY <1>2, <1>6, <2>1 DEF CoherentInv, OneAtATime
  <2>3. ~Has(t, "init_copies")
    BY <1>3, <1>4, <1>6, HandlingList
  <2> QED BY <1>5, <1>6, <2>1, <2>2, <2>3 DEF ResetSeen, SaysReset, Sending, First
<1>9. Main' = Main /\ ~ResetPending'
  <2>1. \E steps \in Seq(Steps) : GoOn(c, steps)
    BY <1>1, Nothing, AfterResetList
  <2>2. Main' = Main
    BY <1>2, <1>6, <2>1, GoOnSteps DEF CoherentInv, Main, Contexts
  <2> QED BY <1>1, <1>8, <2>2 DEF ResetPending
<1>10. CASE SaysReset(data[c])
  <2>1. Irq' = after /\ Chain(after) /\ Initialising(after) /\ after[1].op = "init_copies"
        /\ after # <<>> /\ Has(after, "init_copies")
    <3>1. /\ after \in Seq(Steps) /\ Chain(after) /\ Initialising(after)
          /\ after[1] = Step("init_copies")
      BY AfterResetList
    <3>2. after \o <<>> = after
      BY <3>1, ConcatEmptySeq
    <3>3. Irq' = after
      BY <1>1, <1>2, <1>6, <1>7, <1>10, <3>1, <3>2, GoOnSteps DEF CoherentInv, Irq
    <3>4. after # <<>> /\ 1 \in 1..Len(after)
      <4>1. after # <<>>
        BY <3>1, InitialisingList
      <4> QED BY <3>1, <4>1, EmptySeq, LenProperties
    <3>5. after[1].op = "init_copies"
      BY <3>1 DEF Step
    <3> QED BY <3>1, <3>3, <3>4, <3>5 DEF Has
  <2> HIDE DEF after
  <2>2. Main = <<>> /\ \A r \in Config : regs[r] = ResetValue(r)
    BY <1>8, <1>10 DEF CoherentInv, OneAtATime, Fresh
  <2>3. ~First(after, "receive") /\ ~First(after, "copy") /\ ~First(after, "send") /\ ~IdRead(after)
    BY <2>1 DEF First, IdRead
  <2>4. ~ResetSeen'
    BY <2>1, <2>3 DEF ResetSeen
  <2>5. Shapes'
    BY <1>9, <2>1, <2>2, Nothing DEF Shapes, IrqShape
  <2>6. OneAtATime'
    BY <1>9, <2>1, <2>2, <2>3, <2>4 DEF OneAtATime
  <2>7. Fresh'
    BY <1>1, <2>2 DEF Fresh
  <2>8. Synced'
    BY <2>1 DEF Synced
  <2>9. WritesKept'
    BY <1>9, <2>1, <2>2, <2>3, Nothing DEF WritesKept, Writes
  <2> QED BY <2>5, <2>6, <2>7, <2>8, <2>9 DEF CoherentInv
<1>11. CASE ~SaysReset(data[c])
  <2>1. Irq' = <<>>
    BY <1>1, <1>2, <1>6, <1>7, <1>11, Nothing, GoOnSteps DEF CoherentInv, Irq
  <2>2. ~ResetSeen' /\ ~ResetSeen
    BY <1>8, <1>11, <2>1, Nothing DEF ResetSeen
  <2>3. Shapes'
    BY <1>9, <2>1, Nothing DEF Shapes, CoherentInv
  <2>4. OneAtATime'
    BY <1>9, <2>1, <2>2, Nothing DEF OneAtATime
  <2>5. Fresh'
    BY <1>1, <1>9, <2>1, <2>2, Nothing DEF Fresh, CoherentInv
  <2>6. Synced'
    BY <1>1, <1>6, <1>8, <1>9, <2>2 DEF Synced, CoherentInv
  <2>7. WritesKept'
    BY <1>1, <1>9, <2>1, Nothing DEF WritesKept, CoherentInv
  <2> QED BY <2>3, <2>4, <2>5, <2>6, <2>7 DEF CoherentInv
<1> QED BY <1>10, <1>11

(* A call begins when no reset is pending.                                 *)
LEMMA BeginCoherent ==
  ASSUME Usage = {}, CoherentInv, TypeInv', NEW steps, Begin(steps),
         MainShape(steps), Chain(steps), ~First(steps, "send"), ~First(steps, "init_copies"),
         Writes(steps, copies, regs)
  PROVE  CoherentInv'
<1> HIDE DEF Steps, Config
<1>1. Main = <<>> /\ Irq = <<>> /\ ~ResetPending
  BY DEF Begin, Quiet, Idle, Contexts, Main, Irq
<1>2. Main' = steps /\ Irq' = <<>> /\ UNCHANGED <<copies, regs, pointer, data, enabled>>
  BY <1>1 DEF Begin, Main, Irq, Contexts, CoherentInv, TypeInv, TypeOK
<1>3. ~ResetPending' /\ ~ResetSeen' /\ ~ResetSeen
  BY <1>1, <1>2, Nothing DEF ResetPending, ResetSeen
<1>4. Shapes'
  BY <1>2, Nothing DEF Shapes
<1>5. OneAtATime'
  BY <1>2, <1>3, Nothing DEF OneAtATime
<1>6. Fresh'
  BY <1>2, <1>3, Nothing DEF Fresh
<1>7. Synced'
  BY <1>1, <1>2, <1>3, Nothing DEF Synced, CoherentInv
<1>8. WritesKept'
  BY <1>2, Nothing DEF WritesKept
<1> QED BY <1>4, <1>5, <1>6, <1>7, <1>8 DEF CoherentInv

(* Every call of the program, and the handler when it cuts into one.       *)
LEMMA CallCoherent ==
  ASSUME Usage = {}, CoherentInv, TypeInv', Call
  PROVE  CoherentInv'
<1> HIDE DEF Steps, Config, ConfigWrites, MainWrites
<1>1. ASSUME NEW steps \in Seq(MainWrites), Begin(steps), Chain(steps), steps # <<>>,
             steps[1].op = "masked"
      PROVE  CoherentInv'
  <2>1. ~First(steps, "send") /\ ~First(steps, "init_copies") /\ ~First(steps, "copy")
    BY <1>1 DEF First
  <2>2. MainShape(steps) /\ Writes(steps, copies, regs)
    BY <2>1 DEF MainShape, Writes
  <2> QED BY <1>1, <2>1, <2>2, BeginCoherent
<1>2. ASSUME NEW r \in Written, NEW pin \in Pins, NEW value \in BOOLEAN
      PROVE  LET t == write_register_bit(r, pin, value) IN
             /\ t \in Seq(MainWrites) /\ t \in Seq(Steps) /\ Chain(t) /\ t # <<>>
             /\ t[1].op = "masked" /\ t[1].reg = r /\ Last(t) = t[1]
  <2>1. r \in Config /\ PinMask(pin) \in Bits /\ When(value, PinMask(pin)) \in Bits
    BY Pi4ioAssumption, BitSets
  <2> QED BY <2>1, MaskedList DEF write_register_bit
<1>3. CASE WriteAll
  <2>1. PICK r \in Written, new \in Values : Begin(write_register_raw(r, Pins, new))
    BY <1>3 DEF WriteAll
  <2> DEFINE t == write_register_raw(r, Pins, new)
  <2>2. /\ Linked(t) /\ t # <<>> /\ t \in Seq(MainWrites)
        /\ t[1] = [op |-> "copy", reg |-> r, mask |-> Pins, data |-> new]
        /\ Last(t) = [op |-> "send", reg |-> r, mask |-> Pins, data |-> new]
    BY <2>1, RawList, BitSets, Pi4ioAssumption
  <2> HIDE DEF t
  <2>3. Chain(t)
    <3>1. r # ID
      BY <2>1, Pi4ioAssumption DEF Config, ID
    <3> QED BY <2>2, <3>1 DEF Chain, MayEnd, WritesControl
  <2>4. ~First(t, "send") /\ ~First(t, "init_copies")
    BY <2>2 DEF First
  <2>5. Writes(t, copies, regs) /\ MainShape(t)
    BY <2>2, <2>4 DEF Writes, Outside, MainShape
  <2> QED BY <2>1, <2>3, <2>4, <2>5, BeginCoherent DEF t
<1>4. CASE WriteMasked
  <2>1. PICK r \in Written, mask \in Bits, new \in Values :
          Begin(write_register_masked(r, mask, new))
    BY <1>4 DEF WriteMasked
  <2>2. r \in Config /\ new \in Bits
    BY BitSets, Pi4ioAssumption
  <2> QED BY <1>1, <2>1, <2>2, MaskedList
<1>5. CASE WritePin
  <2>1. PICK r \in Written, pin \in Pins, value \in BOOLEAN : Begin(write_register_bit(r, pin, value))
    BY <1>5 DEF WritePin
  <2> QED BY <1>1, <1>2, <2>1
<1>6. CASE SetPinPair
  <2>1. PICK pair \in Pairs, pin \in Pins, first \in BOOLEAN, second \in BOOLEAN :
          /\ {pair[1], pair[2]} \subseteq Written
          /\ Begin(write_register_bit(pair[1], pin, first)
                   \o write_register_bit(pair[2], pin, second))
    BY <1>6 DEF SetPinPair
  <2> DEFINE a == write_register_bit(pair[1], pin, first)
             b == write_register_bit(pair[2], pin, second)
  <2>2. /\ a \in Seq(MainWrites) /\ a \in Seq(Steps) /\ Chain(a) /\ a # <<>>
        /\ a[1].op = "masked" /\ a[1].reg \in Config /\ Last(a) = a[1]
        /\ b \in Seq(MainWrites) /\ b \in Seq(Steps) /\ Chain(b) /\ b # <<>>
        /\ b[1].op = "masked"
    BY <1>2, <2>1, Pi4ioAssumption
  <2> HIDE DEF a, b
  <2>3. Follows(Last(a), b[1])
    <3>1. ID \notin Config
      BY DEF Config, ID
    <3> QED BY <2>2, <3>1 DEF Follows, WritesControl
  <2>4. /\ Linked(a \o b) /\ a \o b # <<>> /\ (a \o b)[1] = a[1] /\ Last(a \o b) = Last(b)
    BY <2>2, <2>3, JoinedOn DEF Chain
  <2>5. a \o b \in Seq(MainWrites)
    BY <2>2, ConcatProperties
  <2>6. Chain(a \o b)
    BY <2>2, <2>4 DEF Chain
  <2> QED BY <1>1, <2>1, <2>2, <2>4, <2>5, <2>6 DEF a, b
<1>7. CASE ReadStatus
  <2>1. PICK r \in {"INPUT_STATUS", "INTERRUPT_STATUS"} : Begin(read_register_raw(r))
    BY <1>7 DEF ReadStatus
  <2>2. r \in Registers
    BY <2>1 DEF Registers
  <2> DEFINE t == read_register_raw(r)
  <2>3. t \in Seq(Reading) /\ Chain(t) /\ t[1] = [op |-> "select", reg |-> r]
    BY <2>2, ReadList
  <2> HIDE DEF t
  <2>4. ~First(t, "send") /\ ~First(t, "init_copies") /\ ~First(t, "copy")
    BY <2>3 DEF First
  <2>5. Writes(t, copies, regs) /\ MainShape(t)
    BY <2>3, <2>4 DEF Writes, MainShape
  <2> QED BY <2>1, <2>3, <2>4, <2>5, BeginCoherent DEF t
<1>8. CASE pi4io_reset
  <2>1. Chain(reset) /\ Resetting(reset) /\ reset[1].op = "masked"
    BY ResetList
  <2> HIDE DEF reset
  <2>2. ~First(reset, "send") /\ ~First(reset, "init_copies") /\ ~First(reset, "copy")
    BY <2>1 DEF First
  <2>3. Writes(reset, copies, regs) /\ MainShape(reset)
    BY <2>1, <2>2 DEF Writes, MainShape
  <2> QED BY <1>8, <2>1, <2>2, <2>3, BeginCoherent DEF pi4io_reset
<1>9. CASE RegisterCallbacks
  <2>1. UNCHANGED <<copies, regs, pointer, todo, data>>
    BY <1>9 DEF RegisterCallbacks
  <2>2. Main' = Main /\ Irq' = Irq /\ (ResetPending' <=> ResetPending) /\ (ResetSeen' <=> ResetSeen)
    BY <2>1 DEF Main, Irq, ResetPending, ResetSeen
  <2> QED BY <2>1, <2>2 DEF CoherentInv, Shapes, OneAtATime, Fresh, Synced, WritesKept
<1>10. CASE pi4io_irq_handler
  <2>1. /\ Irq = <<>> /\ Irq' = irq_handler /\ Main' = Main
        /\ UNCHANGED <<copies, regs, pointer, data>> /\ ~InReset
    BY <1>10 DEF pi4io_irq_handler, Idle, Irq, Main, Contexts, CoherentInv, TypeInv, TypeOK
  <2>2. Chain(irq_handler) /\ Handling(irq_handler) /\ irq_handler[1].op = "select"
    BY HandlerList
  <2> HIDE DEF irq_handler
  <2>3. ~Resetting(Main)
    <3>1. Main \in Seq(Steps) /\ Chain(Main)
      BY DEF CoherentInv, TypeInv, Shapes, Main, Contexts
    <3>2. ~Has(Main, "clear")
      <4>1. DOMAIN Main = 1..Len(Main)
        BY <3>1, LenProperties
      <4> QED BY <2>1, <4>1 DEF InReset, Has, Main
    <3> QED BY <3>1, <3>2, ResettingList
  <2>4. /\ ~First(irq_handler, "send") /\ ~First(irq_handler, "copy")
        /\ ~First(irq_handler, "init_copies") /\ ~First(irq_handler, "receive")
        /\ ~IdRead(irq_handler) /\ ~Writing(irq_handler)
    BY <2>2 DEF First, IdRead, Writing, WriteOps
  <2>5. ~ResetSeen /\ ~ResetSeen' /\ (ResetPending' <=> ResetPending)
    BY <2>1, <2>4, Nothing DEF ResetSeen, ResetPending
  <2>6. Shapes'
    BY <2>1, <2>2 DEF Shapes, IrqShape, CoherentInv
  <2>7. OneAtATime'
    BY <2>1, <2>2, <2>3, <2>4, <2>5 DEF OneAtATime, CoherentInv
  <2>8. Fresh'
    BY <2>1, <2>4, <2>5 DEF Fresh, CoherentInv
  <2>9. Synced'
    BY <2>1, <2>5, Nothing DEF Synced, CoherentInv
  <2>10. WritesKept'
    BY <2>1, <2>4 DEF WritesKept, Writes, CoherentInv
  <2> QED BY <2>6, <2>7, <2>8, <2>9, <2>10 DEF CoherentInv
<1> QED BY <1>3, <1>4, <1>5, <1>6, <1>7, <1>8, <1>9, <1>10 DEF Call

(* Inputs change at any time, and the expander resets between calls.       *)
LEMMA BoardCoherent ==
  ASSUME Usage = {}, CoherentInv, TypeInv', InputChanges \/ ExpanderResets
  PROVE  CoherentInv'
<1>1. UNCHANGED <<copies, todo, data>> /\ Main' = Main /\ Irq' = Irq
  BY DEF InputChanges, ExpanderResets, Main, Irq
<1>2. /\ DOMAIN regs = Registers /\ ID \in Registers /\ Config \subseteq Registers /\ ID \notin Config
      /\ {"INPUT_STATUS", "INTERRUPT_STATUS"} \cap (Config \cup {ID}) = {}
      /\ {"INPUT_STATUS", "INTERRUPT_STATUS"} \subseteq Registers
  BY DEF CoherentInv, TypeInv, TypeOK, ID, Config, Registers
<1>3. CASE InputChanges
  <2>1. PICK input, raised :
          regs' = [regs EXCEPT !["INPUT_STATUS"] = input, !["INTERRUPT_STATUS"] = raised]
    BY <1>3 DEF InputChanges
  <2> HIDE DEF Config, Registers, ID, Steps
  <2>2. \A r \in Config \cup {ID} : regs'[r] = regs[r]
    BY <1>2, <2>1
  <2>3. pointer' = pointer
    BY <1>3 DEF InputChanges
  <2>4. (ResetPending' <=> ResetPending) /\ (ResetSeen' <=> ResetSeen)
    BY <1>1, <2>2 DEF ResetPending, ResetSeen
  <2>5. ASSUME NEW x, Writes(x, copies, regs) PROVE Writes(x, copies', regs')
    <3>1. x[1].reg \in Config => (Outside(x[1], regs) => Outside(x[1], regs'))
      BY <2>2 DEF Outside
    <3> QED BY <1>1, <2>5, <3>1 DEF Writes
  <2>6. Shapes' /\ OneAtATime'
    BY <1>1, <2>3, <2>4 DEF Shapes, OneAtATime, CoherentInv
  <2>7. Fresh'
    BY <1>1, <2>2, <2>4 DEF Fresh, CoherentInv
  <2>8. Synced'
    BY <1>1, <2>2, <2>4 DEF Synced, CoherentInv
  <2>9. WritesKept'
    BY <1>1, <2>5 DEF WritesKept, CoherentInv
  <2> QED BY <2>6, <2>7, <2>8, <2>9 DEF CoherentInv
<1>4. CASE ExpanderResets
  <2>1. Main = <<>> /\ Irq = <<>> /\ regs' = AfterReset(regs)
    BY <1>4 DEF ExpanderResets, Quiet, Idle, Contexts, Main, Irq
  <2>2. ResetPending' /\ \A r \in Config : regs'[r] = ResetValue(r)
    BY <1>2, <2>1 DEF AfterReset, ResetPending
  <2> HIDE DEF Config, Registers, ID, Steps
  <2>3. ~ResetSeen'
    BY <1>1, <2>1, Nothing DEF ResetSeen
  <2>4. Shapes' /\ OneAtATime'
    BY <1>1, <2>1, <2>3, Nothing DEF Shapes, OneAtATime
  <2>5. Fresh' /\ Synced'
    BY <1>1, <2>1, <2>2 DEF Fresh, Synced
  <2>6. WritesKept'
    BY <1>1, <2>1, Nothing DEF WritesKept
  <2> QED BY <2>4, <2>5, <2>6 DEF CoherentInv
<1> QED BY <1>3, <1>4

(* The invariant holds when pi4io_init has begun.                          *)
LEMMA CoherentInit == Init => CoherentInv
<1> SUFFICES ASSUME Init PROVE CoherentInv
  OBVIOUS
<1> HIDE DEF reset
<1>1. Main = reset /\ Irq = <<>> /\ TypeInv
  BY TypeInit DEF Init, Main, Irq, Contexts
<1>2. Chain(reset) /\ Resetting(reset) /\ reset[1].op = "masked" /\ Has(reset, "init_copies")
  BY ResetList
<1>3. ~First(reset, "send") /\ ~First(reset, "init_copies") /\ ~First(reset, "copy")
  BY <1>2 DEF First
<1>4. ~ResetSeen
  BY <1>1, Nothing DEF ResetSeen
<1>5. \A r \in Config : regs[r] = ResetValue(r)
  <2>1. Config \subseteq Registers /\ ID \notin Config /\ "INPUT_STATUS" \notin Config
    BY DEF Config, Registers, ID
  <2> HIDE DEF Config, Registers, ID
  <2> QED BY <2>1 DEF Init, AfterReset
<1> HIDE DEF Config, Steps
<1>6. Shapes /\ OneAtATime /\ Fresh /\ Synced
  BY <1>1, <1>2, <1>3, <1>4, <1>5, Nothing DEF Shapes, MainShape, OneAtATime, Fresh, Synced
<1>7. WritesKept
  BY <1>1, <1>3, Nothing DEF WritesKept, Writes
<1> QED BY <1>1, <1>6, <1>7 DEF CoherentInv

(* Every step of the system keeps the invariant.                           *)
LEMMA CoherentNext ==
  ASSUME Usage = {}, Apart, CoherentInv, [Next]_vars
  PROVE  CoherentInv'
<1>1. TypeInv'
  BY TypeNext DEF CoherentInv
<1>2. CASE UNCHANGED vars
  <2>1. /\ UNCHANGED <<copies, regs, pointer, todo, data>> /\ Main' = Main /\ Irq' = Irq
        /\ (ResetPending' <=> ResetPending) /\ (ResetSeen' <=> ResetSeen)
    BY <1>2 DEF vars, Main, Irq, ResetPending, ResetSeen
  <2> HIDE DEF Config, Steps
  <2> QED BY <1>1, <2>1 DEF CoherentInv, Shapes, OneAtATime, Fresh, Synced, WritesKept
<1>3. ASSUME NEW c \in Contexts, Advance(c) PROVE CoherentInv'
  BY <1>1, <1>3, WriteCoherent, SelectCoherent, ReceiveCoherent, KeepCoherent, InitCopiesCoherent, ClearCoherent, ReadIrqsCoherent,
     PinIrqCoherent, ResetIntrCoherent, RstCallbackCoherent DEF Advance
<1> QED BY <1>1, <1>2, <1>3, CallCoherent, BoardCoherent DEF Next

(* Wherever the program's own code runs, with no risk taken, the copies    *)
(* are what the configuration registers hold, for every expander reset and *)
(* every interrupt between two steps of a call.                            *)
THEOREM CopiesCoherent == ASSUME Usage = {}, Apart PROVE Spec => []Coherent
<1>1. CoherentInv => Coherent
  <2> SUFFICES ASSUME CoherentInv, Quiet \/ InRstCallback, ~ResetPending, NEW r \in Config
               PROVE  copies[r] = regs[r]
    BY DEF Coherent
  <2>1. CASE Quiet
    <3>1. Main = <<>> /\ Irq = <<>>
      BY <2>1 DEF Quiet, Idle, Contexts, Main, Irq
    <3>2. ~ResetSeen
      BY <3>1, Nothing DEF ResetSeen
    <3> QED BY <3>1, <3>2, Nothing DEF CoherentInv, Synced
  <2>2. CASE InRstCallback
    <3> DEFINE t == todo["irq"]
    <3>1. t # <<>> /\ Head(t).op = "rst_callback" /\ t = Irq
      BY <2>2 DEF InRstCallback, Idle, Irq
    <3>2. t \in Seq(Steps) /\ Chain(t) /\ IrqShape(t)
      BY DEF CoherentInv, TypeInv, Shapes, Irq, Contexts
    <3> HIDE DEF Steps, t
    <3>3. t[1].op = "rst_callback" /\ Tail(t) = <<>> /\ Len(t) = 1
      <4>1. t[1].op = "rst_callback"
        BY <3>1, <3>2, Rest
      <4>2. Tail(t) = <<>>
        BY <3>1, <3>2, <4>1, Rest DEF Follows
      <4> QED BY <3>1, <3>2, <4>1, <4>2, Rest
    <3>4. Initialising(t) /\ ~Handling(t) /\ ~IdRead(t)
      <4> HIDE DEF ConfigWrites, MainWrites, ResetWrites, Config
      <4> QED BY <3>1, <3>2, <3>3, HeadSays, InitialisingList
    <3>5. Main = <<>> /\ ~ResetSeen
      BY <3>1, <3>4 DEF CoherentInv, OneAtATime, ResetSeen
    <3>6. ~Has(t, "init_copies") /\ ~Sending(t, r)
      <4>1. \A i \in 1..Len(t) : i = 1
        BY <3>3
      <4> QED BY <3>3, <4>1 DEF Has, Sending, First
    <3> QED BY <3>1, <3>5, <3>6, Nothing DEF CoherentInv, Synced
  <2> QED BY <2>1, <2>2
<1> QED BY <1>1, CoherentInit, CoherentNext, PTL DEF Spec

(* No write of a configuration register changes a bit outside its mask,    *)
(* with interrupts and expander resets between the steps that compute,     *)
(* store and send it.                                                      *)
THEOREM MasksRespected == ASSUME Usage = {}, Apart PROVE Spec => OnlySelectedBits
<1> DEFINE Selected ==
      \A c \in Contexts :
        ~Idle(c) /\ Send(c) =>
          LET s == Head(todo[c]) IN
          \A pin \in Pins \ s.mask :
            s.reg \in Config => (pin \in regs[s.reg] <=> pin \in regs'[s.reg])
<1>1. CoherentInv => Selected
  <2> SUFFICES ASSUME CoherentInv, NEW c \in Contexts, Send(c),
                      NEW pin \in Pins \ Head(todo[c]).mask, Head(todo[c]).reg \in Config
               PROVE  pin \in regs[Head(todo[c]).reg] <=> pin \in regs'[Head(todo[c]).reg]
    BY Zenon
  <2> DEFINE s == Head(todo[c])
  <2>1. At(c, "send")
    BY DEF Send
  <2>2. todo[c] # <<>> /\ todo[c] \in Seq(Steps) /\ Chain(todo[c]) /\ s.op = "send"
    BY <2>1 DEF At, CoherentInv, TypeInv, Shapes, Main, Irq, Contexts
  <2>3. s = todo[c][1]
    <3> HIDE DEF Steps
    <3> QED BY <2>2, Rest
  <2>4. Outside(s, regs)
    <3>1. Writes(todo[c], copies, regs)
      BY DEF CoherentInv, WritesKept, Main, Irq, Contexts
    <3> QED BY <2>2, <2>3, <3>1 DEF Writes, First
  <2>5. s.reg # ID /\ s.reg \in DOMAIN regs
    BY DEF Config, ID, Registers, CoherentInv, TypeInv, TypeOK
  <2>6. regs'[s.reg] = s.data
    BY <2>5 DEF Send
  <2> QED BY <2>4, <2>6 DEF Outside
<1>2. CoherentInv /\ CoherentInv' /\ [Next]_vars => [Selected]_vars
  BY <1>1
<1> QED BY <1>2, CoherentInit, CoherentNext, PTL DEF Spec, OnlySelectedBits
====
