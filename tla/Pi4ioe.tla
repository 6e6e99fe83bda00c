------------------------------- MODULE Pi4ioe -------------------------------
(***************************************************************************)
(* The PI4IOE5V6408 I/O expander driver (src/pi4ioe5v6408.c): a program    *)
(* that calls it, the interrupt handler that may cut into any call, and    *)
(* the expander behind the I2C bus, which may reset on its own.  A call is *)
(* a sequence of steps between which an interrupt can come: computing a    *)
(* value from the register copies, storing a copy, one I2C transfer.  A    *)
(* transfer that fails panics, and is left out.                            *)
(***************************************************************************)
EXTENDS Integers, Sequences

CONSTANTS
  NPins,            \* pins, and bits in a register: 8 in the expander
  Written,          \* the configuration registers the program writes
  CallbackWritten,  \* those its irq_callback writes
  Values,           \* what they write to them, through whatever mask
  Usage             \* what the program or the board does; a subset of Risks

Config == {"IO_DIRECTION", "OUTPUT_STATE", "OUTPUT_HIZ", "INPUT_DEFAULT_STATE",
           "PULL_UP_DOWN_EN", "PULL_UP_DOWN_SEL", "INTERRUPT_MASK"}
ID == "DEVICE_ID_AND_CONTROL"
Registers == Config \cup {ID, "INPUT_STATUS", "INTERRUPT_STATUS"}

Risks == {"reset_in_call",    \* the expander resets in the middle of a call,
          "late_handler",     \* or the program goes on before it is handled
          "reset_preempted",  \* the handler cuts into pi4io_reset
          "no_rst_callback",  \* no rst_callback is registered
          "stale_callback"}   \* irq_callback writes after a reset that the
                              \* handler, which called it, has yet to look for

ASSUME Pi4ioAssumption ==
  /\ NPins \in Nat /\ NPins >= 2
  /\ Written \cup CallbackWritten \subseteq Config
  /\ Values \subseteq SUBSET (0..(NPins - 1))
  /\ Usage \subseteq Risks

VARIABLES
  copies,   \* inst->reg_copies; those of the two status registers, which no
            \* code reads, are left out
  regs,     \* the expander's registers
  pointer,  \* the register it sends next, or "none"
  todo,     \* per context, the steps left of the call that is in progress
  data,     \* per context, what was read last
  enabled   \* the callbacks are registered and the interrupt enabled

vars == <<copies, regs, pointer, todo, data, enabled>>

Pins == 0..(NPins - 1)
Contexts == {"main", "irq"}

(* A register's value is the set of its bits that are 1.                   *)
Bits == SUBSET Pins
SOFTWARE_RESET_BIT == 0
RESET_INTERRUPT_BIT == 1

HiZForgotten == [r \in Config |-> {}]
InitialCopies ==
  [r \in Config |->
     IF r \in {"OUTPUT_HIZ", "PULL_UP_DOWN_EN"} THEN Pins ELSE {}]

NotMasked(old, mask, new) == new
Masked(old, mask, new) == (old \ mask) \cup (new \cap mask)

PinAfter(pin) == {pin + 1}
PinMask(pin) == {pin}
When(value, mask) == IF value THEN mask ELSE {}

---------------------------------------------------------------------------
(* What calls are made of                                                  *)

Idle(c) == todo[c] = <<>>
Quiet == \A c \in Contexts : Idle(c)

Step(op) == [op |-> op]

write_register_raw(r, mask, new) ==
  <<[op |-> "copy", reg |-> r, mask |-> mask, data |-> new],
    [op |-> "send", reg |-> r, mask |-> mask, data |-> new]>>

write_register_masked(r, mask, new) ==
  <<[op |-> "masked", reg |-> r, mask |-> mask, data |-> new]>>

write_register_bit(r, bit, value) ==
  write_register_masked(r, PinMask(bit), When(value, PinMask(bit)))

read_register_raw(r) ==
  <<[op |-> "select", reg |-> r], Step("receive"), [op |-> "keep", reg |-> r]>>

init_copies ==
  <<Step("init_copies")>> \o read_register_raw(ID)
    \o read_register_raw("INPUT_STATUS")
    \o read_register_raw("INTERRUPT_STATUS") \o <<Step("clear")>>

reset == write_register_bit(ID, SOFTWARE_RESET_BIT, TRUE) \o init_copies

irq_handler ==
  read_register_raw("INTERRUPT_STATUS") \o <<Step("irqs")>>
    \o read_register_raw(ID) \o <<Step("reset_intr")>>

---------------------------------------------------------------------------
(* The expander                                                            *)

(* What its registers hold after a reset, as the driver has it.            *)
ResetValue(r) == IF r \in {"OUTPUT_HIZ", "PULL_UP_DOWN_EN"} THEN Pins ELSE {}

AfterReset(r) ==
  [x \in Registers |->
     CASE x = ID -> {RESET_INTERRUPT_BIT}
       [] x = "INPUT_STATUS" -> r[x]
       [] OTHER -> ResetValue(x)]

(* Reading a status clears it.                                             *)
AfterReading(r) ==
  CASE r = "INTERRUPT_STATUS" -> [regs EXCEPT ![r] = {}]
    [] r = ID -> [regs EXCEPT ![r] = @ \ {RESET_INTERRUPT_BIT}]
    [] OTHER -> regs

ResetPending == RESET_INTERRUPT_BIT \in regs[ID]
Interrupting == ResetPending \/ regs["INTERRUPT_STATUS"] # {}

(* "When an input pin changes state from its default state, an interrupt   *)
(* is generated."                                                          *)
InputChanges ==
  \E pin \in Pins :
    LET input == IF pin \in regs["INPUT_STATUS"]
                 THEN regs["INPUT_STATUS"] \ {pin} ELSE regs["INPUT_STATUS"] \cup {pin}
        raises == /\ pin \notin regs["INTERRUPT_MASK"]
                  /\ (pin \in input) # (pin \in regs["INPUT_DEFAULT_STATE"])
    IN  /\ regs' = [regs EXCEPT !["INPUT_STATUS"] = input,
                                !["INTERRUPT_STATUS"] = @ \cup When(raises, {pin})]
        /\ UNCHANGED <<copies, pointer, todo, data, enabled>>

ExpanderResets ==
  /\ "reset_in_call" \in Usage \/ Quiet
  /\ regs' = AfterReset(regs)
  /\ pointer' = "none"
  /\ UNCHANGED <<copies, todo, data, enabled>>

---------------------------------------------------------------------------
(* Calls                                                                   *)

Begin(steps) ==
  /\ Quiet
  /\ "late_handler" \in Usage \/ ~ResetPending
  /\ todo' = [todo EXCEPT !["main"] = steps]
  /\ UNCHANGED <<copies, regs, pointer, data, enabled>>

WriteAll ==
  \E r \in Written, new \in Values : Begin(write_register_raw(r, Pins, new))

WriteMasked ==
  \E r \in Written, mask \in Bits, new \in Values :
    Begin(write_register_masked(r, mask, new))

WritePin ==
  \E r \in Written, pin \in Pins, value \in BOOLEAN :
    Begin(write_register_bit(r, pin, value))

(* pi4io_set_pin_pull and pi4io_set_pin_interrupt write two registers, one *)
(* after the other.                                                        *)
Pairs == {<<"PULL_UP_DOWN_EN", "PULL_UP_DOWN_SEL">>,
          <<"INTERRUPT_MASK", "INPUT_DEFAULT_STATE">>}

SetPinPair ==
  \E pair \in Pairs, pin \in Pins, first, second \in BOOLEAN :
    /\ {pair[1], pair[2]} \subseteq Written
    /\ Begin(write_register_bit(pair[1], pin, first)
             \o write_register_bit(pair[2], pin, second))

ReadStatus ==
  \E r \in {"INPUT_STATUS", "INTERRUPT_STATUS"} : Begin(read_register_raw(r))

pi4io_reset == Begin(reset)

RegisterCallbacks ==
  /\ Idle("main")
  /\ ~enabled
  /\ enabled' = TRUE
  /\ UNCHANGED <<copies, regs, pointer, todo, data>>

InReset == \E i \in DOMAIN todo["main"] : todo["main"][i].op = "clear"

pi4io_irq_handler ==
  /\ enabled
  /\ Idle("irq")
  /\ Interrupting
  /\ "reset_preempted" \in Usage \/ ~InReset
  /\ todo' = [todo EXCEPT !["irq"] = irq_handler]
  /\ UNCHANGED <<copies, regs, pointer, data, enabled>>

---------------------------------------------------------------------------
(* The steps                                                               *)

(* c is at a step op: the program waits for the handler to end.            *)
At(c, op) ==
  /\ todo[c] # <<>>
  /\ Head(todo[c]).op = op
  /\ c = "main" => Idle("irq")

GoOn(c, steps) == todo' = [todo EXCEPT ![c] = steps \o Tail(@)]

ComputeMasked(c) ==
  LET s == Head(todo[c]) IN
  /\ At(c, "masked")
  /\ GoOn(c, write_register_raw(s.reg, s.mask,
                                Masked(copies[s.reg], s.mask, s.data)))
  /\ UNCHANGED <<copies, regs, pointer, data, enabled>>

StoreCopy(c) ==
  LET s == Head(todo[c]) IN
  /\ At(c, "copy")
  /\ copies' = [copies EXCEPT ![s.reg] = s.data]
  /\ GoOn(c, <<>>)
  /\ UNCHANGED <<regs, pointer, data, enabled>>

Send(c) ==
  LET s == Head(todo[c]) IN
  /\ At(c, "send")
  /\ regs' = IF s.reg = ID
             THEN IF SOFTWARE_RESET_BIT \in s.data THEN AfterReset(regs) ELSE regs
             ELSE [regs EXCEPT ![s.reg] = s.data]
  /\ pointer' = "none"
  /\ GoOn(c, <<>>)
  /\ UNCHANGED <<copies, data, enabled>>

Select(c) ==
  /\ At(c, "select")
  /\ pointer' = Head(todo[c]).reg
  /\ GoOn(c, <<>>)
  /\ UNCHANGED <<copies, regs, data, enabled>>

(* When another transfer or a reset came between the two of a read, the    *)
(* expander sends anything.                                                *)
Receive(c) ==
  /\ At(c, "receive")
  /\ data' \in IF pointer = "none" THEN {[data EXCEPT ![c] = b] : b \in Bits}
               ELSE {[data EXCEPT ![c] = regs[pointer]]}
  /\ regs' = AfterReading(pointer)
  /\ pointer' = "none"
  /\ GoOn(c, <<>>)
  /\ UNCHANGED <<copies, enabled>>

(* The data stays around only where the caller looks at it.                *)
Keep(c) ==
  LET s == Head(todo[c]) IN
  /\ At(c, "keep")
  /\ copies' = IF s.reg = ID THEN [copies EXCEPT ![ID] = data[c]] ELSE copies
  /\ data' = IF Len(todo[c]) > 1 /\ todo[c][2].op \in {"irqs", "reset_intr"}
             THEN data ELSE [data EXCEPT ![c] = {}]
  /\ GoOn(c, <<>>)
  /\ UNCHANGED <<regs, pointer, enabled>>

InitCopies(c) ==
  /\ At(c, "init_copies")
  /\ copies' = [r \in DOMAIN copies |->
                  IF r \in Config THEN InitialCopies[r] ELSE copies[r]]
  /\ GoOn(c, <<>>)
  /\ UNCHANGED <<regs, pointer, data, enabled>>

(* The mask PI4IO_RESET_INTERRUPT_BIT, 0x1, is that of the other bit.      *)
ClearResetInterrupt(c) ==
  /\ At(c, "clear")
  /\ copies' = [copies EXCEPT ![ID] = @ \ {SOFTWARE_RESET_BIT}]
  /\ GoOn(c, <<>>)
  /\ UNCHANGED <<regs, pointer, data, enabled>>

(* The loop over the pins, from the first on.                              *)
ReadIrqs(c) ==
  /\ At(c, "irqs")
  /\ GoOn(c, <<[op |-> "pin", pin |-> 0, irqs |-> data[c]]>>)
  /\ data' = [data EXCEPT ![c] = {}]
  /\ UNCHANGED <<copies, regs, pointer, enabled>>

(* What a callback of the program may call: it writes the first bit of one *)
(* of registers.                                                           *)
CallbackWrites(registers) ==
  {<<>>} \cup {write_register_masked(r, PinMask(0), new) : r \in registers, new \in Values}

(* "irqs >> 1;" changes nothing.                                           *)
Shifted(irqs) == irqs

CallsBack(s) == s.op = "pin" /\ 0 \in s.irqs

PinIrq(c) ==
  LET s == Head(todo[c])
      next == IF s.irqs # {} /\ s.pin + 1 < NPins
              THEN <<[s EXCEPT !.pin = s.pin + 1, !.irqs = Shifted(s.irqs)]>>
              ELSE <<>>
  IN
  /\ At(c, "pin")
  /\ \E writes \in IF CallsBack(s) /\ ("stale_callback" \in Usage \/ ~ResetPending)
                   THEN CallbackWrites(CallbackWritten) ELSE {<<>>} :
       GoOn(c, writes \o next)
  /\ UNCHANGED <<copies, regs, pointer, data, enabled>>

SaysSoftwareReset(control) == SOFTWARE_RESET_BIT \in control
SaysReset(control) == RESET_INTERRUPT_BIT \in control

ResetIntr(c) ==
  /\ At(c, "reset_intr")
  /\ GoOn(c, IF SaysReset(data[c]) /\ "no_rst_callback" \notin Usage
             THEN init_copies \o <<Step("rst_callback")>> ELSE <<>>)
  /\ data' = [data EXCEPT ![c] = {}]
  /\ UNCHANGED <<copies, regs, pointer, enabled>>

RstCallback(c) ==
  /\ At(c, "rst_callback")
  /\ \E writes \in CallbackWrites(Written \cup CallbackWritten) : GoOn(c, writes)
  /\ UNCHANGED <<copies, regs, pointer, data, enabled>>

---------------------------------------------------------------------------
(* pi4io_init has begun: the copies hold anything, no callback is          *)
(* registered, and the expander, whatever its registers hold, is reset.    *)
Init ==
  /\ \E any \in Bits : copies = [r \in Config \cup {ID} |-> any]
  /\ regs = AfterReset([r \in Registers |-> {}])
  /\ pointer = "none"
  /\ todo = [c \in Contexts |-> IF c = "main" THEN reset ELSE <<>>]
  /\ data = [c \in Contexts |-> {}]
  /\ enabled = FALSE

Call ==
  \/ WriteAll
  \/ WriteMasked
  \/ WritePin
  \/ SetPinPair
  \/ ReadStatus
  \/ pi4io_reset
  \/ RegisterCallbacks
  \/ pi4io_irq_handler

Advance(c) ==
  \/ ComputeMasked(c)
  \/ StoreCopy(c)
  \/ Send(c)
  \/ Select(c)
  \/ Receive(c)
  \/ Keep(c)
  \/ InitCopies(c)
  \/ ClearResetInterrupt(c)
  \/ ReadIrqs(c)
  \/ PinIrq(c)
  \/ ResetIntr(c)
  \/ RstCallback(c)

Next ==
  \/ Call
  \/ \E c \in Contexts : Advance(c)
  \/ InputChanges
  \/ ExpanderResets

Spec == Init /\ [][Next]_vars

(* A pending interrupt is taken, and a call that has begun goes on; what   *)
(* the program calls is its own affair.                                    *)
FairSpec == Spec /\ WF_vars(pi4io_irq_handler) /\ \A c \in Contexts : WF_vars(Advance(c))
---------------------------------------------------------------------------
(* Properties                                                              *)

TypeOK ==
  /\ copies \in [Config \cup {ID} -> Bits]
  /\ regs \in [Registers -> Bits]
  /\ pointer \in Registers \cup {"none"}
  /\ DOMAIN todo = Contexts
  /\ data \in [Contexts -> Bits]
  /\ enabled \in BOOLEAN

InRstCallback == ~Idle("irq") /\ Head(todo["irq"]).op = "rst_callback"

(* Whenever the program's own code runs - between calls, or in one of its  *)
(* callbacks - the copies are what the configuration registers hold,       *)
(* unless the expander has reset and the handler has yet to see it.        *)
Coherent ==
  Quiet \/ InRstCallback
    => ResetPending \/ \A r \in Config : copies[r] = regs[r]

(* A write changes the bits it is asked to change and no other: "Write     *)
(* select bits to a register using a mask".                                *)
OnlySelectedBits ==
  [][\A c \in Contexts :
       ~Idle(c) /\ Send(c) =>
         LET s == Head(todo[c]) IN
         \A pin \in Pins \ s.mask :
           s.reg \in Config => (pin \in regs[s.reg] <=> pin \in regs'[s.reg])]_vars

(* A program that registered its callbacks is told when the expander has   *)
(* reset on its own, however many pin interrupts come with it: the handler *)
(* gets to rst_callback.                                                   *)
ResetIsNoticed == Quiet /\ enabled /\ ResetPending ~> InRstCallback
=============================================================================
