# Verification of rp2_ext_peri_util_lib

TLA+ modules, TLC configurations and TLAPS proofs for the C library in `src/`: drivers for external peripherals of RP2
microcontrollers (an EEPROM, an I/O expander, an ADC, two DACs) and utilities (a structure kept in external memory, serial
line input, fan control). The library has no tests; its headers carry the documentation. There is no operating system: a
program calls the library, interrupts cut into it, and a reset can end it at any instruction.

## 1. The system

| Component | State | Operations | Interacts through | Hard behaviour |
|---|---|---|---|---|
| `at24cs0x` (EEPROM) | instance: `current_address`, `write_in_progress`, `last_write_time`, size; the EEPROM: array, address counter, write cycle | init, check, read (current, single, many), write (single, many), erase | I2C; busy EEPROM answers nothing; time | write cycle against clock, ACK polls, page and 8-bit wrap-around, partial acknowledge, reset during a cycle |
| `nv_struct` | struct cached in RAM with header (CRC32, version, size); the external memory | init, writeback, read, compute CRC | two interface functions (the EEPROM driver), two callbacks, the DMA sniffer | reset inside a writeback, a new program version on old memory, partial writebacks |
| `serial_io_utils` | buffer: data, size, index; settings | blocking and non-blocking line reader | stdio, callbacks | end of the buffer, lines over several calls, editing |
| `pi4ioe5v6408` (I/O expander) | copies of ten registers, two callbacks; the expander's registers | raw, masked and bit writes, reads, reset, interrupt handler | I2C; GPIO interrupt; callbacks | handler cutting into a call, expander resetting on its own, copies going stale |
| `ads7042` (ADC) + PIO program | instance: interface, state; PIO or SPI queues | init (two kinds), calibrate, request, get, get blocking | PIO state machine or SPI block | queue limits, calibration against outstanding requests, frame length |
| `dac121s101`, `dac081c08x` (DACs) | copies of data and power-down state | init, write, power down | SPI block shared with the ADC; I2C | copy against DAC, format of a shared SPI block |
| `fan_control` | claims of PWM channels, speed, curve | init with or without a tachometer, set speed (manual, curve) | PWM slices | limits of the speed, claims of a shared slice |

Build and documentation files (`CMakeLists.txt`, `Doxyfile`, `README.md`) have no behaviour.

What makes each component correct, in a sentence: the EEPROM driver never addresses a busy EEPROM, knows its address counter,
and stores exactly what it says it stored; `nv_struct` accepts only what was written as a whole; the line readers stay in
their buffer and return the line the user typed; the expander's copies are its registers and a write changes what it names;
a conversion requested is a conversion delivered; a DAC's copy is its state; a fan gets the speed asked for, within its
limits.

## 2. Modules, plan and order

| Module | Models | State |
|---|---|---|
| `At24cs0x` | `at24cs0x.c` without erase, with the EEPROM, time and resets | checked, proofs in `At24cs0xProofs` |
| `At24Erase` | `at24cs0x_erase` with each of its methods, on top of `At24cs0x` | checked, proofs in `At24EraseProofs` |
| `LinearStore` | the promise of `at24cs0x.h` to a client: a ring of bytes | abstract specification |
| `At24cs0xStore` | refinement mapping `At24cs0x` → `LinearStore` | checked, proof in `At24cs0xProofs` |
| `NvStruct` | `nv_struct.c`, its application and resets | checked, proofs in `NvStructProofs` |
| `SerialLine` | `serial_io_utils.c` and a user | checked, proofs in `SerialLineProofs` |
| `Pi4ioe` | `pi4ioe5v6408.c`, handler, expander | checked, proofs in `Pi4ioeProofs` |
| `SpiBlocks` | the word length of the two SPI blocks and the PIO state machine, shared by the two below | used by them |
| `Ads7042` | `ads7042.c`, its PIO program or the SPI block, the ADC | checked in `Peripherals`, proofs in `Ads7042Proofs` |
| `Dac121s101`, `Dac081c08x` | `dac121s101.c`, `dac081c08x.c` and their DACs | checked in `Peripherals`, proofs in `PeripheralsProofs` |
| `FanControl` | `fan_control.c` and the PWM slices | checked in `Peripherals`, proofs in `FanControlProofs` |
| `Peripherals` | a program with some of these four: the composition, and its fairness | checked, theorems in `PeripheralsProofs` |
| `MC_*` | instances for TLC | – |

The order was: the EEPROM driver with its abstract specification, the struct that is kept in it, the line readers, the
expander, then the converters and fans. Every source file with behaviour has its module now. Left:
`NvStruct` on top of `LinearStore` instead of a memory of its own with the same promise.

Every module keeps its parameters as CONSTANTS under a named assumption and has no RECURSIVE operator.

## 3. Module by module

### At24cs0x

A call is split where time can pass or the bus can fail. `pc` is `"check"` (the loop around
`at24cs0x_check_write_in_progress`), `"transfer"` (the I2C transfer, after which a failing call returns), `"stamp"` (between
the end of the transfer and `last_write_time = get_absolute_time()`), `"idle"` or `"down"` (before a successful init).
`call` holds the arguments; `addr` and `data` advance as `addr`, `i` and `remains` do in the loop of `at24cs0x_write_bytes`.

- `last_write_time` is only ever compared with the clock, so its age is kept, up to one tick past the longest write cycle.
  `StaticInst = FALSE` lets an instance start with any age, even one in the future: `at24cs0x_init` does not set it.
- The EEPROM is modelled as the driver relies on it: it takes addresses modulo its size, wraps writes in the page and reads
  in the array, starts a write cycle of 1 to `MaxCycle` ticks after a write, and answers nothing during it. The array keeps
  `mem`, across resets of the microcontroller too.
- `Faults` says what can go wrong: `noack` (an address byte is refused), `short` (a data byte is), `abort` (another error).
- After a microcontroller reset only `at24cs0x_init` runs until it succeeds, so what else the fresh instance holds is fixed.

Abstracted: bytes are model values, `AddrSpace` stands for 256, the serial number is left out.

### At24Erase

`erase` is the loop of `at24cs0x_erase`: the method of the build, `i`, whether the block at `i` is being read, and the cells
of it that are still to be blanked. Its reads and writes are calls of `At24cs0x`, step by step, with their faults and resets.
The size is in bits, so that the loop goes over the array eight times and passes `i` cut to 8 bits. With
`AT24CS0X_ERASE_BUFFERED` the function ends without a `return`, and either result is allowed. Lengths are cut to the `uint8_t` of the
driver's functions too. An erase buffer of 256 bytes, as large as an AT24CS02, is therefore read with length 0, which
succeeds and leaves the buffer as it was on the stack: `ScanBlock` then takes any of its bytes to be blank or not. A run of all
256 is written with length 0, and the function says PICO_OK of an array it did not erase; with `BufferSize = AddrSpace` TLC
finds `ErasedIsBlank` violated. The default of 64, and any buffer below 256, is not affected.

The comment in `at24cs0x.c:199` says that the bytewise method "does not work for unknown reasons" and names no symptom. In the
model it blanks the array as the others do, against an EEPROM that behaves as section 3 says: nothing in the
library's code accounts for the comment, and a cause outside it (bus, part, time it takes) is not modelled.

### LinearStore, At24cs0xStore

`LinearStore` knows no pages, busy times or address counters. A write is stored in pieces from its first byte on, returns ok
when all of it is, and has stored a prefix when it fails or is interrupted. The mapping takes the array for the store and the
rest of the call's data, less the frame whose stamp is still to come, for the request.

### NvStruct

The struct is a row of cells, written one by one so that a reset can come between any two: this is what `LinearStore`
promises of an interrupted EEPROM write. The checksum is represented by the sequence of cells it covers, so that two
different structs never share one; a checksum stored in part is no struct's. `Firmwares` are program versions; a reset may start
another of them (an update). The version callback's two answers are both allowed, and what the callbacks do to the memory is
ordinary calls of the program afterwards. `dirty`, `survivors` and `durable` are history: cells not written back, structs a
reset is allowed to leave, programs that must find theirs.

The interface functions return nothing: `WriteFails` is a transfer of the checksum or of the data that stores a prefix and that
the writeback does not notice. `MaxFailing` bounds how many structs may be left behind when it happens. Among them are then
the structs of writebacks the program believes in, but still no mixture of two.

### SerialLine

`parse_character` is an operator on one key; keys are classes that the code treats alike. The buffer is a function that also
has the byte before and two bytes after it, so that a write outside shows. `Overlong` names the readers during which the user
may type more than fits; while another one reads nothing is typed that does not fit, which after an overflow of the blocking
reader is nothing at all, until the next blocking call. `ReadKey` is also bounded by `index <= BufferSize`, beyond which a
write is outside anyway. `seen` is history: the line as its user sees it after the keys so far, backspaces applied, which starts
anew when a line begins. It is no longer than what the buffer holds, so that lines of any number of keys are covered without
a bound on them.

### Pi4ioe

A call is a sequence of steps, in `todo`, for each of two contexts: the program and the interrupt handler, which runs to its
end when it has cut in. Steps are the points at which an interrupt matters: computing a masked value from the copy, storing
the copy, one I2C transfer. A register value is a set of bits. The registers of `Written` are those the program writes and
`CallbackWritten` those `irq_callback` writes, from within the handler and so between any two steps of a call; `Values` is what both
write, through every mask. All seven configuration registers have copies, are reset, and are compared. A read is two
transfers; if something came between them the expander's answer is arbitrary. Interrupts are raised when an input changes, as `pi4ioe5v6408.h:245` has it, and by
a reset of the expander.

The statement `irqs >> 1;` (`pi4ioe5v6408.c:253`) has no effect, so that an interrupt of pin 0 calls back for every pin and one of
any other pin for none, where `pi4ioe5v6408.h:49` promises the "Number of the pin that generated the interrupt". `Shifted` models it;
which pin a callback is told is not, because the callbacks of the model do not look at it.

`Usage` names the risks a program or a board may take. The passing run takes none; with any single one of them TLC finds `Coherent`
violated, and with all but the last `OnlySelectedBits` too, so the list is what a program has to observe:

| Risk | What goes wrong |
|---|---|
| `reset_in_call` | the expander resets between the copy and the transfer of a write; handler and program disagree about what was written |
| `late_handler` | a masked write after an expander reset, before the handler, is made from copies of lost registers |
| `reset_preempted` | the handler sees the reset of `pi4io_reset`, `rst_callback` writes registers, and `pi4io_reset` then sets the copies back |
| `no_rst_callback` | the handler consumes the reset flag and leaves the copies as they were |
| `stale_callback` | `irq_callback`, which the handler calls before it looks for a reset, writes after one: the copies are then set back and the register is not |

The first cannot be avoided by a program, only made unlikely, and the last only by an `irq_callback` that writes nothing: it is not
told of the reset. A sixth condition is in the constants: program and `irq_callback` write different registers. If they share
one, the call that was interrupted undoes the callback's write (run `pi4io_callback`).

### SpiBlocks, Ads7042

The interface runs beside the program. It takes a request from the transmit FIFO (`Pull`), clocks a word out of the ADC and
puts it in the receive FIFO (`Push`), and raises CSn, which the PIO program does in an instruction of its own
(`RaiseCsn`). On a full receive FIFO the PIO stalls and the SPI block drops the word. A call that can block is a sequence of
steps in `todo`, and other calls wait for it. What a conversion measures does not matter; each word in `rx` says whether it
is a conversion of its own request: CSn fell for it, and the frame had 14 clocks. `clocks` since CSn fell and `adc` say
whether the ADC has calibrated itself. `owed` counts the results the program has asked for and not got.

`AdsUsage` names risks of a program or a board. The passing run takes none; TLC finds with one at a time:

| Risk | What goes wrong | Found by |
|---|---|---|
| `uncalibrated_pio` | `pio_sm_set_pins_with_mask(pio, sm, 1, 1 << csn_pin)` drives CSn low unless it is pin 0: the first frame has no falling edge of its own | `WholeResults` |
| `cal_outstanding` | a calibration with results outstanding clears the PIO's FIFOs, or takes a result of the SPI block for its dummy | `NothingLost`, `WholeResults`, `CalibratedIsTrue`, `AdsCallsReturn` |
| `backlog` | more reads than the interface holds: the SPI block drops results, a blocking start on the PIO waits for a get after it | `NothingLost`, `AdsCallsReturn` |
| `slow_clock` | the program has the dummy word and restarts the PIO before it has raised CSn: the next result is cut from the calibration's frame | `WholeResults` |
| `unzeroed` | `ads7042_init_hw_spi` does not set `state`: an ADC that never was calibrated counts as `ADS7042_STATE_CAL`, or is calibrated with the wrong number of clocks | `CalibratedIsTrue` |

### Dac121s101, Dac081c08x

Each is a copy of data and power-down state, and a DAC that takes a frame apart again. Frames are computed, with the masks
and widths of the code. `dac121s101_init_hw_spi` sets the format of `spi1` whichever block it was given; with the DAC on
`spi0` and the ADC on `spi1` TLC finds `WholeResults` violated by a 16-bit result. A transfer of `Dac081c08x` may fail and
nobody looks; `delivered` says that the last one arrived. Its power-down bits are shifted to their place in the first byte and
then masked with the mask of the 16-bit frame, so that none is left: a call that powers the DAC down powers it up (`dac081_power_down`).

### FanControl

`fan_init` is one action with its assertions as a guard (`Asserts`; without them, as with NDEBUG, TLC finds
`RunsAtItsSpeed` and `TachoAlone` violated). `mode` and `level` are the PWM slices, `fans` the instances. A speed on a curve is the
rounded point of the line, either neighbour when it is at a half, because the slope is a rounded float. The conversion of a
NaN, which `input == NAN` never catches, or of a slope of a falling or widthless curve, is undefined and gives any value; such
inputs and curves are excluded from the passing run, as are curves that exceed `MAX_FAN_SPEED_VALUE`, which only
`fan_set_speed_man` clamps to. With any of them TLC finds `SpeedInRange` violated.

### Peripherals

`program` is the set of drivers in use. The two SPI converters share `format` and are used side by side; the I2C DAC and
the fans touch nothing of the others', and are programs of their own. The program is one thread: it makes a call when no other is in
progress, while the ADC's interface works on.

## 4. Runs

| Run | Question | Result |
|---|---|---|
| `at24_driver` | all calls, faults, resets, unzeroed instance: busy EEPROM never addressed, address copy right, calls return | holds |
| `at24_store` | driver and EEPROM, erase included, implement `LinearStore`, unless a data byte is refused; an erased array is blank | holds, erase buffer smaller than the address space |
| `at24_write_address` | `current_address` after `at24cs0x_write_bytes` | violated: `len` added twice (`at24cs0x.c:189`) |
| `at24_short_write` | PICO_OK means stored, when data bytes may be refused | violated: a short frame passes (`at24cs0x.c:179`) |
| `nv_crash` | what init accepts after a reset anywhere, or after writes that failed unnoticed, is one struct, and the right one | holds |
| `nv_written` | after a writeback the checksum fits the memory | violated: the checksum covers fields that were not written (`nv_struct.c:47`) |
| `serial_line` | readers stay in the buffer and return the edited line | holds, overlong lines with the blocking reader only and no CR in front of the buffer |
| `serial_overlong` | the non-blocking reader stays in the buffer | violated: the loop ignores the overflow (`serial_io_utils.c:225`) |
| `pi4io_coherent` | copies are the registers, a write changes what it names, under preemption by a handler that writes and under expander resets; the program is told of every reset | holds without the risks above |
| `pi4io_callback` | a write changes what it names, when `irq_callback` writes the program's registers | violated: the interrupted write sends what it computed before (`pi4ioe5v6408.c:78`) |
| `peripherals` | conversions are neither lost nor cut, calls return, DACs hold what was written, fans run at their speed and within limits | holds without the risks of section 3 |
| `dac081_power_down` | the DAC081C08x is in the power-down state asked for, when the transfer arrived | violated: the mask leaves no power-down bits (`dac081c08x.c:7`) |

The violated runs are what the code does against what its documentation says; PROJECT.json has them as findings.

### Bounds, and why they are enough

- EEPROM: an array of 4 in an address space of 8, pages of 2. There are two pages and two images of the array in the
  address space, so page ends, array end and 8-bit wrap-around are all different, and a client's write of 2 or 3
  bytes from any address needs one or two frames; the erase of a whole array, with runs of up to 4, needs more.
  Write cycles of 1 or 2 ticks differ in whether an ACK poll or the elapsed time
  ends the wait. `at24_store` has two byte values, one of which is the blank one; `at24_driver`, whose properties do not
  look at bytes, has one. Its erase buffer is the array, its page half of it, so that the methods go over
  it in 4, 2 and 1 rounds, eight times, six of which are past the 8-bit address.
- `nv_struct`: one and two data cells, two values, two programs that differ in size only. A writeback may start and end at
  any cell, so a reset can come before, inside and after each of its parts, and a partial write is the rule. Three programs
  exceed what TLC does in minutes.
- Serial: a buffer of 5 holds three characters and a line end, and lines have any number of keys: they fill it, edit back to the
  start and overflow it, and every line end and control key can come at every index. The overflow of the non-blocking reader
  needs no more than a buffer of 4.
- Expander: two pins, because the two bits of the control register need two and because a pin named and a pin not named is
  what a mask is about; two of the seven configuration registers are written, those `pi4io_set_pin_interrupt` writes, which
  also decide what interrupts; the callback writes a third, OUTPUT_STATE. Only bit 0 is set through a mask, as the value {0} under every
  mask; pin calls set and clear both. Pairs of calls, a handler and a reset at every step are exhausted.
- Converters: the FIFOs have their real depths, 4 and 8, and up to what they hold is outstanding (9 on the PIO: both FIFOs and
  the word being clocked), so that full, stalled and empty FIFOs all occur. DAC values are on both sides of the bit at
  which a frame is split, and of the 12 bits the DAC has.
- Fans: two fans on two slices, which may share a slice, or one have a tachometer on the other; a maximum speed of 4 with a curve from 1 to 4
  and inputs below, at and between its ends, at a half and past them; a minimum below and inside the curve.

### Fairness

`CallsReturn` (EEPROM): `FairSpec` assumes that a call that was made is executed (`WF(Driver)`:
the code runs straight on) and that time passes (`WF(Tick)`). It assumes nothing of the client, of resets, or of ACK polls:
an EEPROM that is gone never answers one, so that it is the clock that ends the loop of `at24cs0x_check_write_in_progress`. `CallsReturn`
leaves out an instance whose `last_write_time` began in the future: such a loop may last for ever, see the hazards.

`ResetIsNoticed` (expander): `FairSpec` of `Pi4ioe` assumes that an interrupt which stays pending is taken (`WF` of the handler)
and that a call that has begun goes on (`WF` of each context's step).

`AdsCallsReturn` (ADC): `Peripherals` assumes that the interface, which is clocked hardware, goes on while it can (`WF(AdsWorks)`)
and that a blocking loop looks again and finds what has become true (`WF(AdsContinues)`). That the program ever makes a
call is assumed nowhere.

### Mutations

PROJECT.json names, for each property of a passing run, a plausible mistake in the code (a forgotten time stamp, a frame that
ignores pages, a checksum that misses the last byte, a backspace without its test, an off-by-one at the end of the buffer, ...)
with which TLC finds that property violated. The mistakes are operators beside the definition they replace, used nowhere else.

## 5. Proofs

`At24cs0xProofs` proves, for all values of the constants under `At24Assumption` (sizes positive, array a whole number of
pages and dividing the address space, buffers shorter than the address space):

- `TypeCorrect`: `Spec => []TypeOK`.
- `NeverBusy`: `Spec => []NeverAddressesBusyDevice`: no read or write is put on the bus while the EEPROM is in a write cycle.

`NeverAddressesBusyDevice` is not inductive: that a transfer may start is concluded earlier, from the flag, the clock or an
ACK poll. `BusyIsKnown` says what each conclusion rests on: a cleared flag means the cycle is over; a running cycle will
be over before the age of the stamp exceeds the limit (`elapsed + cycleLeft <= MaxCycle`), except between transfer and
stamp, where the flag is up; and no call gets to its transfer with the flag up. `IInv == TypeOK /\ BusyIsKnown` holds
initially, after every step (one proof step per action), and implies both properties. The lemmas before it bound the page, array
and 8-bit arithmetic. A fresh instance after a reset during a cycle is covered because init has to be acknowledged first.

- `AddressIsTracked`: `Spec => []AddressTracked`. Added to `IInv`, `Tracks` says where the counter of the EEPROM is while a
  single byte that has been sent waits for its time stamp (on the byte's page, one further), and that it is one byte. That the
  ACK polls in between leave counter and copy on the same cell is the step that matters: the poll sends the copy.

The same module proves the refinement: `StoreIsImplemented`, `Spec => ImplementsStore`, for all of these constants, if
`"short" \notin Faults`; with refused data bytes TLC finds it violated (`at24_short_write`). The initial state maps to the initial
state, and each action to a step of `LinearStore` or a stutter: `CallShape` says what the arguments of a call are at each
of its steps (what is left of the data, and that it is a write's), `IInv` that the addresses are in range. The lemmas in the middle are
about one frame: it ends with its page, no two of its bytes land on the same cell, and byte `k` lands where the linear ring has it,
which is what makes frame, page wrap-around and 8-bit address agree with a ring that knows none of them.

`At24EraseProofs` proves about `at24cs0x_erase`, also under `EraseAssumption` (the erase buffer divides the array), for every
content of the memory and every set of methods, the second and third under `BlocksFit` (blocks smaller than the address space: not the
256 bytes of an AT24CS02, which the code reads with length 0):

- `EraseTypes`: `EraseSpec => []EraseTypeOK`.
- `EraseBlanks`: `EraseSpec => []ErasedIsBlank`, and `EraseImplementsStore`: `EraseSpec => ImplementsStore`, if `"short" \notin Faults`.

The refinement does the work: while a call of the loop is executed its steps are pieces stored, a success or a failure of
`LinearStore`, so that the invariant needs neither frames nor time. `LoopInv` says that the read of a block delivers that block
(`ReadsItsBlock`), which keeps what is left to write inside it. `BlankInv` says that only blanks are asked to be written
(`WritesBlanks`), that a byte of the block not left to write is blank or will be when the call under way has returned PICO_OK
(`BlockBlanked`), and that the blocks behind are blank (`BlankBehind`). At the end they are the whole array. That the function's runs
are intervals, so that one write covers one, is `FirstRunIsInterval`. TLC finds `LoopInv` and `BlankInv` to hold on the
instance of `at24_store`.

`NvStructProofs` proves for every set of programs, of which one has the largest struct, every set of values and every bound on
failing writes:

- `TypesKept`: `Spec => []TypeOK`.
- `WritebackIsAtomic`: `Spec => CrashAtomic`. The inductive invariant `NvInv` says where the struct is at each moment: a cell that is
  not dirty is in memory (`CleanIsStored`); once a writeback has got past the checksum, this is the one of the struct in RAM
  (`ChecksumFirst`); a checksum in memory that is some struct's is one of a struct a reset may leave (`ChecksumSurvives`); a
  durable program's struct is there, with its checksum (`DurableIsStored`). An accepted struct is the one its checksum was computed
  over, so the third settles safety and the fourth acceptance.

`SerialLineProofs` proves for every buffer size and lines of any length, if overlong lines are typed for the blocking reader
only (`BlockingOverlong`):

- `LineTypes`, `LinesDelivered`: `[]TypeOK`, `[]ReturnsEditedLine`.
- `NothingOutside`: `[](WritesStayInside \/ StrippedBefore)`. `StrippedBefore` is the one write outside that the blocking reader
  makes: an empty line with `strip_crlf_ending` finds a CR in front of the buffer and clears it (`serial_io_utils.c:85`). The byte
  there is arbitrary in a program, so the theorem is about any `ByteBefore`; the run takes one that is no CR.

These hold only together: what a line end may overwrite depends on `index`, and `index` on the line typed. `LineInv` joins to them
that the buffer holds the line so far (`BufferHoldsLine`), that the blocking reader has room for one more key (`RoomToRead`) and that
what surrounds the buffer is as it was, but for that byte (`OnlyByteBefore`).

- `OutsideInTwoWays`: `[][OutsideWrite]_vars`, with no condition at all: a step that writes outside is the end of an empty stripped line, in
  front of the buffer, or a key of the non-blocking reader with the buffer full, behind it (`serial_overlong`).

`Pi4ioeProofs` proves for every number of pins:

- `TypesKept`: `Spec => []TypeOK`, for every `Usage`.
- `CopiesCoherent`: `Spec => []Coherent`, if `Usage = {}` and `Apart`.
- `MasksRespected`: `Spec => OnlySelectedBits`, if `Usage = {}` and `Apart`.

`Apart` says that the handler's callback and the program write different registers (`CallbackWritten \cap Written = {}`). The handler's
masked writes still land between any two steps of the program's; what has to be shown is that they leave the value the program has
computed, its copy and its register alone, and the other way round (`Beside`, `WriteCoherent`). Without it the second is violated.

Both hold between and inside calls that interleave, so the invariant is about lists of steps. `Shapes` says what
the lists of program and handler look like, step by step (`Follows`): nothing is sent that was not copied just before. `OneAtATime`
says who can be at work at once: only the handler cuts in, never into `pi4io_reset`, and while a reset is pending nobody
else begins and no callback writes. `Fresh` and `Synced` say which copies may differ from the registers: none, except between a reset and
`init_copies`, and the registers whose transfers are next, at most one of the program and one of the handler. `WritesKept`
says that a value computed from a copy still agrees, outside its mask, with that copy and, at the transfer, with the register. `CoherentInv` is their conjunction with the types. It was
checked by TLC on the instance of `pi4io_coherent`, where it holds in every state.

`PeripheralsProofs` has the theorems about the small drivers, each for `Spec` of `Peripherals`, so that what other drivers do in
between is covered. The proofs about one driver's steps are in `Ads7042Proofs` and `FanControlProofs`.

- `NothingIsLost`: `[]NothingLost`, for FIFOs of any depth, on the PIO and on an SPI block, if `AdsUsage = {}`. The property speaks
  of the time between calls only. `AdsInv` adds what holds within one: a read that has begun still has room (`owed < Held`
  before its request), and during a calibration as many words are on their way as it is going to discard. That the SPI
  block never drops a word follows: never are more than `SpiDepth` on their way.
- `CatchesUp`: `[]Dac081CatchesUp`, for every set of data. Together with the types it is inductive; the frame's arithmetic is a
  lemma, `Frame081`.
- `Dac121Mirrors`: `[]Dac121Mirrored`, for every set of 16-bit data. `Dac121Inv` adds that the format of the DAC's block stays at
  16 bits, because the ADC is elsewhere (`PeripheralsAssumption`).
- `NotSlower`: `[]NeverSlowerWhenHotter`, for all curves and inputs. It is a fact about `Curved`: rounding to a neighbour, at a half to
  either, keeps the order, and so do the minimum and the ends.
- `TachosAreAlone`: `[]TachoAlone`, given `Asserts`. `Claimed` says that the table of claims is the truth about slices and
  fans: no two fans on a channel, a claimed channel on a slice that drives fans.
- `SpeedsInRange`: `[]SpeedInRange`, given `OrdinaryCurves`: no input is NaN, and curves rise and end within the maximum speed.
- `FansRunAtTheirSpeed`: `[]RunsAtItsSpeed`, given both. `LevelsKept` adds to `Claimed` that a free channel's level is 0: it
  is what a second fan on a running slice starts with.

- `TypesKept`: `[]TypeOK` of all drivers side by side, if `AdsUsage = {}`.
- `CalIsTrue`: `[]CalibratedIsTrue`, and `ResultsAreWhole`: `[]WholeResults`, for FIFOs of any depth, if `AdsUsage = {}`, the second if also
  `AdcSpi # "spi1"`, where the DAC sets the format. `FrameInv` follows the clocks since CSn fell: a calibration's dummy frame has,
  or will have with the words on their way, as many as calibrate the ADC (`Calibrating`), and an ADC that has seen no call
  has seen no frame (`Unused`). `Whole` says that outside a calibration each word in the receive FIFO, and the one being
  clocked, had its own fall of CSn.

The hypotheses are those under which TLC finds the property to hold; what goes wrong without them is in section 3.

Only model-checked: `CallsReturn`, `ResetIsNoticed` and `AdsCallsReturn`. They are liveness under fairness, which TLAPS
does not prove. Every other property of a passing run is a theorem, under the hypotheses given above.

## 6. Not modelled

- What an ADC measures, the serial number of the EEPROM, the broadcast address of the DAC081C08x, and the EEPROM's write
  protect pin. None of it changes what a driver does next.
- `ads7042_init_pio` failing for want of program memory or a state machine, two ADCs on one PIO, and an I2C bus that is shared
  by several drivers: each transfer is a call that blocks.
- Measuring a fan's speed: tachometer slices are set up and nothing reads them, as the header says.
- The mid-transfer behaviour of the buses: an I2C transfer of the small drivers arrives or does not.
- That EEPROM calls are interrupted by an interrupt handler that uses the same instance; the drivers are not meant to be
  re-entered, except the expander's handler, which its documentation puts in an interrupt.
- The DMA sniffer of `nv_struct_compute_crc32` (taken to work, and not to be shared), the memory's read function
  failing silently, and what a user's callbacks do beyond calling the library.
- I2C errors that make the expander driver panic; echo, wording and special-character callbacks of the line readers.
- Initialisation of pins and buses, which has no behaviour beyond register writes.
