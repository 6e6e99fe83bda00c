------------------------------ MODULE Ads7042 ------------------------------
(***************************************************************************)
(* The ADS7042 driver (src/ads7042.c) with the PIO program it runs         *)
(* (src/adc_spi_master_unidir.pio) or the SPI block it uses instead, and   *)
(* the ADC.  The interface works on its own while the program goes on: it  *)
(* takes a request from its transmit FIFO, lowers CSn, clocks a word out   *)
(* of the ADC, puts it in its receive FIFO and raises CSn.                 *)
(***************************************************************************)
EXTENDS SpiBlocks, Sequences

CONSTANTS
  PioDepth,   \* words in each FIFO: 4 in the PIO
  SpiDepth,   \* and 8 in the SPI block
  AdcSpi,     \* the SPI block the ADC is on, when it is on one
  AdsUsage    \* what the program or the board does; a subset of AdsRisks

AdsRisks ==
  {"uncalibrated_pio",   \* a read through the PIO comes before a calibration
   "cal_outstanding",    \* a calibration begins with results outstanding
   "backlog",            \* more reads are started than the interface holds
   "slow_clock",         \* the program reaches change_n_bits before the PIO,
                         \* having pushed the last word, has raised CSn
   "unzeroed"}           \* an instance for init_hw_spi does not start zeroed

ASSUME AdsAssumption ==
  /\ PioDepth \in Nat /\ PioDepth >= 2
  /\ SpiDepth \in Nat /\ SpiDepth >= 2
  /\ AdcSpi \in Spis
  /\ AdsUsage \subseteq AdsRisks

ADS7042_FRAME_LEN == 14
ADS7042_CAL_CLOCKS == 16
ADS7042_RECAL_CLOCKS == 32

VARIABLES
  iface,    \* the interface of the instance, "none" before it is initialised
  state,    \* inst->state
  tx,       \* requests in the transmit FIFO
  rx,       \* the receive FIFO: is each word a conversion of its own request?
  engine,   \* "pushed": the PIO has pushed a word and has yet to raise CSn
  csn,      \* "held": the program, not the interface, keeps it low
  own,      \* CSn fell for the word that is being clocked
  clocks,   \* clocks since CSn fell, up to ADS7042_RECAL_CLOCKS
  adc,      \* the ADC: "fresh" in the first frame after power-on
  todo,     \* the steps left of the call in progress
  owed      \* results the program has asked for and not got (a history)

adsVars == <<format, iface, state, tx, rx, engine, csn, own, clocks, adc, todo, owed>>

States == {"PWRON", "UNCAL", "CAL"}
Pio == iface = "pio"
Depth == IF Pio THEN PioDepth ELSE SpiDepth
TxFull == tx = Depth
WritableUnchecked == TRUE
Writable == ~TxFull
NoCall == todo = <<>>
At(step) == todo # <<>> /\ Head(todo) = step

Clocked(n) == IF clocks + n < ADS7042_RECAL_CLOCKS
              THEN clocks + n ELSE ADS7042_RECAL_CLOCKS

(* The ADC calibrates itself when the first frame has 16 clocks, or when   *)
(* any frame has 32.                                                       *)
AdcAfter(count, rises) ==
  IF count >= ADS7042_RECAL_CLOCKS \/ (adc = "fresh" /\ count >= ADS7042_CAL_CLOCKS)
  THEN "cal"
  ELSE IF rises /\ adc = "fresh" THEN "uncal" ELSE adc

---------------------------------------------------------------------------
(* The interface and the ADC                                               *)

Pull ==
  /\ engine = "idle" /\ tx > 0
  /\ tx' = tx - 1
  /\ engine' = "shifting"
  /\ csn' = IF csn = "high" THEN "low" ELSE csn
  /\ own' = (csn = "high")
  /\ clocks' = IF csn = "high" THEN 0 ELSE clocks
  /\ UNCHANGED <<format, iface, state, rx, adc, todo, owed>>

(* The PIO stalls on a full receive FIFO; the SPI block drops the word.    *)
Push ==
  LET rises == ~Pio /\ csn = "low" IN
  /\ engine = "shifting"
  /\ Pio => Len(rx) < Depth
  /\ rx' = IF Len(rx) < Depth
           THEN Append(rx, own /\ format[iface] = ADS7042_FRAME_LEN) ELSE rx
  /\ clocks' = Clocked(format[iface])
  /\ adc' = AdcAfter(clocks', rises)
  /\ csn' = IF rises THEN "high" ELSE csn
  /\ engine' = IF Pio THEN "pushed" ELSE "idle"
  /\ UNCHANGED <<format, iface, state, tx, own, todo, owed>>

RaiseCsn ==
  /\ engine = "pushed"
  /\ engine' = "idle"
  /\ csn' = "high"
  /\ adc' = AdcAfter(clocks, TRUE)
  /\ UNCHANGED <<format, iface, state, tx, rx, own, clocks, todo, owed>>

---------------------------------------------------------------------------
(* Initialisation.  When it fails the program goes no further with it.     *)

(* pio_sm_set_pins_with_mask takes the value 1 for pin 0 only: on any      *)
(* other pin CSn is low from here on.                                      *)
ads7042_init_pio ==
  /\ iface = "none"
  /\ iface' = "pio"
  /\ format' = [format EXCEPT !["pio"] = ADS7042_FRAME_LEN]
  /\ state' = "PWRON"
  /\ csn' \in {"low", "high"}
  /\ UNCHANGED <<tx, rx, engine, own, clocks, adc, todo, owed>>

(* It leaves inst->state as it was.                                        *)
ads7042_init_hw_spi ==
  /\ iface = "none"
  /\ iface' = AdcSpi
  /\ format' = [format EXCEPT ![AdcSpi] = ADS7042_FRAME_LEN]
  /\ UNCHANGED <<state, tx, rx, engine, csn, own, clocks, adc, todo, owed>>

---------------------------------------------------------------------------
(* Reads                                                                   *)

(* A put to a full FIFO is lost.                                           *)
Request ==
  /\ tx' = IF TxFull THEN tx ELSE tx + 1
  /\ owed' = owed + 1
  /\ state' = IF state = "PWRON" THEN "UNCAL" ELSE state

Fetch ==
  /\ rx # <<>>
  /\ rx' = Tail(rx)
  /\ owed' = owed - 1

(* What the interface holds before it stalls or, the SPI block, loses a    *)
(* word; the program asks for no more than that.                           *)
Held == IF Pio THEN 2 * PioDepth + 1 ELSE SpiDepth

MayStart ==
  /\ NoCall /\ iface # "none"
  /\ Pio /\ state = "PWRON" => "uncalibrated_pio" \in AdsUsage
  /\ owed < Held \/ ("backlog" \in AdsUsage /\ owed <= 2 * Depth + 1)

(* It returns PICO_ERROR_GENERIC, and changes nothing, when tx is full.    *)
ads7042_start_async_read ==
  /\ MayStart /\ Writable
  /\ Request
  /\ UNCHANGED <<format, iface, rx, engine, csn, own, clocks, adc, todo>>

Begin(steps) ==
  /\ todo' = steps
  /\ UNCHANGED <<format, iface, state, tx, rx, engine, csn, own, clocks, adc, owed>>

ads7042_start_async_read_blocking == MayStart /\ Begin(<<"put">>)

ads7042_get_data_blocking == NoCall /\ owed > 0 /\ Begin(<<"get">>)

ads7042_read_blocking == MayStart /\ Begin(<<"put", "get">>)

(* The program has seen ads7042_is_data_available.                         *)
ads7042_get_data ==
  /\ NoCall /\ Fetch
  /\ UNCHANGED <<format, iface, state, tx, engine, csn, own, clocks, adc, todo>>

PutWhenWritable ==
  /\ At("put") /\ Writable
  /\ Request
  /\ todo' = Tail(todo)
  /\ UNCHANGED <<format, iface, rx, engine, csn, own, clocks, adc>>

GetWhenReadable ==
  /\ At("get") /\ Fetch
  /\ todo' = Tail(todo)
  /\ UNCHANGED <<format, iface, state, tx, engine, csn, own, clocks, adc>>

---------------------------------------------------------------------------
(* Calibration                                                             *)

(* The PIO is restarted, wherever it was, and leaves CSn as it is: a frame *)
(* that it cuts short has had some of its clocks.                          *)
change_n_bits(n) ==
  /\ format' = [format EXCEPT ![iface] = IF Pio \/ n <= 16 THEN n ELSE 16]
  /\ engine = "pushed" => "slow_clock" \in AdsUsage
  /\ engine' = IF Pio THEN "idle" ELSE engine
  /\ clocks' \in IF Pio /\ engine = "shifting"
                 THEN {clocks, Clocked(format[iface] - 1)} ELSE {clocks}

CalClocks == IF state = "PWRON" THEN ADS7042_CAL_CLOCKS ELSE ADS7042_RECAL_CLOCKS

ads7042_offset_cal ==
  /\ NoCall /\ iface # "none"
  /\ owed = 0 \/ "cal_outstanding" \in AdsUsage
  /\ change_n_bits(CalClocks)
  /\ todo' = <<"dummy">>
  /\ UNCHANGED <<iface, state, tx, rx, csn, own, adc, owed>>

(* Words of a dummy read: the SPI block has 16 bits at most.               *)
OneDummy == 1
Dummies == IF ~Pio /\ state # "PWRON" THEN 2 ELSE 1

(* The FIFOs of the PIO are cleared first.  Two words of the SPI block go  *)
(* in one frame, with CSn driven by the program.                           *)
PutThenClear == IF Pio THEN 0 ELSE tx + Dummies
ClearThenPut == IF Pio THEN Dummies ELSE tx + Dummies

DiscardsFirst == <<"discard">>
Discards == [i \in 1..Dummies |-> "discard"]

dummy_read ==
  /\ At("dummy")
  /\ ClearThenPut <= Depth
  /\ tx' = ClearThenPut
  /\ rx' = IF Pio THEN <<>> ELSE rx
  /\ csn' = IF Dummies = 2 THEN "held" ELSE csn
  /\ clocks' = IF Dummies = 2 /\ csn = "high" THEN 0 ELSE clocks
  /\ todo' = Discards \o <<"end_cal">>
  /\ UNCHANGED <<format, iface, state, engine, own, adc, owed>>

DiscardWhenReadable ==
  /\ At("discard") /\ rx # <<>>
  /\ rx' = Tail(rx)
  /\ todo' = Tail(todo)
  /\ UNCHANGED <<format, iface, state, tx, engine, csn, own, clocks, adc, owed>>

EndCal ==
  /\ At("end_cal")
  /\ change_n_bits(ADS7042_FRAME_LEN)
  /\ csn' = IF csn = "held" THEN "high" ELSE csn
  /\ adc' = AdcAfter(clocks, csn = "held")
  /\ state' = "CAL"
  /\ todo' = <<>>
  /\ UNCHANGED <<iface, tx, rx, own, owed>>

---------------------------------------------------------------------------
AdsInit ==
  /\ iface = "none"
  /\ state \in IF "unzeroed" \in AdsUsage THEN States ELSE {"PWRON"}
  /\ tx = 0 /\ rx = <<>>
  /\ engine = "idle" /\ csn = "high" /\ own = FALSE /\ clocks = 0
  /\ adc = "fresh"
  /\ todo = <<>>
  /\ owed = 0

AdsHardware == Pull \/ Push \/ RaiseCsn

AdsGoesOn ==
  \/ PutWhenWritable
  \/ GetWhenReadable
  \/ dummy_read
  \/ DiscardWhenReadable
  \/ EndCal

AdsCall ==
  \/ ads7042_init_pio
  \/ ads7042_init_hw_spi
  \/ ads7042_start_async_read
  \/ ads7042_start_async_read_blocking
  \/ ads7042_get_data
  \/ ads7042_get_data_blocking
  \/ ads7042_read_blocking
  \/ ads7042_offset_cal

AdsNext == AdsHardware \/ AdsGoesOn \/ AdsCall

---------------------------------------------------------------------------
(* Properties                                                              *)

AdsTypeOK ==
  /\ iface \in Interfaces \cup {"none"}
  /\ state \in States
  /\ tx \in 0..Depth
  /\ rx \in Seq(BOOLEAN) /\ Len(rx) <= Depth
  /\ engine \in {"idle", "shifting", "pushed"}
  /\ csn \in {"high", "low", "held"}
  /\ own \in BOOLEAN
  /\ clocks \in 0..ADS7042_RECAL_CLOCKS
  /\ adc \in {"fresh", "uncal", "cal"}
  /\ todo \in Seq({"put", "get", "dummy", "discard", "end_cal"})
  /\ owed \in 0..(2 * Depth + 2)

(* Between calls, what the program is owed is in the interface: each read  *)
(* that was started and not fetched is still to be clocked, being clocked  *)
(* or waiting, and nothing else is.  A blocking get of it will return, and *)
(* returns the oldest.                                                     *)
NothingLost ==
  NoCall => owed = tx + (IF engine = "shifting" THEN 1 ELSE 0) + Len(rx)

(* A word the program gets is a conversion it asked for: CSn fell for that *)
(* request and the frame had 14 clocks.                                    *)
WholeResults ==
  NoCall \/ At("put") \/ At("get") => \A i \in DOMAIN rx : rx[i]

(* ADS7042_STATE_CAL is said of a calibrated ADC only.                     *)
CalibratedIsTrue == state = "CAL" => adc = "cal"

(* A blocking call of the driver returns.                                  *)
AdsCallsReturn == ~NoCall ~> NoCall
=============================================================================
