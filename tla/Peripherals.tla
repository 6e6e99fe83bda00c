---------------------------- MODULE Peripherals ----------------------------
(***************************************************************************)
(* A program with some of the small drivers.  The two SPI converters, each *)
(* on a block of its own, are used side by side, because initialising one  *)
(* reaches the block of the other; the I2C DAC and the fans share nothing  *)
(* with them or with each other, and are used on their own.                *)
(***************************************************************************)
EXTENDS Ads7042, Dac121s101, Dac081c08x, FanControl

CONSTANT Programs    \* the sets of drivers that programs use together

Drivers == {"ads7042", "dac121s101", "dac081c08x", "fan_control"}

ASSUME PeripheralsAssumption == Programs \subseteq SUBSET Drivers /\ AdcSpi # DacSpi

VARIABLE program    \* the drivers in use

vars == <<adsVars, dac121Vars, dac081Vars, fanVars, program>>

(* Everything but the ADC's state and the formats, and so on.              *)
NotAds == <<dac121, dac121_reg, dac081Vars, fanVars, program>>
NotDac121 == <<iface, state, tx, rx, engine, csn, own, clocks, adc, todo, owed,
               dac081Vars, fanVars, program>>

Init ==
  /\ program \in Programs
  /\ Unformatted
  /\ AdsInit /\ Dac121Init /\ Dac081Init /\ FanInit
  /\ "dac081c08x" \notin program => dac081_reg = [data |-> 0, pd |-> DAC081C08X_PD_NORM]

Uses(driver) == driver \in program

AdsWorks == AdsHardware /\ UNCHANGED NotAds
AdsContinues == AdsGoesOn /\ UNCHANGED NotAds
AdsCalled == Uses("ads7042") /\ AdsCall /\ UNCHANGED NotAds

(* The program has one thread: it calls a driver when no call is going on. *)
Dac121Called == Uses("dac121s101") /\ NoCall /\ Dac121Next /\ UNCHANGED NotDac121
Dac081Called ==
  Uses("dac081c08x") /\ Dac081Next /\ UNCHANGED <<adsVars, dac121Vars, fanVars, program>>
FansCalled ==
  Uses("fan_control") /\ FanNext /\ UNCHANGED <<adsVars, dac121Vars, dac081Vars, program>>

Next ==
  \/ AdsWorks
  \/ AdsContinues
  \/ AdsCalled
  \/ Dac121Called
  \/ Dac081Called
  \/ FansCalled

(* The interface clocks and the program goes on with a call it began; what *)
(* it calls, and whether, is its own affair.                               *)
Fairness == WF_vars(AdsWorks) /\ WF_vars(AdsContinues)

Spec == Init /\ [][Next]_vars /\ Fairness

TypeOK ==
  /\ program \in Programs
  /\ FormatTypeOK /\ AdsTypeOK /\ Dac121TypeOK /\ Dac081TypeOK /\ FanTypeOK
=============================================================================
