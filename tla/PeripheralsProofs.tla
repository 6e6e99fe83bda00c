------------------------- MODULE PeripheralsProofs -------------------------
(***************************************************************************)
(* What the small drivers promise, for every value of the constants: the   *)
(* DACs hold what was written, fans run at the speed they were given, no   *)
(* conversion is lost or cut short, and a calibrated ADC is calibrated.    *)
(***************************************************************************)
EXTENDS Peripherals, FanControlProofs, Ads7042Proofs

---------------------------------------------------------------------------
(* The frames                                                              *)

(* Two bytes sent to a DAC081C08x: the data bits arrive, the power-down    *)
(* bits do not.                                                            *)
LEMMA Frame081 ==
  ASSUME NEW pd \in PD081, NEW data \in 0..255
  PROVE  Received081(dac081c08x_assemble_frame(pd, data)) =
           [data |-> data, pd |-> DAC081C08X_PD_NORM]
<1> DEFINE frame == dac081c08x_assemble_frame(pd, data)
<1>1. PdBits(16 * pd) = 0
  BY SMT DEF PdBits, PD081
<1>2. frame[1] = data \div 16 /\ frame[2] = (16 * data) % 256
  BY <1>1, SMT DEF dac081c08x_assemble_frame
<1>3. 16 * ((data \div 16) % 16) + ((16 * data) % 256) \div 16 = data
  BY SMT
<1>4. ((data \div 16) \div 16) % 4 = 0
  BY SMT
<1> QED BY <1>2, <1>3, <1>4 DEF Received081, DAC081C08X_PD_NORM

(* A frame of the DAC121S101 keeps its two parts apart.                    *)
LEMMA Frame121 ==
  ASSUME NEW pd \in PD121, NEW data \in Nat
  PROVE  /\ dac121s101_assemble_frame(pd, data) % 4096 = data % 4096
         /\ dac121s101_assemble_frame(pd, data) \div 4096 = pd
<1> DEFINE low == data % 4096
<1>0. low = data % 4096
  OBVIOUS
<1>1. low \in 0..4095
  BY SMT
<1>2. dac121s101_assemble_frame(pd, data) = low + 4096 * pd
  BY DEF dac121s101_assemble_frame
<1> HIDE DEF low
<1>3. (low + 4096 * pd) % 4096 = low /\ (low + 4096 * pd) \div 4096 = pd
  <2>1. CASE pd = 0  BY <1>1, <2>1, SMT
  <2>2. CASE pd = 1  BY <1>1, <2>2, SMT
  <2>3. CASE pd = 2  BY <1>1, <2>3, SMT
  <2>4. CASE pd = 3  BY <1>1, <2>4, SMT
  <2> QED BY <2>1, <2>2, <2>3, <2>4 DEF PD121
<1> QED BY <1>0, <1>1, <1>2, <1>3 DEF PD121

---------------------------------------------------------------------------
(* A step of the program, as each driver sees it                           *)

(* What the other drivers do is a stutter to the fans.                     *)
LEMMA StepOfFans == ASSUME [Next]_vars PROVE [FanNext]_fanVars
  BY DEF Next, vars, AdsWorks, AdsContinues, AdsCalled, Dac121Called, Dac081Called,
         FansCalled, NotAds, NotDac121, fanVars

(* And so it is to this DAC.                                               *)
LEMMA StepOfDac081 == ASSUME [Next]_vars PROVE [Dac081Next]_dac081Vars
  BY DEF Next, vars, AdsWorks, AdsContinues, AdsCalled, Dac121Called, Dac081Called,
         FansCalled, NotAds, NotDac121, dac081Vars

(* To the ADC and its interface the other converter is, but for a format.  *)
LEMMA StepOfAds ==
  ASSUME [Next]_vars PROVE AdsNext \/ AdsStays
  BY DEF Next, vars, AdsWorks, AdsContinues, AdsCalled, Dac121Called, Dac081Called,
         FansCalled, NotDac121, adsVars, AdsNext, AdsStays

---------------------------------------------------------------------------
(* The DAC081C08x                                                          *)

Dac081Inv == Dac081TypeOK /\ Dac081CatchesUp

(* Every call keeps what is known of the DAC, arrived or not.              *)
LEMMA Dac081Step ==
  ASSUME Dac081Inv, [Dac081Next]_dac081Vars
  PROVE  Dac081Inv'
<1>1. ASSUME NEW data \in Dac081Data \cup {0}, NEW pd \in PD081, Write081(data, pd)
      PROVE  Dac081Inv'
  <2>1. Received081(dac081c08x_assemble_frame(pd, data)) = [data |-> data, pd |-> DAC081C08X_PD_NORM]
    <3>1. data \in 0..255
      BY Dac081Assumption
    <3> QED BY <3>1, Frame081
  <2>2. /\ dac081' = [up |-> TRUE, data_copy |-> data, pd_state_copy |-> pd]
        /\ delivered' \in BOOLEAN
        /\ dac081_reg' = IF delivered' THEN [data |-> data, pd |-> DAC081C08X_PD_NORM] ELSE dac081_reg
    BY <1>1, <2>1 DEF Write081, Transfer081
  <2>3. Dac081TypeOK'
    <3>1. [data |-> data, pd |-> DAC081C08X_PD_NORM] \in [data : 0..255, pd : PD081]
      BY Dac081Assumption DEF DAC081C08X_PD_NORM, PD081
    <3> QED BY <2>2, <3>1 DEF Dac081Inv, Dac081TypeOK
  <2>4. Dac081CatchesUp'
    BY <2>2 DEF Dac081CatchesUp
  <2> QED BY <2>3, <2>4 DEF Dac081Inv
<1>2. CASE dac081c08x_init
  BY <1>1, <1>2 DEF dac081c08x_init, PD081, DAC081C08X_PD_NORM
<1>3. CASE dac081c08x_write_all
  BY <1>1, <1>3 DEF dac081c08x_write_all
<1>4. CASE dac081c08x_write_data
  BY <1>1, <1>4 DEF dac081c08x_write_data, Dac081Inv, Dac081TypeOK
<1>5. CASE dac081c08x_change_pd_state
  BY <1>1, <1>5 DEF dac081c08x_change_pd_state, Dac081Inv, Dac081TypeOK
<1>6. CASE UNCHANGED dac081Vars
  BY <1>6 DEF dac081Vars, Dac081Inv, Dac081TypeOK, Dac081CatchesUp
<1> QED BY <1>2, <1>3, <1>4, <1>5, <1>6 DEF Dac081Next

(* So it always holds.                                                     *)
LEMMA Dac081Invariant == Spec => []Dac081Inv
<1>1. Init => Dac081Inv
  <2> SUFFICES ASSUME Init PROVE Dac081Inv
    OBVIOUS
  <2>1. /\ dac081 = [up |-> FALSE, data_copy |-> 0, pd_state_copy |-> DAC081C08X_PD_NORM]
        /\ dac081_reg \in [data : Dac081Data, pd : PD081]
        /\ delivered = FALSE
    BY Zenon DEF Init, Dac081Init
  <2>2. DAC081C08X_PD_NORM \in PD081
    BY DEF DAC081C08X_PD_NORM, PD081
  <2>3. dac081_reg \in [data : 0..255, pd : PD081]
    BY <2>1, Dac081Assumption
  <2> QED BY <2>1, <2>2, <2>3 DEF Dac081Inv, Dac081TypeOK, Dac081CatchesUp
<1>2. Dac081Inv /\ [Next]_vars => Dac081Inv'
  BY StepOfDac081, Dac081Step
<1> QED BY <1>1, <1>2, PTL DEF Spec

(* Whatever transfers were lost before it, one that arrives brings the DAC *)
(* the value written last.                                                 *)
THEOREM CatchesUp == Spec => []Dac081CatchesUp
<1>1. Dac081Inv => Dac081CatchesUp
  BY DEF Dac081Inv
<1> QED BY <1>1, Dac081Invariant, PTL

---------------------------------------------------------------------------
(* The DAC121S101                                                          *)

(* Its SPI block keeps its format, which the ADC's driver, being on        *)
(* another block or the PIO, does not touch.                               *)
Dac121Inv ==
  /\ FormatTypeOK /\ Dac121TypeOK /\ Dac121Mirrored
  /\ iface \in {"none", "pio", AdcSpi}
  /\ dac121.up => format[DacSpi] = 16

(* Data are numbers.                                                       *)
LEMMA Dac121DataNat ==
  ASSUME NEW data \in Dac121Data \cup {0}
  PROVE  data \in Nat
<1>1. CASE data \in Dac121Data
  BY <1>1, Dac121Assumption, SMT
<1>2. CASE data = 0
  BY <1>2, SMT
<1> QED BY <1>1, <1>2, Zenon

(* What a frame leaves in the DAC, and in the instance.                    *)
LEMMA Dac121Records ==
  ASSUME NEW L, NEW low \in L, NEW D, NEW data \in D, NEW P, NEW pd \in P
  PROVE  /\ [data |-> low, pd |-> pd] \in [data : L, pd : P]
         /\ [up |-> TRUE, data_copy |-> data, pd_state_copy |-> pd]
              \in [up : BOOLEAN, data_copy : D, pd_state_copy : P]
OBVIOUS

(* Every call leaves the DAC as its copies say.                            *)
LEMMA Dac121Step ==
  ASSUME Dac121Inv, Dac121Next
  PROVE  FormatTypeOK' /\ Dac121TypeOK' /\ Dac121Mirrored' /\ format'[DacSpi] = 16
<1> DEFINE Goal == /\ FormatTypeOK' /\ Dac121TypeOK' /\ Dac121Mirrored'
                   /\ format'[DacSpi] = 16
<1>1. ASSUME NEW data \in Dac121Data \cup {0}, NEW pd \in PD121,
             dac121' = Copied(data, pd),
             Transfer121(dac121s101_assemble_frame(pd, data), 16)
      PROVE  Dac121TypeOK' /\ Dac121Mirrored'
  <2>1. data \in Nat
    BY Dac121DataNat
  <2>2. /\ dac121s101_assemble_frame(pd, data) % 4096 = data % 4096
        /\ dac121s101_assemble_frame(pd, data) \div 4096 = pd
    BY <2>1, Frame121
  <2>3. /\ dac121_reg' = [data |-> data % 4096, pd |-> pd]
        /\ dac121' = [up |-> TRUE, data_copy |-> data, pd_state_copy |-> pd]
    BY <1>1, <2>2 DEF Transfer121, Copied
  <2>4. data % 4096 \in 0..4095
    BY <2>1, SMT
  <2>5. Dac121TypeOK'
    <3> DEFINE low == data % 4096
    <3>1. low \in 0..4095
      BY <2>4
    <3>2. /\ dac121_reg' = [data |-> low, pd |-> pd]
          /\ dac121' = [up |-> TRUE, data_copy |-> data, pd_state_copy |-> pd]
      BY <2>3
    <3> HIDE DEF low
    <3>3. dac121_reg' \in [data : 0..4095, pd : PD121]
      BY <1>1, <3>1, <3>2, Dac121Records
    <3>4. dac121' \in [up : BOOLEAN, data_copy : Dac121Data \cup {0}, pd_state_copy : PD121]
      BY <1>1, <3>2, Dac121Records
    <3> QED BY <3>3, <3>4 DEF Dac121TypeOK
  <2>6. Dac121Mirrored'
    BY <2>3 DEF Dac121Mirrored
  <2> QED BY <2>5, <2>6
<1>2. ASSUME NEW data \in Dac121Data \cup {0}, NEW pd \in PD121, Write121(data, pd)
      PROVE  Goal
  BY <1>1, <1>2 DEF Write121, Dac121Inv, FormatTypeOK
<1>3. CASE dac121s101_init_hw_spi
  <2>1. /\ format' = [format EXCEPT !["spi1"] = 16, ![DacSpi] = 16]
        /\ format \in [Interfaces -> WordBits]
    BY <1>3 DEF dac121s101_init_hw_spi, Dac121Inv, FormatTypeOK
  <2>2. FormatTypeOK' /\ format'[DacSpi] = 16
    <3>1. "spi1" \in Interfaces /\ DacSpi \in Interfaces /\ 16 \in WordBits
      BY Dac121Assumption DEF Interfaces, Spis, WordBits
    <3> HIDE DEF WordBits, Interfaces
    <3> QED BY <2>1, <3>1 DEF FormatTypeOK
  <2>3. /\ dac121' = Copied(0, DAC121S101_PD_NORM)
        /\ Transfer121(dac121s101_assemble_frame(DAC121S101_PD_NORM, 0), 16)
    BY <1>3, <2>2 DEF dac121s101_init_hw_spi
  <2> QED BY <1>1, <2>2, <2>3 DEF PD121, DAC121S101_PD_NORM
<1>4. CASE dac121s101_write_all
  BY <1>2, <1>4 DEF dac121s101_write_all
<1>5. dac121.data_copy \in Dac121Data \cup {0} /\ dac121.pd_state_copy \in PD121
  BY DEF Dac121Inv, Dac121TypeOK
<1> SUFFICES Goal
  OBVIOUS
<1> HIDE DEF Goal
<1>6. CASE dac121s101_write_data
  <2>1. PICK data \in Dac121Data : Write121(data, dac121.pd_state_copy)
    BY <1>6 DEF dac121s101_write_data
  <2>2. data \in Dac121Data \cup {0}
    OBVIOUS
  <2> QED BY <1>2, <1>5, <2>1, <2>2
<1>7. CASE dac121s101_change_pd_state
  <2>1. PICK pd \in PD121 : Write121(dac121.data_copy, pd)
    BY <1>7 DEF dac121s101_change_pd_state
  <2> QED BY <1>2, <1>5, <2>1
<1> QED BY <1>3, <1>4, <1>6, <1>7 DEF Dac121Next, Goal

(* Setting the format of the ADC's interface leaves the DAC's alone.       *)
LEMMA FormatSet ==
  ASSUME FormatTypeOK, NEW i \in {"none", "pio", AdcSpi}, NEW n \in WordBits,
         format' = [format EXCEPT ![i] = n]
  PROVE  FormatTypeOK' /\ format'[DacSpi] = format[DacSpi]
<1>1. DacSpi \in Interfaces /\ DacSpi # i
  BY Dac121Assumption, PeripheralsAssumption DEF Interfaces, Spis
<1> HIDE DEF WordBits, Interfaces
<1> QED BY <1>1 DEF FormatTypeOK

(* The ADC's driver and its interface.                                     *)
LEMMA AdsStep ==
  ASSUME FormatTypeOK, iface \in {"none", "pio", AdcSpi}, AdsNext
  PROVE  /\ FormatTypeOK' /\ format'[DacSpi] = format[DacSpi]
         /\ iface' \in {"none", "pio", AdcSpi}
<1>1. ASSUME NEW n \in {ADS7042_FRAME_LEN, ADS7042_CAL_CLOCKS, ADS7042_RECAL_CLOCKS},
             change_n_bits(n)
      PROVE  FormatTypeOK' /\ format'[DacSpi] = format[DacSpi]
  <2>1. (IF Pio \/ n <= 16 THEN n ELSE 16) \in WordBits
    BY DEF WordBits, ADS7042_FRAME_LEN, ADS7042_CAL_CLOCKS, ADS7042_RECAL_CLOCKS
  <2>2. format' = [format EXCEPT ![iface] = IF Pio \/ n <= 16 THEN n ELSE 16]
    BY <1>1 DEF change_n_bits
  <2> QED BY <2>1, <2>2, FormatSet
<1>2. ADS7042_FRAME_LEN \in WordBits
  BY DEF ADS7042_FRAME_LEN, WordBits
<1>3. CASE ads7042_init_pio
  BY <1>2, <1>3, FormatSet DEF ads7042_init_pio
<1>4. CASE ads7042_init_hw_spi
  BY <1>2, <1>4, FormatSet DEF ads7042_init_hw_spi
<1>5. CASE ads7042_offset_cal
  BY <1>1, <1>5 DEF ads7042_offset_cal, CalClocks
<1>6. CASE EndCal
  BY <1>1, <1>6 DEF EndCal
<1>7. CASE UNCHANGED <<format, iface>>
  BY <1>7 DEF FormatTypeOK
<1>8. AdsNext => \/ ads7042_init_pio \/ ads7042_init_hw_spi \/ ads7042_offset_cal \/ EndCal
                \/ UNCHANGED <<format, iface>>
  BY DEF AdsNext, AdsHardware, AdsGoesOn, AdsCall, Pull, Push, RaiseCsn,
     PutWhenWritable, GetWhenReadable, dummy_read, DiscardWhenReadable,
     ads7042_start_async_read, ads7042_start_async_read_blocking, ads7042_get_data,
     ads7042_get_data_blocking, ads7042_read_blocking, Begin
<1> QED BY <1>3, <1>4, <1>5, <1>6, <1>7, <1>8

(* The invariant holds, through the steps of both converters.              *)
LEMMA Dac121Invariant == Spec => []Dac121Inv
<1>1. Init => Dac121Inv
  <2> SUFFICES ASSUME Init PROVE Dac121Inv
    OBVIOUS
  <2>1. FormatTypeOK /\ iface = "none"
    BY DEF Init, Unformatted, AdsInit, FormatTypeOK, WordBits
  <2>2. Dac121TypeOK /\ ~dac121.up
    BY DEF Init, Dac121Init, Dac121TypeOK, PD121, DAC121S101_PD_NORM
  <2> QED BY <2>1, <2>2 DEF Dac121Inv, Dac121Mirrored
<1>2. Dac121Inv /\ [Next]_vars => Dac121Inv'
  <2> SUFFICES ASSUME Dac121Inv, [Next]_vars PROVE Dac121Inv'
    OBVIOUS
  <2>1. ASSUME AdsNext, UNCHANGED <<dac121, dac121_reg>> PROVE Dac121Inv'
    <3>1. /\ FormatTypeOK' /\ format'[DacSpi] = format[DacSpi]
          /\ iface' \in {"none", "pio", AdcSpi}
      BY <2>1, AdsStep DEF Dac121Inv
    <3>2. Dac121TypeOK' /\ Dac121Mirrored'
      BY <2>1 DEF Dac121Inv, Dac121TypeOK, Dac121Mirrored
    <3> QED BY <2>1, <3>1, <3>2 DEF Dac121Inv
  <2>2. CASE AdsWorks \/ AdsContinues \/ AdsCalled
    BY <2>1, <2>2 DEF AdsWorks, AdsContinues, AdsCalled, AdsNext, NotAds
  <2>3. CASE Dac121Called
    BY <2>3, Dac121Step DEF Dac121Called, NotDac121, Dac121Inv
  <2>4. CASE Dac081Called \/ FansCalled \/ UNCHANGED vars
    <3>1. UNCHANGED <<format, iface, dac121, dac121_reg>>
      BY <2>4 DEF Dac081Called, FansCalled, vars, adsVars, dac121Vars
    <3> QED BY <3>1 DEF Dac121Inv, FormatTypeOK, Dac121TypeOK, Dac121Mirrored
  <2> QED BY <2>2, <2>3, <2>4 DEF Next
<1> QED BY <1>1, <1>2, PTL DEF Spec

(* Copies and DAC are one thing from the initialisation on, whatever the   *)
(* ADC's driver does with its own interface.                               *)
THEOREM Dac121Mirrors == Spec => []Dac121Mirrored
<1>1. Dac121Inv => Dac121Mirrored
  BY DEF Dac121Inv
<1> QED BY <1>1, Dac121Invariant, PTL

---------------------------------------------------------------------------
(* The fans                                                                *)

(* The types of the fans' state hold.                                      *)
LEMMA FanTypes == Spec => []FanTypeOK
<1>1. Init => FanTypeOK
  BY FanTypeInit DEF Init
<1>2. FanTypeOK /\ [Next]_vars => FanTypeOK'
  BY StepOfFans, FanTypeNext
<1> QED BY <1>1, <1>2, PTL DEF Spec

(* In a build with assertions the claims are true.                         *)
LEMMA FanClaims == ASSUME Asserts PROVE Spec => [](FanTypeOK /\ Claimed)
<1>1. Init => FanTypeOK /\ Claimed
  BY FanTypeInit, ClaimedInit DEF Init
<1>2. FanTypeOK /\ Claimed /\ [Next]_vars => (FanTypeOK /\ Claimed)'
  BY StepOfFans, FanTypeNext, ClaimedNext
<1> QED BY <1>1, <1>2, PTL DEF Spec

(* Along a curve that rises, a hotter board is not cooled less.            *)
THEOREM NotSlower == Spec => []NeverSlowerWhenHotter
<1>1. FanTypeOK => NeverSlowerWhenHotter
  BY CurvesRise
<1> QED BY <1>1, FanTypes, PTL

(* In a build with assertions no tachometer shares its slice.              *)
THEOREM TachosAreAlone == ASSUME Asserts PROVE Spec => []TachoAlone
<1>1. FanTypeOK /\ Claimed => TachoAlone
  BY ClaimsKeepTachosAlone
<1> QED BY <1>1, FanClaims, PTL

(* With ordinary curves no fan is given a speed outside its range.         *)
THEOREM SpeedsInRange == ASSUME OrdinaryCurves PROVE Spec => []SpeedInRange
<1>1. Init => FanTypeOK /\ SpeedInRange
  BY FanTypeInit, SpeedsInit DEF Init
<1>2. FanTypeOK /\ SpeedInRange /\ [Next]_vars => (FanTypeOK /\ SpeedInRange)'
  BY StepOfFans, FanTypeNext, SpeedsNext
<1> QED BY <1>1, <1>2, PTL DEF Spec

(* With both, every fan runs at the speed its instance says.               *)
THEOREM FansRunAtTheirSpeed ==
  ASSUME Asserts, OrdinaryCurves PROVE Spec => []RunsAtItsSpeed
<1> DEFINE FanInv == FanTypeOK /\ Claimed /\ LevelsKept
<1>1. Init => FanInv
  BY FanTypeInit, ClaimedInit, LevelsInit DEF Init
<1>2. FanInv /\ [Next]_vars => FanInv'
  BY StepOfFans, FanTypeNext, ClaimedNext, LevelsNext
<1>3. FanInv => RunsAtItsSpeed
  BY FansRun
<1> QED BY <1>1, <1>2, <1>3, PTL DEF Spec

(* Between calls every read that was asked for is in the interface and no  *)
(* word else, whatever the depth of its FIFOs, in a program without risks. *)
THEOREM NothingIsLost == ASSUME AdsUsage = {} PROVE Spec => []NothingLost
<1>1. Init => AdsInv
  BY AdsInvInit DEF Init
<1>2. AdsInv /\ [Next]_vars => AdsInv'
  BY StepOfAds, AdsInvNext DEF AdsStays
<1>3. AdsInv => NothingLost
  BY AdsInvLosesNothing
<1> QED BY <1>1, <1>2, <1>3, PTL DEF Spec
(* The state of the ADC's driver has its types.                            *)
LEMMA AdsInvariant == ASSUME AdsUsage = {} PROVE Spec => [](AdsInv /\ FrameTypes)
<1>1. Init => AdsInv /\ FrameTypes
  BY AdsInvInit, FrameTypesInit DEF Init
<1>2. AdsInv /\ FrameTypes /\ Dac121Inv /\ [Next]_vars => (AdsInv /\ FrameTypes)'
  BY StepOfAds, AdsInvNext, FrameTypesNext DEF AdsStays, Dac121Inv
<1> QED BY <1>1, <1>2, Dac121Invariant, PTL DEF Spec

(* Every variable of the program has its type, and no FIFO holds more than *)
(* its depth.                                                              *)
THEOREM TypesKept == ASSUME AdsUsage = {} PROVE Spec => []TypeOK
<1>1. Spec => [](program \in Programs)
  <2>1. Init => program \in Programs
    BY DEF Init
  <2>2. program \in Programs /\ [Next]_vars => (program \in Programs)'
    BY DEF Next, vars, AdsWorks, AdsContinues, AdsCalled, NotAds, Dac121Called, NotDac121,
           Dac081Called, FansCalled
  <2> QED BY <2>1, <2>2, PTL DEF Spec
<1>2. program \in Programs /\ AdsInv /\ FrameTypes /\ Dac121Inv /\ Dac081Inv /\ FanTypeOK => TypeOK
  BY AdsTypes DEF Dac121Inv, Dac081Inv, TypeOK
<1> QED BY <1>1, <1>2, AdsInvariant, Dac121Invariant, Dac081Invariant, FanTypes, PTL

(* The other converter may set the format of the ADC's interface, but not  *)
(* while a call of the ADC's driver is going on ...                        *)
LEMMA StepAside == ASSUME [Next]_vars PROVE AdsNext \/ AdsAside
<1>1. CASE Dac121Called
  BY <1>1 DEF Dac121Called, NotDac121, NoCall, AdsStays, AdsAside
<1>2. CASE AdsWorks \/ AdsContinues \/ AdsCalled
  BY <1>2 DEF AdsWorks, AdsContinues, AdsCalled, AdsNext
<1>3. CASE Dac081Called \/ FansCalled \/ UNCHANGED vars
  BY <1>3 DEF Dac081Called, FansCalled, vars, adsVars, AdsAside, AdsStays
<1> QED BY <1>1, <1>2, <1>3 DEF Next

(* ... and never, when it is not on the block the DAC's driver always sets.*)
LEMMA FormatLeftAlone ==
  ASSUME Dac121Inv, [Next]_vars, AdcSpi # "spi1"
  PROVE  AdsNext \/ (AdsStays /\ (iface # "none" => format'[iface] = format[iface]))
<1>1. CASE Dac121Called
  <2>1. AdsStays
    BY <1>1 DEF Dac121Called, NotDac121, AdsStays
  <2>2. \/ format' = format
        \/ format' = [format EXCEPT !["spi1"] = 16, ![DacSpi] = 16]
    BY <1>1 DEF Dac121Called, Dac121Next, dac121s101_init_hw_spi, dac121s101_write_all,
       dac121s101_write_data, dac121s101_change_pd_state, Write121
  <2>3. iface # "none" => iface \in Interfaces /\ iface # "spi1" /\ iface # DacSpi
    BY AdsAssumption, Dac121Assumption, PeripheralsAssumption DEF Dac121Inv, Interfaces, Spis
  <2>4. iface # "none" => format'[iface] = format[iface]
    <3> HIDE DEF Interfaces, WordBits
    <3> QED BY <2>2, <2>3 DEF Dac121Inv, FormatTypeOK
  <2> QED BY <2>1, <2>4
<1>2. CASE AdsWorks \/ AdsContinues \/ AdsCalled
  BY <1>2 DEF AdsWorks, AdsContinues, AdsCalled, AdsNext
<1>3. CASE Dac081Called \/ FansCalled \/ UNCHANGED vars
  BY <1>3 DEF Dac081Called, FansCalled, vars, adsVars, AdsStays
<1> QED BY <1>1, <1>2, <1>3 DEF Next

(* The frames are as the driver's calls leave them.                        *)
LEMMA FramesInvariant == ASSUME AdsUsage = {} PROVE Spec => []FrameInv
<1>1. Init => FrameInv
  BY FrameInvInit DEF Init
<1>2. AdsInv /\ FrameTypes /\ Dac121Inv /\ FrameInv /\ [Next]_vars => FrameInv'
  BY StepAside, FrameInvNext DEF Dac121Inv
<1> QED BY <1>1, <1>2, AdsInvariant, Dac121Invariant, PTL DEF Spec

(* ADS7042_STATE_CAL is never said of an ADC that has not seen the clocks  *)
(* that calibrate it, though the interface may have words of 16 bits where *)
(* 32 clocks are needed, and though the other converter, between two       *)
(* calls, may set the format of the ADC's block.                           *)
THEOREM CalIsTrue == ASSUME AdsUsage = {} PROVE Spec => []CalibratedIsTrue
<1>1. FrameInv => CalibratedIsTrue
  BY DEF FrameInv
<1> QED BY <1>1, FramesInvariant, PTL

(* Every word the program gets is a conversion it asked for, of 14 clocks  *)
(* from a falling CSn: calibrations leave no word behind, no format and no *)
(* CSn that is low, on either interface.  The DAC's initialisation sets    *)
(* spi1 to 16 bits, whatever is on it, so the ADC must not be.             *)
THEOREM ResultsAreWhole ==
  ASSUME AdsUsage = {}, AdcSpi # "spi1" PROVE Spec => []WholeResults
<1>1. Init => Whole
  BY FrameInvInit DEF Init
<1>2. AdsInv /\ FrameTypes /\ Dac121Inv /\ FrameInv /\ Whole /\ [Next]_vars => Whole'
  BY FormatLeftAlone, WholeNext DEF Dac121Inv
<1>3. AdsInv /\ FrameInv /\ Whole => WholeResults
  BY FramesAreWhole
<1> QED BY <1>1, <1>2, <1>3, AdsInvariant, FramesInvariant, Dac121Invariant, PTL DEF Spec
=============================================================================
