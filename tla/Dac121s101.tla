----------------------------- MODULE Dac121s101 -----------------------------
(***************************************************************************)
(* The DAC121S101 driver (src/dac121s101.c) and the DAC it writes to.      *)
(* Every call sends one frame, blocking, and nothing comes back.           *)
(***************************************************************************)
EXTENDS SpiBlocks

CONSTANTS
  DacSpi,       \* the SPI block the DAC is on
  Dac121Data    \* values the program writes: 16 bits, of which the DAC has 12

ASSUME Dac121Assumption ==
  /\ DacSpi \in Spis
  /\ \A data \in Dac121Data : data \in Nat /\ data < 65536

VARIABLES
  dac121,      \* the instance, and whether it has been initialised
  dac121_reg   \* what the DAC holds: a register and a power-down state

dac121Vars == <<format, dac121, dac121_reg>>

PD121 == 0..3    \* dac121s101_pd_states_t
DAC121S101_PD_NORM == 0

FrameUnmasked(pd_state, data) == data + 4096 * pd_state
dac121s101_assemble_frame(pd_state, data) == (data % 4096) + 4096 * pd_state

(* The DAC takes in 16 bits.                                               *)
Transfer121(frame, bits) ==
  dac121_reg' = IF bits = 16
                THEN [data |-> frame % 4096, pd |-> frame \div 4096]
                ELSE dac121_reg

DataCopied(data, pd_state) == [dac121 EXCEPT !.up = TRUE, !.data_copy = data]
Copied(data, pd_state) ==
  [up |-> TRUE, data_copy |-> data, pd_state_copy |-> pd_state]

Write121(data, pd_state) ==
  /\ dac121.up
  /\ dac121' = Copied(data, pd_state)
  /\ Transfer121(dac121s101_assemble_frame(pd_state, data), format[DacSpi])
  /\ UNCHANGED format

(* spi1 is set to 16 bits whichever block the DAC is on; the block's own   *)
(* format is written right after, in its register.                         *)
dac121s101_init_hw_spi ==
  /\ ~dac121.up
  /\ dac121' = Copied(0, DAC121S101_PD_NORM)
  /\ format' = [format EXCEPT !["spi1"] = 16, ![DacSpi] = 16]
  /\ Transfer121(dac121s101_assemble_frame(DAC121S101_PD_NORM, 0), format'[DacSpi])

dac121s101_write_all ==
  \E data \in Dac121Data, pd_state \in PD121 : Write121(data, pd_state)

dac121s101_write_data ==
  \E data \in Dac121Data : Write121(data, dac121.pd_state_copy)

dac121s101_change_pd_state ==
  \E pd_state \in PD121 : Write121(dac121.data_copy, pd_state)

---------------------------------------------------------------------------
(* What the instance and the DAC hold before the first frame is not used:  *)
(* both are set by it.                                                     *)
Dac121Init ==
  /\ dac121 = [up |-> FALSE, data_copy |-> 0, pd_state_copy |-> DAC121S101_PD_NORM]
  /\ dac121_reg = [data |-> 0, pd |-> DAC121S101_PD_NORM]

Dac121Next ==
  \/ dac121s101_init_hw_spi
  \/ dac121s101_write_all
  \/ dac121s101_write_data
  \/ dac121s101_change_pd_state

---------------------------------------------------------------------------
(* Properties                                                              *)

Dac121TypeOK ==
  /\ dac121 \in [up : BOOLEAN, data_copy : Dac121Data \cup {0}, pd_state_copy : PD121]
  /\ dac121_reg \in [data : 0..4095, pd : PD121]

(* "This struct ... holds copy of power-down state and data": from the     *)
(* initialisation on, what the DAC holds and what the copies say is one    *)
(* thing, so that a call that sets one of the two leaves the other alone.  *)
Dac121Mirrored ==
  dac121.up => /\ dac121_reg.data = dac121.data_copy % 4096
               /\ dac121_reg.pd = dac121.pd_state_copy
=============================================================================
