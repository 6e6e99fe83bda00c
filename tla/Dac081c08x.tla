----------------------------- MODULE Dac081c08x -----------------------------
(***************************************************************************)
(* The DAC081C08x driver (src/dac081c08x.c) and the DAC it writes to.      *)
(* Every call sends two bytes over I2C and ignores whether they arrived.   *)
(***************************************************************************)
EXTENDS Integers

CONSTANT Dac081Data    \* values the program writes: 8 bits, all of them the DAC's

ASSUME Dac081Assumption == Dac081Data \subseteq 0..255

VARIABLES
  dac081,      \* the instance, and whether it has been initialised
  dac081_reg,  \* what the DAC holds: a register and a power-down state
  delivered    \* the last transfer arrived (a history)

dac081Vars == <<dac081, dac081_reg, delivered>>

PD081 == 0..3    \* dac081c08x_pd_states_t
DAC081C08X_PD_NORM == 0

(* The bits of a value under DAC081C08X_PD_BITS, 0x3000.                   *)
PdBits(value) == 4096 * ((value \div 4096) % 4)

(* frame[0] and frame[1].  The mask for the power-down bits is that of the *)
(* whole frame, for bits that have been shifted to where they are in its   *)
(* first byte.                                                             *)
FrameUnshifted(pd_state, data) == <<0, data>>
dac081c08x_assemble_frame(pd_state, data) ==
  <<(PdBits(16 * pd_state) + data \div 16) % 256, (16 * data) % 256>>

Received081(frame) ==
  [data |-> 16 * (frame[1] % 16) + frame[2] \div 16, pd |-> (frame[1] \div 16) % 4]

(* i2c_write_blocking fails when the DAC does not acknowledge.             *)
Transfer081(frame) ==
  /\ delivered' \in BOOLEAN
  /\ dac081_reg' = IF delivered' THEN Received081(frame) ELSE dac081_reg

Write081(data, pd_state) ==
  /\ dac081' = [up |-> TRUE, data_copy |-> data, pd_state_copy |-> pd_state]
  /\ Transfer081(dac081c08x_assemble_frame(pd_state, data))

dac081c08x_init == ~dac081.up /\ Write081(0, DAC081C08X_PD_NORM)

dac081c08x_write_all ==
  /\ dac081.up
  /\ \E data \in Dac081Data, pd_state \in PD081 : Write081(data, pd_state)

dac081c08x_write_data ==
  /\ dac081.up
  /\ \E data \in Dac081Data : Write081(data, dac081.pd_state_copy)

dac081c08x_change_pd_state ==
  /\ dac081.up
  /\ \E pd_state \in PD081 : Write081(dac081.data_copy, pd_state)

---------------------------------------------------------------------------
(* The first frame may not arrive: until one does the DAC holds anything.  *)
Dac081Init ==
  /\ dac081 = [up |-> FALSE, data_copy |-> 0, pd_state_copy |-> DAC081C08X_PD_NORM]
  /\ dac081_reg \in [data : Dac081Data, pd : PD081]
  /\ delivered = FALSE

Dac081Next ==
  \/ dac081c08x_init
  \/ dac081c08x_write_all
  \/ dac081c08x_write_data
  \/ dac081c08x_change_pd_state

---------------------------------------------------------------------------
(* Properties                                                              *)

Dac081TypeOK ==
  /\ dac081 \in [up : BOOLEAN, data_copy : Dac081Data \cup {0}, pd_state_copy : PD081]
  /\ dac081_reg \in [data : 0..255, pd : PD081]
  /\ delivered \in BOOLEAN

(* One transfer that arrives makes good whatever earlier ones lost: the    *)
(* DAC then outputs the value written last, also when the call was one     *)
(* that is about the power-down state.                                     *)
Dac081CatchesUp ==
  delivered => dac081_reg.data = dac081.data_copy

(* And it is in the power-down state asked for last: "The first [byte]     *)
(* contains the power down values" (dac081c08x.h:20), and                  *)
(* dac081c08x_change_pd_state is there to "Set only power-down state and   *)
(* leave DAC register data unchanged" (dac081c08x.h:151).  The mask leaves *)
(* no such bits in the frame, so that every call powers the DAC up.        *)
PowerDownArrives ==
  delivered => dac081_reg.pd = dac081.pd_state_copy
=============================================================================
