----------------------------- MODULE MC_Pi4ioe -----------------------------
(***************************************************************************)
(* Instances of Pi4ioe for TLC: a program that keeps clear of every risk   *)
(* and whose irq_callback keeps to a register of its own, and one whose    *)
(* irq_callback writes the registers that its calls write.                 *)
(***************************************************************************)
EXTENDS Pi4ioe

NoRisk == {}
InterruptRegisters == {"INTERRUPT_MASK", "INPUT_DEFAULT_STATE"}
FirstBit == {{0}}
Outputs == {"OUTPUT_STATE"}
=============================================================================
