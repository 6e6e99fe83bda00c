---------------------------- MODULE MC_NvStruct ----------------------------
(***************************************************************************)
(* Instances of NvStruct for TLC: a program, and a later one that changed  *)
(* the size of the struct and forgot to change its version.                *)
(***************************************************************************)
EXTENDS NvStruct

Program == [version |-> 1, size |-> 4]
Resized == [version |-> 1, size |-> 3]

TwoPrograms == {Program, Resized}
OneProgram == {Program}
Bits == {0, 1}
=============================================================================
