-------------------------------- MODULE Seg7 --------------------------------
(***************************************************************************)
(* The seven-segment display as software uses it: the registers of         *)
(* seg7_debug_regs.sv as one record, the driver of seg7_debug_regs.c as    *)
(* functions from record to record, and what seg7_debug_core.sv lights.    *)
(* A 24-bit value is six hexadecimal digits, 0 the rightmost; decimal      *)
(* points and blanking are sets of digits.  FREEZE and SNAPSHOT, which no  *)
(* program uses, are left out.                                             *)
(***************************************************************************)
EXTENDS Integers

Digits == 0..5
Values == [Digits -> 0..15]
Modes == {"full6", "split2x12", "split3x8", "raw"}

Zero == [i \in Digits |-> 0]

Registers ==
  [enable : BOOLEAN, mode : Modes, software : BOOLEAN, sw_value : Values,
   dp_n : SUBSET Digits, blank : SUBSET Digits]

Reset ==
  [enable |-> FALSE, mode |-> "full6", software |-> FALSE, sw_value |-> Zero,
   dp_n |-> Digits, blank |-> {}]

SetSwValue(regs, value) == [regs EXCEPT !.sw_value = value]
SetDpN(regs, digits) == [regs EXCEPT !.dp_n = digits]
SetBlank(regs, digits) == [regs EXCEPT !.blank = digits]

(* The last write of seg7_init: enabled, six digits, the live source.      *)
InitCtrl(regs) ==
  [regs EXCEPT !.enable = TRUE, !.mode = "full6", !.software = FALSE]

(* seg7_update_ctrl reads CTRL and writes it back: its other fields stay.  *)
SelectSoftware(regs) == [regs EXCEPT !.software = TRUE]
SetMode(regs, mode) == [regs EXCEPT !.mode = mode]

active_value(regs, live) == IF regs.software THEN regs.sw_value ELSE live

Dark(regs) == IF regs.enable THEN regs.blank ELSE Digits

(* The decimal points that split the digits in two or three groups, and    *)
(* those software asks for.                                                *)
Points(regs) ==
  (Digits \ regs.dp_n)
    \cup (IF regs.mode = "split2x12" THEN {3}
          ELSE IF regs.mode = "split3x8" THEN {2, 4} ELSE {})
=============================================================================
