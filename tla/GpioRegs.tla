------------------------------ MODULE GpioRegs ------------------------------
(***************************************************************************)
(* gpio_regs.sv and its driver gpio_regs.c: pins that change at any clock, *)
(* the two-flop synchroniser, edge flags that software clears by writing   *)
(* ones, and driver calls of one or two register accesses with any number  *)
(* of clocks between them.  A step is one clock; registers are sets of     *)
(* pins.  The driver has no call for INPUT_POL and IRQ_MASK: their writes  *)
(* stand for software that accesses the registers directly.                *)
(***************************************************************************)
CONSTANT Pins

VARIABLES
  pins,                      \* gpio_in_i
  sync1, sync2, prev,        \* gpio_sync1_reg, gpio_sync2_reg, gpio_prev_reg
  rise, fall,                \* rise_irq_pending_reg, fall_irq_pending_reg
  pol,                       \* input_pol_reg
  data_out, data_oe, irq_mask,
  pc, arg, rise_bits, edges, \* the driver call under way
  before,                    \* history: sync2 one clock ago
  risen, fallen,             \* history: edges since their flags were cleared
  known, view, differed      \* history: what read_port returned first since
                             \* the pin's flags were cleared, and the pins it
                             \* has returned otherwise later

inputs == <<sync1, sync2, prev, before>>
flags == <<rise, fall, pol, risen, fallen>>
outputs == <<data_out, data_oe, irq_mask>>
driver == <<pc, arg, rise_bits, edges>>
views == <<known, view, differed>>
vars == <<pins, inputs, flags, outputs, driver, views>>

TypeOK ==
  /\ pins \subseteq Pins /\ sync1 \subseteq Pins /\ sync2 \subseteq Pins
  /\ prev \subseteq Pins /\ before \subseteq Pins
  /\ rise \subseteq Pins /\ fall \subseteq Pins /\ pol \subseteq Pins
  /\ risen \subseteq Pins /\ fallen \subseteq Pins
  /\ data_out \subseteq Pins /\ data_oe \subseteq Pins /\ irq_mask \subseteq Pins
  /\ pc \in {"idle", "edge", "told", "clear", "pin"}
  /\ arg \subseteq Pins /\ rise_bits \subseteq Pins /\ edges \subseteq Pins
  /\ known \subseteq Pins /\ view \subseteq Pins /\ differed \subseteq Pins

Init ==
  /\ pins \in SUBSET Pins
  /\ sync1 = {} /\ sync2 = {} /\ prev = {} /\ before = {}
  /\ rise = {} /\ fall = {} /\ pol = {} /\ risen = {} /\ fallen = {}
  /\ data_out = {} /\ data_oe = {} /\ irq_mask = {}
  /\ pc = "idle" /\ arg = {} /\ rise_bits = {} /\ edges = {}
  /\ known = {} /\ view = {} /\ differed = {}

----------------------------------------------------------------------------
(* The register block.                                                     *)

Xor(S, T) == (S \ T) \cup (T \ S)

gpio_in_norm == Xor(sync2, pol)
rise_evt == gpio_in_norm \ prev
fall_evt == prev \ gpio_in_norm

Synchronise ==
  /\ pins' \in SUBSET Pins
  /\ sync1' = pins
  /\ sync2' = sync1
  /\ before' = sync2

(* The edges of this clock, whatever the block makes of them.              *)
Rising == Xor(sync2, before) \cap gpio_in_norm
Falling == Xor(sync2, before) \ gpio_in_norm

(* A clock in which software clears some rising and falling flags: an edge *)
(* of this very clock is cleared with them.                                *)
Flags(clear_rise, clear_fall) ==
  /\ rise' = (rise \cup rise_evt) \ clear_rise
  /\ fall' = (fall \cup fall_evt) \ clear_fall
  /\ prev' = gpio_in_norm
  /\ risen' = (risen \cup Rising) \ clear_rise
  /\ fallen' = (fallen \cup Falling) \ clear_fall
  /\ UNCHANGED pol

(* Faulty variant: the previous levels are kept in the old polarity.       *)
PolarityKeepsPrev(new_pol) ==
  /\ pol' = new_pol
  /\ prev' = gpio_in_norm
  /\ UNCHANGED <<rise, fall, risen, fallen>>

(* A clock in which the polarity is written: no edge counts in it, of any  *)
(* pin, and the previous levels are taken over in the new polarity.        *)
Polarity(new_pol) ==
  /\ pol' = new_pol
  /\ prev' = Xor(sync2, new_pol)
  /\ UNCHANGED <<rise, fall, risen, fallen>>

----------------------------------------------------------------------------
(* The accesses of the driver, each in a clock of its own.                 *)

Quiet == Flags({}, {}) /\ UNCHANGED outputs

NoAccess ==
  /\ Quiet
  /\ UNCHANGED <<driver, views>>

(* read_port, and read_pin, which looks at one bit of it.                  *)
read_port ==
  /\ pc = "idle"
  /\ Quiet
  /\ known' = Pins
  /\ view' = (view \cap known) \cup (gpio_in_norm \ known)
  /\ differed' = differed \cup (Xor(gpio_in_norm, view) \cap known)
  /\ UNCHANGED driver

(* Faulty variant: the second register read replaces the first.            *)
ReadEdgeFallOnly ==
  /\ \/ /\ pc = "idle" /\ pc' = "edge"
        /\ rise_bits' = rise
        /\ UNCHANGED edges
     \/ /\ pc = "edge" /\ pc' = "told"
        /\ edges' = fall
        /\ UNCHANGED rise_bits
     \/ /\ pc = "told" /\ pc' = "idle"
        /\ edges' = {} /\ rise_bits' = {}
  /\ Quiet
  /\ UNCHANGED <<arg, views>>

(* Two reads, and the caller gets the result.                              *)
read_edge ==
  /\ \/ /\ pc = "idle" /\ pc' = "edge"
        /\ rise_bits' = rise
        /\ UNCHANGED edges
     \/ /\ pc = "edge" /\ pc' = "told"
        /\ edges' = (rise_bits \cup fall)
        /\ UNCHANGED rise_bits
     \/ /\ pc = "told" /\ pc' = "idle"
        /\ edges' = {} /\ rise_bits' = {}
  /\ Quiet
  /\ UNCHANGED <<arg, views>>

Forget(mask) ==
  /\ known' = known \ mask
  /\ differed' = differed \ mask
  /\ view' = view \ mask

(* Two writes of the same mask.                                            *)
clear_edge ==
  /\ \/ /\ pc = "idle" /\ pc' = "clear"
        /\ \E mask \in SUBSET Pins :
             arg' = mask /\ Flags(mask, {}) /\ Forget(mask)
     \/ /\ pc = "clear" /\ pc' = "idle"
        /\ arg' = {} /\ Flags({}, arg) /\ Forget(arg)
  /\ UNCHANGED <<rise_bits, edges, outputs>>

WriteOutputs(out, oe, mask) ==
  /\ data_out' = out /\ data_oe' = oe /\ irq_mask' = mask
  /\ Flags({}, {})
  /\ UNCHANGED <<rise_bits, edges, views>>

write_port ==
  /\ pc = "idle"
  /\ \E value \in SUBSET Pins : WriteOutputs(value, data_oe, irq_mask)
  /\ UNCHANGED <<pc, arg>>

(* The port is read and written back with one bit changed.                 *)
write_pin ==
  \/ /\ pc = "idle" /\ pc' = "pin"
     /\ \E p \in Pins : arg' \in {data_out \cup {p}, data_out \ {p}}
     /\ Quiet
     /\ UNCHANGED <<rise_bits, edges, views>>
  \/ /\ pc = "pin" /\ pc' = "idle"
     /\ arg' = {}
     /\ WriteOutputs(arg, data_oe, irq_mask)

(* TRIS has a one where the pin is an input, OE where it is an output.     *)
set_tris ==
  /\ pc = "idle"
  /\ \E tris_mask \in SUBSET Pins :
       WriteOutputs(data_out, Pins \ tris_mask, irq_mask)
  /\ UNCHANGED <<pc, arg>>

WriteIrqMask ==
  /\ pc = "idle"
  /\ \E mask \in SUBSET Pins : WriteOutputs(data_out, data_oe, mask)
  /\ UNCHANGED <<pc, arg>>

WritePolarity ==
  /\ pc = "idle"
  /\ \E new_pol \in SUBSET Pins : Polarity(new_pol)
  /\ Forget(Pins)
  /\ UNCHANGED <<outputs, driver>>

Clock ==
  \/ NoAccess \/ read_port \/ read_edge \/ clear_edge
  \/ write_port \/ write_pin \/ set_tris \/ WriteIrqMask \/ WritePolarity

Next == Synchronise /\ Clock

Spec == Init /\ [][Next]_vars

----------------------------------------------------------------------------

(* A flag tells a real edge: the synchronised pin has moved in that        *)
(* direction since the flag was last cleared, and no change of the         *)
(* polarity passes for an edge (gpio_regs.sv:191).                         *)
NoFalseEdge == rise \subseteq risen /\ fall \subseteq fallen

(* What read_edge returns names every pin that read_port has returned with *)
(* two levels since its flags were cleared and the polarity was written,   *)
(* whenever the edges come between the reads, and no pin that did not      *)
(* move.                                                                   *)
EdgesTold ==
  pc = "told" => differed \subseteq edges /\ edges \subseteq risen \cup fallen
=============================================================================
