----------------------------- MODULE GpioProofs -----------------------------
(***************************************************************************)
(* Proofs that the edge flags of the GPIO block tell real edges and that   *)
(* no edge between two reads of the port is missed, for any set of pins.   *)
(***************************************************************************)
EXTENDS GpioRegs, TLAPS

(* The previous normalised levels are the previous synchronised levels in  *)
(* the polarity now in force.                                              *)
PrevInv == prev = Xor(before, pol)

(* A pin whose level differs from the view has a flag, and so has a pin    *)
(* that read_port has seen differ.                                         *)
ViewInv ==
  /\ view \subseteq known /\ differed \subseteq known
  /\ Xor(view, prev) \cap known \subseteq rise \cup fall
  /\ differed \subseteq rise \cup fall

(* Halfway through read_edge, the bits it has and the flags it will read.  *)
HalfInv == pc = "edge" => /\ differed \subseteq rise_bits \cup fall
                          /\ rise_bits \subseteq risen

BlockTypes ==
  /\ pins \subseteq Pins /\ sync1 \subseteq Pins /\ sync2 \subseteq Pins
  /\ prev \subseteq Pins /\ before \subseteq Pins
  /\ rise \subseteq Pins /\ fall \subseteq Pins /\ pol \subseteq Pins
  /\ risen \subseteq Pins /\ fallen \subseteq Pins

IInv ==
  TypeOK /\ PrevInv /\ NoFalseEdge /\ ViewInv /\ HalfInv /\ EdgesTold

----------------------------------------------------------------------------

LEMMA InitIInv == Init => IInv
BY DEF Init, IInv, TypeOK, PrevInv, Xor, NoFalseEdge, ViewInv, HalfInv, EdgesTold

(* A clock flags every edge, unless software clears that flag.             *)
LEMMA FlagsStep ==
  ASSUME TypeOK, PrevInv, NoFalseEdge, Synchronise,
         NEW cr \in SUBSET Pins, NEW cf \in SUBSET Pins, Flags(cr, cf)
  PROVE  /\ BlockTypes' /\ PrevInv' /\ NoFalseEdge'
         /\ prev' = gpio_in_norm
         /\ Xor(prev', prev) \subseteq rise' \cup fall' \cup cr \cup cf
         /\ rise \ cr \subseteq rise' /\ fall \ cf \subseteq fall'
         /\ risen \ cr \subseteq risen' /\ fallen \ cf \subseteq fallen'
<1>1. gpio_in_norm \subseteq Pins /\ rise_evt \subseteq Pins /\ fall_evt \subseteq Pins
  BY DEF TypeOK, gpio_in_norm, Xor, rise_evt, fall_evt
<1>2. Rising = rise_evt /\ Falling = fall_evt
  BY DEF Rising, Falling, rise_evt, fall_evt, gpio_in_norm, Xor, PrevInv
<1>3. pins' \subseteq Pins /\ sync1' \subseteq Pins /\ sync2' \subseteq Pins
      /\ before' \subseteq Pins
  BY DEF Synchronise, TypeOK
<1>4. PrevInv'
  BY DEF PrevInv, Flags, Synchronise, gpio_in_norm, Xor
<1>5. NoFalseEdge'
  BY <1>2 DEF NoFalseEdge, Flags
<1> QED
  BY <1>1, <1>2, <1>3, <1>4, <1>5
     DEF Flags, TypeOK, BlockTypes, Xor, rise_evt, fall_evt

LEMMA QuietFlags ==
  ASSUME IInv, Synchronise, Flags({}, {})
  PROVE  /\ BlockTypes' /\ PrevInv' /\ NoFalseEdge'
         /\ prev' = gpio_in_norm
         /\ rise \cup fall \subseteq rise' \cup fall'
         /\ Xor(prev', prev) \subseteq rise' \cup fall'
         /\ fall \subseteq fall' /\ risen \subseteq risen' /\ fallen \subseteq fallen'
<1>1. {} \in SUBSET Pins
  OBVIOUS
<1>2. /\ BlockTypes' /\ PrevInv' /\ NoFalseEdge'
      /\ prev' = gpio_in_norm
      /\ Xor(prev', prev) \subseteq rise' \cup fall' \cup {} \cup {}
      /\ rise \ {} \subseteq rise' /\ fall \ {} \subseteq fall'
      /\ risen \ {} \subseteq risen' /\ fallen \ {} \subseteq fallen'
  BY <1>1, FlagsStep DEF IInv
<1> QED
  BY <1>2

LEMMA QuietStep ==
  ASSUME IInv, Synchronise, Flags({}, {}), UNCHANGED views
  PROVE  ViewInv'
BY QuietFlags DEF IInv, ViewInv, views, Xor

(* Clocks in which the driver does nothing with the edges.                 *)
LEMMA PlainStep ==
  ASSUME IInv, Synchronise, Flags({}, {}), UNCHANGED <<views, rise_bits, edges>>,
         pc' = pc \/ {pc, pc'} \subseteq {"idle", "pin"},
         arg' \subseteq Pins,
         data_out' \subseteq Pins, data_oe' \subseteq Pins, irq_mask' \subseteq Pins
  PROVE  IInv'
<1>1. /\ BlockTypes' /\ PrevInv' /\ NoFalseEdge'
      /\ fall \subseteq fall' /\ risen \subseteq risen' /\ fallen \subseteq fallen'
  BY QuietFlags
<1>2. TypeOK'
  BY <1>1 DEF IInv, BlockTypes, TypeOK, views
<1>3. HalfInv' /\ EdgesTold'
  BY <1>1 DEF IInv, HalfInv, EdgesTold, views
<1> QED
  BY <1>1, <1>2, <1>3, QuietStep DEF IInv

LEMMA ReadPortStep ==
  ASSUME IInv, Synchronise, read_port
  PROVE  IInv'
<1>0. Flags({}, {}) /\ UNCHANGED <<outputs, driver>> /\ pc = "idle"
  BY DEF read_port, Quiet
<1>1. /\ BlockTypes' /\ PrevInv' /\ NoFalseEdge'
      /\ prev' = gpio_in_norm
      /\ rise \cup fall \subseteq rise' \cup fall'
      /\ Xor(prev', prev) \subseteq rise' \cup fall'
  BY <1>0, QuietFlags
<1>2. /\ known' = Pins
      /\ view' = (view \cap known) \cup (prev' \ known)
      /\ differed' = differed \cup (Xor(prev', view) \cap known)
  BY <1>1 DEF read_port
<1>3. TypeOK'
  BY <1>0, <1>1, <1>2 DEF IInv, BlockTypes, TypeOK, outputs, driver, Xor
<1>4. ViewInv'
  BY <1>1, <1>2 DEF IInv, BlockTypes, TypeOK, ViewInv, Xor
<1> QED
  BY <1>0, <1>1, <1>3, <1>4 DEF IInv, HalfInv, EdgesTold, driver

LEMMA ReadEdgeStep ==
  ASSUME IInv, Synchronise, read_edge
  PROVE  IInv'
<1>0. Flags({}, {}) /\ UNCHANGED <<outputs, views, arg>>
  BY DEF read_edge, Quiet
<1>1. /\ BlockTypes' /\ PrevInv' /\ NoFalseEdge'
      /\ fall \subseteq fall' /\ risen \subseteq risen' /\ fallen \subseteq fallen'
  BY <1>0, QuietFlags
<1>2. pc' \in {"edge", "told", "idle"} /\ rise_bits' \subseteq Pins /\ edges' \subseteq Pins
  BY DEF read_edge, IInv, TypeOK
<1>3. TypeOK'
  BY <1>0, <1>1, <1>2 DEF IInv, BlockTypes, TypeOK, outputs, views
<1>4. HalfInv' /\ EdgesTold'
  BY <1>0, <1>1
     DEF read_edge, IInv, HalfInv, EdgesTold, ViewInv, NoFalseEdge, views
<1> QED
  BY <1>0, <1>1, <1>3, <1>4, QuietStep DEF IInv

LEMMA ClearEdgeStep ==
  ASSUME IInv, Synchronise, clear_edge
  PROVE  IInv'
<1>1. PICK cr \in SUBSET Pins, cf \in SUBSET Pins :
        Flags(cr, cf) /\ Forget(cr \cup cf)
  <2>1. CASE pc = "idle"
    <3>1. PICK mask \in SUBSET Pins : Flags(mask, {}) /\ Forget(mask)
      BY <2>1 DEF clear_edge
    <3>2. mask \cup {} = mask /\ {} \in SUBSET Pins
      OBVIOUS
    <3> QED
      BY <3>1, <3>2
  <2>2. CASE pc = "clear"
    <3>1. Flags({}, arg) /\ Forget(arg)
      BY <2>2 DEF clear_edge
    <3>2. {} \cup arg = arg /\ {} \in SUBSET Pins /\ arg \in SUBSET Pins
      BY DEF IInv, TypeOK
    <3> QED
      BY <3>1, <3>2
  <2> QED
    BY <2>1, <2>2 DEF clear_edge
<1>2. /\ BlockTypes' /\ PrevInv' /\ NoFalseEdge'
      /\ (rise \cup fall) \ (cr \cup cf) \subseteq rise' \cup fall'
      /\ Xor(prev', prev) \subseteq rise' \cup fall' \cup cr \cup cf
  BY <1>1, FlagsStep DEF IInv
<1>3. /\ pc' \in {"clear", "idle"} /\ arg' \subseteq Pins
      /\ UNCHANGED <<rise_bits, edges, outputs>>
  BY DEF clear_edge
<1>4. TypeOK'
  BY <1>1, <1>2, <1>3 DEF IInv, BlockTypes, TypeOK, outputs, Forget
<1>5. ViewInv'
  BY <1>1, <1>2 DEF IInv, ViewInv, Forget, Xor
<1> QED
  BY <1>2, <1>3, <1>4, <1>5 DEF IInv, HalfInv, EdgesTold

LEMMA PolarityStep ==
  ASSUME IInv, Synchronise, WritePolarity
  PROVE  IInv'
<1>1. PICK new_pol \in SUBSET Pins : Polarity(new_pol)
  BY DEF WritePolarity
<1>2. /\ prev' = Xor(sync2, new_pol) /\ pol' = new_pol
      /\ UNCHANGED <<rise, fall, risen, fallen, outputs, driver>>
      /\ pc = "idle"
      /\ pins' \subseteq Pins /\ sync1' = pins /\ sync2' = sync1 /\ before' = sync2
  BY <1>1 DEF Polarity, WritePolarity, Synchronise
<1>3. known' \subseteq {} /\ view' \subseteq {} /\ differed' \subseteq {}
  BY DEF WritePolarity, Forget, IInv, TypeOK
<1>4. TypeOK'
  BY <1>2, <1>3 DEF IInv, BlockTypes, TypeOK, outputs, driver, Xor
<1>5. PrevInv' /\ NoFalseEdge'
  BY <1>2 DEF IInv, PrevInv, NoFalseEdge, Xor
<1>6. ViewInv' /\ HalfInv' /\ EdgesTold'
  BY <1>2, <1>3 DEF ViewInv, HalfInv, EdgesTold, driver
<1> QED
  BY <1>4, <1>5, <1>6 DEF IInv

LEMMA OutputStep ==
  ASSUME IInv, Synchronise,
         NoAccess \/ write_port \/ write_pin \/ set_tris \/ WriteIrqMask
  PROVE  IInv'
<1>1. CASE NoAccess
  BY <1>1, PlainStep
     DEF NoAccess, Quiet, driver, outputs, IInv, TypeOK
<1>2. CASE write_port \/ set_tris \/ WriteIrqMask
  BY <1>2, PlainStep
     DEF write_port, set_tris, WriteIrqMask, WriteOutputs, IInv, TypeOK
<1>3. CASE write_pin
  BY <1>3, PlainStep DEF write_pin, Quiet, WriteOutputs, outputs, IInv, TypeOK
<1> QED
  BY <1>1, <1>2, <1>3

THEOREM Inductive == Spec => []IInv
<1>1. IInv /\ [Next]_vars => IInv'
  <2> SUFFICES ASSUME IInv, [Next]_vars PROVE IInv'
    OBVIOUS
  <2>1. CASE Next
    BY <2>1, ReadPortStep, ReadEdgeStep, ClearEdgeStep, PolarityStep, OutputStep
       DEF Next, Clock
  <2>2. CASE UNCHANGED vars
    BY <2>2
       DEF vars, inputs, flags, outputs, driver, views, IInv, TypeOK, PrevInv,
           NoFalseEdge, ViewInv, HalfInv, EdgesTold
  <2> QED
    BY <2>1, <2>2
<1> QED
  BY InitIInv, <1>1, PTL DEF Spec

(* Every flag tells a real edge, through any polarity writes               *)
(* (gpio_regs.sv:191).                                                     *)
THEOREM FlagsTellEdges == Spec => []NoFalseEdge
<1>1. IInv => NoFalseEdge
  BY DEF IInv
<1> QED
  BY <1>1, Inductive, PTL

(* Every difference between two reads of the port is told by read_edge,    *)
(* and nothing else is.                                                    *)
THEOREM EdgesAreTold == Spec => [](TypeOK /\ EdgesTold)
<1>1. IInv => TypeOK /\ EdgesTold
  BY DEF IInv
<1> QED
  BY <1>1, Inductive, PTL
=============================================================================
