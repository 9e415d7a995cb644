---------------------------- MODULE AxiLiteSlave ----------------------------
(***************************************************************************)
(* What a register wrapper promises its bus master, whatever its pipeline: *)
(*   - AW and W beats are queued apart and paired in order, and a write is *)
(*     executed once, after both its beats were taken;                     *)
(*   - a read returns what the register held when it was executed;         *)
(*   - every executed access puts one response in the queue of its kind,   *)
(*     and a response leaves the queue only by being taken by the master.  *)
(* At most one access is executed in a clock: the wrappers serialise reads *)
(* and writes over one internal request channel.                           *)
(*                                                                         *)
(* The queues are unbounded here; an implementation bounds them by keeping *)
(* READY low.                                                              *)
(***************************************************************************)
EXTENDS AxiLiteBus, Sequences

VARIABLES
  regs,           \* the register file
  awq, wq, arq,   \* beats taken and not executed
  bq, rq          \* responses of executed accesses, not taken by the master

vars == <<masterVars, regs, awq, wq, arq, bq, rq>>

TypeOK ==
  /\ MasterTypeOK
  /\ regs \in RegFile
  /\ awq \in Seq(Addr) /\ wq \in Seq(Data) /\ arq \in Seq(Addr)
  /\ bq \in Seq(BOOLEAN) /\ rq \in Seq(Response)

Init ==
  /\ MasterInit
  /\ regs = ResetRegs
  /\ awq = <<>> /\ wq = <<>> /\ arq = <<>> /\ bq = <<>> /\ rq = <<>>

(* The queue after a clock: its head leaves if `drop`, `add` comes behind. *)
Shift(q, drop, add) == (IF drop THEN Tail(q) ELSE q) \o add

Taken(beat, fire) == IF fire THEN <<beat>> ELSE <<>>

(* The access executed in this clock, if any. *)
Access ==
  {"none"} \cup (IF awq # <<>> /\ wq # <<>> THEN {"write"} ELSE {})
           \cup (IF arq # <<>> THEN {"read"} ELSE {})

Clock(aw_fire, w_fire, ar_fire, b_fire, r_fire) ==
  /\ aw_fire => awaddr # NoBeat
  /\ w_fire => wdata # NoBeat
  /\ ar_fire => araddr # NoBeat
  /\ b_fire => bq # <<>>
  /\ r_fire => rq # <<>>
  /\ \E access \in Access :
       LET wr == access = "write"
           rd == access = "read"
       IN  /\ regs' = IF wr THEN WriteReg(regs, Head(awq), Head(wq)) ELSE regs
           /\ awq' = Shift(awq, wr, Taken(awaddr, aw_fire))
           /\ wq' = Shift(wq, wr, Taken(wdata, w_fire))
           /\ arq' = Shift(arq, rd, Taken(araddr, ar_fire))
           /\ bq' = Shift(bq, b_fire, IF wr THEN <<Head(awq) \in BadAddr>> ELSE <<>>)
           /\ rq' = Shift(rq, r_fire, IF rd THEN <<ReadRsp(regs, Head(arq))>> ELSE <<>>)
  /\ Master(FALSE, aw_fire, w_fire, ar_fire, b_fire, r_fire)

Next ==
  \E aw_fire, w_fire, ar_fire, b_fire, r_fire \in BOOLEAN :
    Clock(aw_fire, w_fire, ar_fire, b_fire, r_fire)

Spec == Init /\ [][Next]_vars
=============================================================================
