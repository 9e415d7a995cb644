---------------------------- MODULE AxiLiteHold -----------------------------
(***************************************************************************)
(* The wrapper structure axi_lite_i2c.sv and axi_lite_spi.sv share: three  *)
(* holding registers on the AXI side, one staged MMIO request, and the B   *)
(* and R response registers.  They differ in one condition: the I2C copy   *)
(* stages a request only when the previous response has left as well.      *)
(*                                                                         *)
(* A clock edge is one step.  Signals the RTL computes combinationally are *)
(* operators with their RTL names; every register gets its next value from *)
(* the values before the edge, the later assignment of a cycle winning, as *)
(* nonblocking assignments do.                                             *)
(***************************************************************************)
EXTENDS MmioTarget, Sequences

CONSTANTS
  Wrappers,   \* the wrappers looked at: "i2c", "spi"
  Pipelined   \* those whose master has several transactions under way

ASSUME HoldAssumption ==
  /\ Wrappers \subseteq {"i2c", "spi"}
  /\ Pipelined \subseteq Wrappers

VARIABLES
  wrapper,                   \* which of the two files: it never changes
  aw_hold, w_hold, ar_hold,  \* held beats; NoBeat: hold_valid is 0
  req_pending,               \* staged MMIO request, or NoReq
  mmio_busy,                 \* a request is accepted and unanswered
  mmio_active_write,         \* ... and it is a write
  s_axil_bvalid, s_axil_bresp,
  s_axil_rvalid, s_axil_rresp   \* RDATA and RRESP together

bridgeVars == <<wrapper, aw_hold, w_hold, ar_hold, req_pending, mmio_busy,
                mmio_active_write, s_axil_bvalid, s_axil_bresp,
                s_axil_rvalid, s_axil_rresp, regs, rsp>>

vars == <<masterVars, bridgeVars>>

BridgeTypeOK ==
  /\ wrapper \in Wrappers
  /\ aw_hold \in Beats(Addr) /\ w_hold \in Beats(Data) /\ ar_hold \in Beats(Addr)
  /\ req_pending \in WriteReq \cup ReadReq \cup {NoReq}
  /\ mmio_busy \in BOOLEAN /\ mmio_active_write \in BOOLEAN
  /\ s_axil_bvalid \in BOOLEAN /\ s_axil_bresp \in BOOLEAN
  /\ s_axil_rvalid \in BOOLEAN /\ s_axil_rresp \in Response
  /\ TargetTypeOK

Init ==
  /\ MasterInit
  /\ wrapper \in Wrappers
  /\ aw_hold = NoBeat /\ w_hold = NoBeat /\ ar_hold = NoBeat
  /\ req_pending = NoReq /\ mmio_busy = FALSE /\ mmio_active_write = FALSE
  /\ s_axil_bvalid = FALSE /\ s_axil_bresp = FALSE
  /\ s_axil_rvalid = FALSE /\ s_axil_rresp = [data |-> Zero, err |-> FALSE]
  /\ TargetInit

----------------------------------------------------------------------------
(* Combinational signals.                                                  *)

(* Faulty variant: AWREADY stays up over a held address. *)
aw_fire_over_held == awaddr # NoBeat

aw_fire == awaddr # NoBeat /\ aw_hold = NoBeat
w_fire  == wdata # NoBeat /\ w_hold = NoBeat
ar_fire == araddr # NoBeat /\ ar_hold = NoBeat

req_pending_valid == req_pending # NoReq
rsp_fire == rsp_valid /\ mmio_busy
req_fire == MmioFire(req_pending, mmio_busy)

axi_resp_busy == s_axil_bvalid \/ s_axil_rvalid

(* Faulty variant: the I2C copy without its extra condition. *)
launch_free_early == ~req_pending_valid /\ ~mmio_busy

(* When a held request may be staged. *)
launch_free ==
  ~req_pending_valid /\ ~mmio_busy /\ (wrapper = "i2c" => ~axi_resp_busy)

(* Faulty variant: a lone write address holds back reads. *)
launch_read_blocked == launch_free /\ aw_hold = NoBeat /\ ar_hold # NoBeat

(* Writes go first when both kinds are held. *)
launch_write_req == launch_free /\ aw_hold # NoBeat /\ w_hold # NoBeat
launch_read_req  == launch_free /\ ~launch_write_req /\ ar_hold # NoBeat

----------------------------------------------------------------------------
(* The registers, each with the assignments of the clocked block.          *)

HoldRegs ==
  /\ aw_hold' = IF req_fire /\ req_pending.write THEN NoBeat
                ELSE IF aw_fire THEN awaddr ELSE aw_hold
  /\ w_hold' = IF req_fire /\ req_pending.write THEN NoBeat
               ELSE IF w_fire THEN wdata ELSE w_hold
  /\ ar_hold' = IF req_fire /\ ~req_pending.write THEN NoBeat
                ELSE IF ar_fire THEN araddr ELSE ar_hold

StageRequest ==
  req_pending' =
    IF req_fire THEN NoReq
    ELSE IF launch_read_req
         THEN ReadRequest(ar_hold)
    ELSE IF launch_write_req
         THEN WriteRequest(aw_hold, w_hold)
    ELSE req_pending

(* Faulty variant: once a write, always a write. *)
TrackMmioSticky ==
  /\ mmio_busy' = IF rsp_fire THEN FALSE ELSE mmio_busy \/ req_fire
  /\ mmio_active_write' = (mmio_active_write \/ (req_fire /\ req_pending.write))

TrackMmio ==
  /\ mmio_busy' = IF rsp_fire THEN FALSE ELSE mmio_busy \/ req_fire
  /\ mmio_active_write' = IF req_fire THEN req_pending.write ELSE mmio_active_write

ResponseRegs(b_fire, r_fire) ==
  LET b_load == rsp_fire /\ mmio_active_write
      r_load == rsp_fire /\ ~mmio_active_write
  IN  /\ s_axil_bvalid' = IF b_fire THEN FALSE ELSE s_axil_bvalid \/ b_load
      /\ s_axil_bresp' = IF b_load THEN rsp.err ELSE s_axil_bresp
      /\ s_axil_rvalid' = IF r_fire THEN FALSE ELSE s_axil_rvalid \/ r_load
      /\ s_axil_rresp' = IF r_load THEN rsp ELSE s_axil_rresp

Clock(bready, rready) ==
  LET b_fire == s_axil_bvalid /\ bready
      r_fire == s_axil_rvalid /\ rready
  IN  /\ HoldRegs
      /\ StageRequest
      /\ TrackMmio
      /\ ResponseRegs(b_fire, r_fire)
      /\ Target(req_pending, mmio_busy)
      /\ Master(wrapper \notin Pipelined, aw_fire, w_fire, ar_fire, b_fire, r_fire)
      /\ UNCHANGED wrapper

Next == \E bready, rready \in BOOLEAN : Clock(bready, rready)

(* The clock runs for ever, and the master eventually takes a response (a  *)
(* clock with BREADY is possible in every state in which any clock is): as *)
(* long as the wrapper can move, it does.  The master is not made to start *)
(* anything.                                                               *)
Fairness ==
  /\ WF_bridgeVars(\E rready \in BOOLEAN : Clock(TRUE, rready))
  /\ WF_bridgeVars(\E bready \in BOOLEAN : Clock(bready, TRUE))

Spec == Init /\ [][Next]_vars

FairSpec == Spec /\ Fairness

----------------------------------------------------------------------------

TypeOK == MasterTypeOK /\ BridgeTypeOK

(* Every beat the master waits on is in exactly one place: on the channel, *)
(* held, executed in the register file, or answered and not taken.  So no  *)
(* response is lost, duplicated or invented, however the channels          *)
(* interleave (axi_lite_i2c.sv:336-389).                                   *)
EveryBeatAccounted ==
  /\ aw_out = Num(awaddr # NoBeat) + Num(aw_hold # NoBeat)
              + Num(mmio_busy /\ mmio_active_write) + Num(s_axil_bvalid)
  /\ w_out = Num(wdata # NoBeat) + Num(w_hold # NoBeat)
             + Num(mmio_busy /\ mmio_active_write) + Num(s_axil_bvalid)
  /\ ar_out = Num(araddr # NoBeat) + Num(ar_hold # NoBeat)
              + Num(mmio_busy /\ ~mmio_active_write) + Num(s_axil_rvalid)

(* The staged request is a copy of the beats still held, the response of   *)
(* the register file is there exactly while the bridge waits for it,       *)
(* nothing is staged or running while a response is on the bus, and a      *)
(* serial master is: with these, EveryBeatAccounted is inductive.          *)
StagingInv ==
  /\ req_pending.write =>
       aw_hold = req_pending.addr /\ w_hold = req_pending.data
  /\ req_pending_valid /\ ~req_pending.write => ar_hold = req_pending.addr
  /\ rsp_valid <=> mmio_busy
  /\ ~(s_axil_bvalid /\ s_axil_rvalid)
  /\ mmio_busy => ~req_pending_valid
  /\ axi_resp_busy => ~req_pending_valid /\ ~mmio_busy
  /\ wrapper \notin Pipelined => OneTransaction

IInv == TypeOK /\ StagingInv /\ EveryBeatAccounted

(* A response on the bus does not change until the master takes it, as the *)
(* held-response tests of tb_axi_lite_i2c.sv expect (470 and 547).         *)
ResponsesHeld ==
  [][/\ s_axil_bvalid /\ s_axil_bvalid' => UNCHANGED s_axil_bresp
     /\ s_axil_rvalid /\ s_axil_rvalid' => UNCHANGED s_axil_rresp]_vars

----------------------------------------------------------------------------
(* The accesses the bridge holds, as the promise of AxiLiteSlave sees them.*)

OneOf(beat) == IF beat = NoBeat THEN <<>> ELSE <<beat>>

absB ==
  (IF s_axil_bvalid THEN <<s_axil_bresp>> ELSE <<>>) \o
  (IF mmio_busy /\ mmio_active_write THEN <<rsp.err>> ELSE <<>>)

absR ==
  (IF s_axil_rvalid THEN <<s_axil_rresp>> ELSE <<>>) \o
  (IF mmio_busy /\ ~mmio_active_write THEN <<rsp>> ELSE <<>>)

(* The wrapper implements the promise of a register wrapper.               *)
Promise == INSTANCE AxiLiteSlave WITH
  awq <- OneOf(aw_hold), wq <- OneOf(w_hold), arq <- OneOf(ar_hold),
  bq <- absB, rq <- absR

ImplementsSlave == Promise!Spec

(* A write of which the master has presented both halves is answered, even *)
(* though reads compete for the same MMIO channel.  Writes have priority,  *)
(* so a stream of writes may keep a read waiting; but once no write is     *)
(* complete, half a write (an address whose data never comes, or the       *)
(* reverse) does not keep the read from its answer.                        *)
AccessesAnswered ==
  /\ (aw_out > 0 /\ w_out > 0) ~> s_axil_bvalid
  /\ (<>[](aw_out = 0 \/ w_out = 0)) => (ar_out > 0 ~> s_axil_rvalid)
=============================================================================
