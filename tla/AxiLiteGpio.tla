---------------------------- MODULE AxiLiteGpio -----------------------------
(***************************************************************************)
(* axi_lite_gpio.sv: a register wrapper with holding registers in front of *)
(* a state machine.  A channel is ready only while the machine is idle and *)
(* its holding register is free, and a request is chosen from the beats    *)
(* already held.  axil_lite_seg7_debug.sv is the same wrapper in front of  *)
(* the seven-segment block.                                                *)
(***************************************************************************)
EXTENDS MmioTarget, Sequences

VARIABLES
  state_reg,
  aw_hold, w_hold, ar_hold,  \* held beats; NoBeat: hold_valid is 0
  bresp_reg, rdata_reg       \* captured responses (data and code together)

TypeOK ==
  /\ MasterTypeOK /\ TargetTypeOK
  /\ state_reg \in {"IDLE", "WRITE_REQ", "WRITE_WAIT_RSP", "WRITE_B",
                    "READ_REQ", "READ_WAIT_RSP", "READ_R"}
  /\ aw_hold \in Beats(Addr) /\ w_hold \in Beats(Data) /\ ar_hold \in Beats(Addr)
  /\ bresp_reg \in BOOLEAN /\ rdata_reg \in Response

Init ==
  /\ MasterInit /\ TargetInit
  /\ state_reg = "IDLE"
  /\ aw_hold = NoBeat /\ w_hold = NoBeat /\ ar_hold = NoBeat
  /\ bresp_reg = FALSE /\ rdata_reg = [data |-> Zero, err |-> FALSE]

----------------------------------------------------------------------------

Ready(hold) == state_reg = "IDLE" /\ hold = NoBeat

aw_fire == awaddr # NoBeat /\ Ready(aw_hold)
w_fire  == wdata # NoBeat /\ Ready(w_hold)
ar_fire == araddr # NoBeat /\ Ready(ar_hold)

bvalid == state_reg = "WRITE_B"
rvalid == state_reg = "READ_R"

mmio_req ==
  CASE state_reg = "WRITE_REQ" -> WriteRequest(aw_hold, w_hold)
    [] state_reg = "READ_REQ" -> ReadRequest(ar_hold)
    [] OTHER -> NoReq

mmio_rsp_ready == state_reg \in {"WRITE_WAIT_RSP", "READ_WAIT_RSP"}
mmio_req_fire  == MmioFire(mmio_req, mmio_rsp_ready)
mmio_rsp_fire  == rsp_valid /\ mmio_rsp_ready

(* Faulty variant: wait for the second half of a write before anything     *)
(* else.                                                                   *)
FromIdleWaiting ==
  CASE aw_hold # NoBeat /\ w_hold # NoBeat -> "WRITE_REQ"
    [] aw_hold = NoBeat /\ w_hold = NoBeat /\ ar_hold # NoBeat -> "READ_REQ"
    [] OTHER -> "IDLE"

(* A complete write is preferred to a read; half a write waits.            *)
FromIdle ==
  CASE aw_hold # NoBeat /\ w_hold # NoBeat -> "WRITE_REQ"
    [] ~(aw_hold # NoBeat /\ w_hold # NoBeat) /\ ar_hold # NoBeat -> "READ_REQ"
    [] OTHER -> "IDLE"

Move(from, event, to) ==
  state_reg = from /\ state_reg' = IF event THEN to ELSE from

Fsm(b_fire, r_fire) ==
  \/ state_reg = "IDLE" /\ state_reg' = FromIdle
  \/ Move("WRITE_REQ", mmio_req_fire, "WRITE_WAIT_RSP")
  \/ Move("WRITE_WAIT_RSP", mmio_rsp_fire, "WRITE_B")
  \/ Move("WRITE_B", b_fire, "IDLE")
  \/ Move("READ_REQ", mmio_req_fire, "READ_WAIT_RSP")
  \/ Move("READ_WAIT_RSP", mmio_rsp_fire, "READ_R")
  \/ Move("READ_R", r_fire, "IDLE")

NextHold(hold, fire, beat, issued) ==
  IF issued THEN NoBeat ELSE IF fire THEN beat ELSE hold

HoldRegs ==
  LET wr_issued == state_reg = "WRITE_REQ" /\ mmio_req_fire
      rd_issued == state_reg = "READ_REQ" /\ mmio_req_fire
  IN  /\ aw_hold' = NextHold(aw_hold, aw_fire, awaddr, wr_issued)
      /\ w_hold' = NextHold(w_hold, w_fire, wdata, wr_issued)
      /\ ar_hold' = NextHold(ar_hold, ar_fire, araddr, rd_issued)

ResponseRegs ==
  /\ bresp_reg' = IF state_reg = "WRITE_WAIT_RSP" /\ mmio_rsp_fire
                  THEN rsp.err ELSE bresp_reg
  /\ rdata_reg' = IF state_reg = "READ_WAIT_RSP" /\ mmio_rsp_fire
                  THEN rsp ELSE rdata_reg

Clock(bready, rready) ==
  LET b_fire == bvalid /\ bready
      r_fire == rvalid /\ rready
  IN  /\ Fsm(b_fire, r_fire)
      /\ HoldRegs
      /\ ResponseRegs
      /\ Target(mmio_req, mmio_rsp_ready)
      /\ Master(FALSE, aw_fire, w_fire, ar_fire, b_fire, r_fire)

----------------------------------------------------------------------------
(* The accesses the wrapper holds, as the promise of AxiLiteSlave sees     *)
(* them.                                                                   *)

OneOf(beat) == IF beat = NoBeat THEN <<>> ELSE <<beat>>

absAW == OneOf(aw_hold)
absW  == OneOf(w_hold)
absAR == OneOf(ar_hold)

absB ==
  CASE state_reg = "WRITE_WAIT_RSP" -> <<rsp.err>>
    [] bvalid -> <<bresp_reg>>
    [] OTHER -> <<>>

absR ==
  CASE state_reg = "READ_WAIT_RSP" -> <<rsp>>
    [] rvalid -> <<rdata_reg>>
    [] OTHER -> <<>>
=============================================================================
