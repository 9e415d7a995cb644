---------------------------- MODULE AxiLiteMotor ----------------------------
(***************************************************************************)
(* axi_lite_pwm_motor.sv: a register wrapper that is one Moore machine.    *)
(* Its payload registers have no valid bits: the state says which of them  *)
(* hold a beat.  In IDLE it is ready on AW, W and AR at once.              *)
(* axi_lite_pwm_raw.sv and axi_lite_pwm.sv are the same machine in front   *)
(* of other PWM subsystems.                                                *)
(***************************************************************************)
EXTENDS MmioTarget, Sequences

CONSTANT Serial  \* the master has one transaction at a time

VARIABLES
  current_state,
  awaddr_reg, wdata_reg, araddr_reg,  \* captured payloads (NoBeat: reset value)
  bresp_reg, rdata_reg                \* captured responses

WriteStates == {"WR_WAIT_DATA", "WR_WAIT_ADDR", "WR_ISSUE", "WR_WAIT_RSP", "WR_SEND_B"}
ReadStates  == {"RD_ISSUE", "RD_WAIT_RSP", "RD_SEND_R"}

TypeOK ==
  /\ MasterTypeOK /\ TargetTypeOK
  /\ current_state \in {"IDLE"} \cup WriteStates \cup ReadStates
  /\ awaddr_reg \in Beats(Addr) /\ wdata_reg \in Beats(Data)
  /\ araddr_reg \in Beats(Addr)
  /\ bresp_reg \in BOOLEAN /\ rdata_reg \in Response

Init ==
  /\ MasterInit /\ TargetInit
  /\ current_state = "IDLE"
  /\ awaddr_reg = NoBeat /\ wdata_reg = NoBeat /\ araddr_reg = NoBeat
  /\ bresp_reg = FALSE /\ rdata_reg = [data |-> Zero, err |-> FALSE]

----------------------------------------------------------------------------
(* Outputs of the machine.                                                 *)

awready == current_state \in {"IDLE", "WR_WAIT_ADDR"}
wready  == current_state \in {"IDLE", "WR_WAIT_DATA"}
arready == current_state = "IDLE"

aw_fire == awaddr # NoBeat /\ awready
w_fire  == wdata # NoBeat /\ wready
ar_fire == araddr # NoBeat /\ arready

bvalid == current_state = "WR_SEND_B"
rvalid == current_state = "RD_SEND_R"

request ==
  CASE current_state = "WR_ISSUE" -> WriteRequest(awaddr_reg, wdata_reg)
    [] current_state = "RD_ISSUE" -> ReadRequest(araddr_reg)
    [] OTHER -> NoReq

rsp_ready == current_state \in {"WR_WAIT_RSP", "RD_WAIT_RSP"}
req_fire  == MmioFire(request, rsp_ready)
rsp_fire  == rsp_valid /\ rsp_ready

----------------------------------------------------------------------------
(* Next state.  In IDLE a write, complete or half, is preferred to a read. *)

FromIdle ==
  CASE aw_fire /\ w_fire -> "WR_ISSUE"
    [] aw_fire /\ ~w_fire -> "WR_WAIT_DATA"
    [] ~aw_fire /\ w_fire -> "WR_WAIT_ADDR"
    [] ~aw_fire /\ ~w_fire /\ ar_fire -> "RD_ISSUE"
    [] OTHER -> "IDLE"

Move(from, event, to) ==
  current_state = from /\ current_state' = IF event THEN to ELSE from

Fsm(b_fire, r_fire) ==
  \/ current_state = "IDLE" /\ current_state' = FromIdle
  \/ Move("WR_WAIT_DATA", w_fire, "WR_ISSUE")
  \/ Move("WR_WAIT_ADDR", aw_fire, "WR_ISSUE")
  \/ Move("WR_ISSUE", req_fire, "WR_WAIT_RSP")
  \/ Move("WR_WAIT_RSP", rsp_fire, "WR_SEND_B")
  \/ Move("WR_SEND_B", b_fire, "IDLE")
  \/ Move("RD_ISSUE", req_fire, "RD_WAIT_RSP")
  \/ Move("RD_WAIT_RSP", rsp_fire, "RD_SEND_R")
  \/ Move("RD_SEND_R", r_fire, "IDLE")

(* Faulty variant: data is captured only if it comes with its address. *)
CapturesInIdle ==
  /\ awaddr_reg' = IF aw_fire THEN awaddr ELSE awaddr_reg
  /\ wdata_reg' = IF w_fire /\ current_state = "IDLE" THEN wdata ELSE wdata_reg
  /\ araddr_reg' = IF ar_fire THEN araddr ELSE araddr_reg
  /\ bresp_reg' = IF current_state = "WR_WAIT_RSP" /\ rsp_fire
                  THEN rsp.err ELSE bresp_reg
  /\ rdata_reg' = IF current_state = "RD_WAIT_RSP" /\ rsp_fire
                  THEN rsp ELSE rdata_reg

Captures ==
  /\ awaddr_reg' = IF aw_fire THEN awaddr ELSE awaddr_reg
  /\ wdata_reg' = IF w_fire THEN wdata ELSE wdata_reg
  /\ araddr_reg' = IF ar_fire THEN araddr ELSE araddr_reg
  /\ bresp_reg' = IF current_state = "WR_WAIT_RSP" /\ rsp_fire
                  THEN rsp.err ELSE bresp_reg
  /\ rdata_reg' = IF current_state = "RD_WAIT_RSP" /\ rsp_fire
                  THEN rsp ELSE rdata_reg

Clock(bready, rready) ==
  LET b_fire == bvalid /\ bready
      r_fire == rvalid /\ rready
  IN  /\ Fsm(b_fire, r_fire)
      /\ Captures
      /\ Target(request, rsp_ready)
      /\ Master(Serial, aw_fire, w_fire, ar_fire, b_fire, r_fire)

----------------------------------------------------------------------------
(* Where the accesses of the transaction under way are, as the promise of  *)
(* AxiLiteSlave sees them.                                                 *)

HeldAW == current_state \in {"WR_WAIT_DATA", "WR_ISSUE"}
HeldW  == current_state \in {"WR_WAIT_ADDR", "WR_ISSUE"}
HeldAR == current_state = "RD_ISSUE"

absAW == IF HeldAW THEN <<awaddr_reg>> ELSE <<>>
absW  == IF HeldW THEN <<wdata_reg>> ELSE <<>>
absAR == IF HeldAR THEN <<araddr_reg>> ELSE <<>>

absB ==
  CASE current_state = "WR_WAIT_RSP" -> <<rsp.err>>
    [] bvalid -> <<bresp_reg>>
    [] OTHER -> <<>>

absR ==
  CASE current_state = "RD_WAIT_RSP" -> <<rsp>>
    [] rvalid -> <<rdata_reg>>
    [] OTHER -> <<>>
=============================================================================
