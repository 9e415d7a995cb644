----------------------------- MODULE MmioTarget -----------------------------
(***************************************************************************)
(* The register block behind a wrapper's internal MMIO channel, as the     *)
(* wrapper sees it: it executes a request in the clock in which it accepts *)
(* it, answers from the next clock on, keeps that one answer until the     *)
(* wrapper takes it, and accepts the next request no earlier than that.    *)
(* The transcribed handshake is the one of i2c_regs.sv; spi_regs.sv,       *)
(* gpio_regs.sv, seg7_debug_regs.sv and the PWM subsystems keep the same   *)
(* discipline and differ in whether a request may enter in the very clock  *)
(* its predecessor's answer leaves, which no wrapper attempts.             *)
(***************************************************************************)
EXTENDS AxiLiteBus

VARIABLES
  regs,  \* the register file
  rsp    \* the answer held for the wrapper, or NoRsp

NoReq == [write |-> FALSE, addr |-> NoBeat, data |-> NoBeat]
NoRsp == [data |-> NoBeat, err |-> FALSE]

WriteReq == [write : {TRUE}, addr : Addr, data : Data]
ReadReq  == [write : {FALSE}, addr : Addr, data : {Zero}]

ReadRequest(a) == [write |-> FALSE, addr |-> a, data |-> Zero]
WriteRequest(a, d) == [write |-> TRUE, addr |-> a, data |-> d]

TargetTypeOK == regs \in RegFile /\ rsp \in Response \cup {NoRsp}

TargetInit == regs = ResetRegs /\ rsp = NoRsp

rsp_valid == rsp # NoRsp

(* req is the request the wrapper drives, NoReq if it drives none.         *)
req_ready(rsp_ready) == ~rsp_valid \/ rsp_ready

MmioFire(req, rsp_ready) == req # NoReq /\ req_ready(rsp_ready)

Target(req, rsp_ready) ==
  LET fire == MmioFire(req, rsp_ready)
  IN  /\ regs' = IF fire /\ req.write THEN WriteReg(regs, req.addr, req.data)
                 ELSE regs
      /\ rsp' = IF ~fire THEN IF rsp_ready THEN NoRsp ELSE rsp
                ELSE IF req.write THEN WriteRsp(req.addr)
                ELSE ReadRsp(regs, req.addr)
=============================================================================
