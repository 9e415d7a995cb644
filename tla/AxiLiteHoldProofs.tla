-------------------------- MODULE AxiLiteHoldProofs --------------------------
(***************************************************************************)
(* For every register map, payload set and number of outstanding beats,    *)
(* neither holding-register wrapper loses or invents a response, the I2C   *)
(* one with any master, the SPI one with a serial master; and each         *)
(* implements the promise of AxiLiteSlave, clock by clock.  So do, in the  *)
(* second half of this module, the two wrappers that are state machines.   *)
(*                                                                         *)
(* EveryBeatAccounted alone is not inductive: it needs to know what the    *)
(* staged request is a copy of, and that a response and a request are      *)
(* never both in the wrapper (StagingInv).  With those, a clock falls in   *)
(* one of three cases: the register file has an answer ready, a request is *)
(* staged and enters, or the wrapper may stage one.  The last case is      *)
(* where the wrappers differ: a response still on the bus keeps the I2C    *)
(* wrapper from staging by its own guard, and the SPI wrapper only because *)
(* a serial master then has nothing else in the wrapper.                   *)
(***************************************************************************)
EXTENDS AxiLiteHold, TLAPS

USE BusAssumption DEF BusAssumption

SpiIsSerial == "spi" \notin Pipelined

(* The response signals of the clock in progress. *)
bFire(bready) == s_axil_bvalid /\ bready
rFire(rready) == s_axil_rvalid /\ rready

(* One clock of a channel: what the master waits for grows by the beat it  *)
(* newly drives and shrinks by the response it takes.                      *)
LEMMA ChannelCounts ==
  ASSUME NEW t \in BOOLEAN, NEW a \in BOOLEAN, MasterTypeOK
  PROVE  /\ Channel(awaddr, aw_out, Addr, t, a) =>
              /\ awaddr' \in Beats(Addr)
              /\ aw_out' = aw_out + Num(awaddr' # NoBeat)
                           - Num(awaddr # NoBeat /\ ~t) - Num(a)
         /\ Channel(wdata, w_out, Data, t, a) =>
              /\ wdata' \in Beats(Data)
              /\ w_out' = w_out + Num(wdata' # NoBeat)
                           - Num(wdata # NoBeat /\ ~t) - Num(a)
         /\ Channel(araddr, ar_out, Addr, t, a) =>
              /\ araddr' \in Beats(Addr)
              /\ ar_out' = ar_out + Num(araddr' # NoBeat)
                           - Num(araddr # NoBeat /\ ~t) - Num(a)
<1> USE DEF Channel, HoldBeat, Num, MasterTypeOK, Beats
<1>1. Channel(awaddr, aw_out, Addr, t, a) =>
              /\ awaddr' \in Beats(Addr)
              /\ aw_out' = aw_out + Num(awaddr' # NoBeat)
                           - Num(awaddr # NoBeat /\ ~t) - Num(a)
  OBVIOUS
<1>2. Channel(wdata, w_out, Data, t, a) =>
              /\ wdata' \in Beats(Data)
              /\ w_out' = w_out + Num(wdata' # NoBeat)
                           - Num(wdata # NoBeat /\ ~t) - Num(a)
  OBVIOUS
<1>3. Channel(araddr, ar_out, Addr, t, a) =>
              /\ araddr' \in Beats(Addr)
              /\ ar_out' = ar_out + Num(araddr' # NoBeat)
                           - Num(araddr # NoBeat /\ ~t) - Num(a)
  OBVIOUS
<1> QED BY <1>1, <1>2, <1>3

LEMMA InitIInv == Init => IInv
<1> SUFFICES ASSUME Init PROVE IInv
  OBVIOUS
<1> USE DEF Init, MasterInit, TargetInit
<1>1. TypeOK
  BY DEF TypeOK, MasterTypeOK, BridgeTypeOK, TargetTypeOK, Beats, RegFile, Payload,
         ResetRegs, Response, Payload
<1>2. StagingInv
  BY DEF StagingInv, req_pending_valid, NoReq, rsp_valid, axi_resp_busy, OneTransaction
<1>3. EveryBeatAccounted
  BY DEF EveryBeatAccounted, Num
<1> QED BY <1>1, <1>2, <1>3 DEF IInv

(* A wrapper stages a request only when no response is on the bus.         *)
LEMMA StagesWhenFree ==
  ASSUME SpiIsSerial, IInv
  PROVE  launch_write_req \/ launch_read_req => ~s_axil_bvalid /\ ~s_axil_rvalid
<1>1. CASE wrapper = "i2c"
  BY <1>1 DEF launch_write_req, launch_read_req, launch_free, axi_resp_busy
<1>2. CASE wrapper = "spi"
  <2>1. OneTransaction
    BY <1>2 DEF SpiIsSerial, IInv, StagingInv
  <2>2. /\ aw_hold # NoBeat => aw_out >= 1 + Num(s_axil_bvalid)
        /\ ar_hold # NoBeat => ar_out >= 1 + Num(s_axil_rvalid)
        /\ s_axil_bvalid => aw_out >= 1
        /\ s_axil_rvalid => ar_out >= 1
    BY DEF IInv, TypeOK, MasterTypeOK, EveryBeatAccounted, Num
  <2>3. aw_out \in Nat /\ ar_out \in Nat
    BY DEF IInv, TypeOK, MasterTypeOK
  <2> QED
    BY <2>1, <2>2, <2>3 DEF launch_write_req, launch_read_req, OneTransaction, Num
<1> QED
  BY <1>1, <1>2, HoldAssumption DEF IInv, TypeOK, BridgeTypeOK

(* The exclusive cases of a clock, and what the MMIO signals are in each.  *)
LEMMA Signals ==
  ASSUME SpiIsSerial, IInv
  PROVE  /\ (rsp_fire <=> mmio_busy)
         /\ (req_fire <=> req_pending_valid)
         /\ mmio_busy => ~req_pending_valid /\ ~launch_free
         /\ req_pending_valid => ~launch_free
         /\ launch_write_req \/ launch_read_req => ~s_axil_bvalid /\ ~s_axil_rvalid
         /\ req_fire => \/ req_pending \in WriteReq
                        \/ req_pending \in ReadReq
         /\ ~req_pending_valid => ~req_pending.write
BY StagesWhenFree
   DEF IInv, TypeOK, BridgeTypeOK, StagingInv, rsp_fire, req_fire, MmioFire,
       req_ready, req_pending_valid, launch_free, NoReq

(* Types are kept by every clock. *)
LEMMA StepTypeOK ==
  ASSUME SpiIsSerial, IInv, NEW bready \in BOOLEAN, NEW rready \in BOOLEAN,
         Clock(bready, rready)
  PROVE  TypeOK'
<1>1. MasterTypeOK'
  <2>1. /\ Channel(awaddr, aw_out, Addr, aw_fire, bFire(bready))
        /\ Channel(wdata, w_out, Data, w_fire, bFire(bready))
        /\ Channel(araddr, ar_out, Addr, ar_fire, rFire(rready))
    BY DEF Clock, Master, bFire, rFire
  <2>2. bFire(bready) \in BOOLEAN /\ rFire(rready) \in BOOLEAN
    BY DEF bFire, rFire, IInv, TypeOK, BridgeTypeOK
  <2>3. aw_fire \in BOOLEAN /\ w_fire \in BOOLEAN /\ ar_fire \in BOOLEAN
    BY DEF aw_fire, w_fire, ar_fire
  <2>4. MasterTypeOK
    BY DEF IInv, TypeOK
  <2>5. /\ aw_out' = aw_out + Num(awaddr' # NoBeat)
                     - Num(awaddr # NoBeat /\ ~aw_fire) - Num(bFire(bready))
        /\ w_out' = w_out + Num(wdata' # NoBeat)
                     - Num(wdata # NoBeat /\ ~w_fire) - Num(bFire(bready))
        /\ ar_out' = ar_out + Num(araddr' # NoBeat)
                     - Num(araddr # NoBeat /\ ~ar_fire) - Num(rFire(rready))
        /\ awaddr' \in Beats(Addr) /\ wdata' \in Beats(Data)
        /\ araddr' \in Beats(Addr)
    BY <2>1, <2>2, <2>3, <2>4, ChannelCounts
  <2>6. aw_out' \in Nat /\ w_out' \in Nat /\ ar_out' \in Nat
    BY <2>4, <2>5 DEF IInv, EveryBeatAccounted, MasterTypeOK, Num, bFire, rFire
  <2> QED BY <2>5, <2>6 DEF MasterTypeOK
<1>2. aw_hold' \in Beats(Addr) /\ w_hold' \in Beats(Data) /\ ar_hold' \in Beats(Addr)
  BY DEF Clock, HoldRegs, Beats, IInv, TypeOK, MasterTypeOK, BridgeTypeOK
<1>3. req_pending' \in WriteReq \cup ReadReq \cup {NoReq}
  BY DEF Clock, StageRequest, launch_write_req, launch_read_req, ReadRequest,
         WriteRequest, WriteReq, ReadReq, Beats, IInv, TypeOK, BridgeTypeOK
<1>4. mmio_busy' \in BOOLEAN /\ mmio_active_write' \in BOOLEAN
  BY Signals DEF Clock, TrackMmio, WriteReq, ReadReq, IInv, TypeOK, BridgeTypeOK
<1>5. TargetTypeOK'
  <2>1. /\ req_pending \in WriteReq => req_pending.addr \in Addr /\ req_pending.data \in Data
        /\ req_pending \in ReadReq => req_pending.addr \in Addr
    BY DEF WriteReq, ReadReq
  <2>2. TargetTypeOK
    BY DEF IInv, TypeOK, BridgeTypeOK
  <2>3. \A a \in Addr, d \in Data : WriteReg(regs, a, d) \in RegFile
    BY <2>2 DEF TargetTypeOK, WriteReg, RegFile, Payload
  <2>4. \A a \in Addr : WriteRsp(a) \in Response /\ ReadRsp(regs, a) \in Response
    BY <2>2 DEF TargetTypeOK, WriteRsp, ReadRsp, Response, Payload, RegFile
  <2>5. MmioFire(req_pending, mmio_busy) => req_pending \in WriteReq \/ req_pending \in ReadReq
    BY Signals DEF req_fire
  <2>6. regs' \in RegFile
    BY <2>1, <2>2, <2>3, <2>5 DEF Clock, Target, TargetTypeOK, WriteReq, ReadReq
  <2>7. rsp' \in Response \cup {NoRsp}
    BY <2>1, <2>2, <2>4, <2>5 DEF Clock, Target, TargetTypeOK
  <2> QED BY <2>6, <2>7 DEF TargetTypeOK
<1>6. /\ s_axil_bvalid' \in BOOLEAN /\ s_axil_bresp' \in BOOLEAN
      /\ s_axil_rvalid' \in BOOLEAN /\ s_axil_rresp' \in Response
  <2>1. rsp_fire => rsp \in Response
    BY DEF rsp_fire, rsp_valid, IInv, TypeOK, BridgeTypeOK, TargetTypeOK
  <2>2. rsp_fire => rsp.err \in BOOLEAN
    BY <2>1 DEF Response
  <2>3. /\ s_axil_bvalid \in BOOLEAN /\ s_axil_bresp \in BOOLEAN
        /\ s_axil_rvalid \in BOOLEAN /\ s_axil_rresp \in Response
        /\ mmio_active_write \in BOOLEAN
    BY DEF IInv, TypeOK, BridgeTypeOK
  <2>4. rsp_fire \in BOOLEAN
    BY DEF rsp_fire
  <2>5. s_axil_bvalid' \in BOOLEAN /\ s_axil_rvalid' \in BOOLEAN
    BY <2>3, <2>4 DEF Clock, ResponseRegs
  <2>6. s_axil_bresp' \in BOOLEAN
    BY <2>2, <2>3 DEF Clock, ResponseRegs
  <2>7. s_axil_rresp' \in Response
    BY <2>1, <2>3 DEF Clock, ResponseRegs
  <2> QED BY <2>5, <2>6, <2>7
<1>7. wrapper' \in Wrappers
  BY DEF Clock, IInv, TypeOK, BridgeTypeOK
<1> QED
  BY <1>1, <1>2, <1>3, <1>4, <1>5, <1>6, <1>7 DEF TypeOK, BridgeTypeOK

(* The staging facts are kept by every clock. *)
LEMMA StepStagingInv ==
  ASSUME SpiIsSerial, IInv, NEW bready \in BOOLEAN, NEW rready \in BOOLEAN,
         Clock(bready, rready)
  PROVE  StagingInv'
<1> USE Signals
<1>t. TypeOK /\ BridgeTypeOK /\ StagingInv
  BY DEF IInv, TypeOK
<1>1. CASE mmio_busy
  <2> wrapper' = wrapper /\ (wrapper \notin Pipelined => OneTransaction')
    BY DEF Clock, Master
  <2>1. /\ req_pending = NoReq /\ req_pending' = NoReq
        /\ mmio_busy' = FALSE /\ rsp' = NoRsp
    BY <1>1 DEF Clock, StageRequest, TrackMmio, Target, req_fire, req_pending_valid,
       launch_write_req, launch_read_req
  <2>2. ~s_axil_bvalid /\ ~s_axil_rvalid
    BY <1>1, <1>t DEF StagingInv, axi_resp_busy
  <2>3. ~(s_axil_bvalid' /\ s_axil_rvalid')
    BY <2>2, <1>t DEF Clock, ResponseRegs, BridgeTypeOK
  <2> QED BY <2>1, <2>3 DEF StagingInv, req_pending_valid, rsp_valid, NoReq
<1>2. CASE req_pending_valid
  <2> wrapper' = wrapper /\ (wrapper \notin Pipelined => OneTransaction')
    BY DEF Clock, Master
  <2>1. /\ req_pending' = NoReq /\ mmio_busy' = TRUE
        /\ s_axil_bvalid' = FALSE /\ s_axil_rvalid' = FALSE
    BY <1>2, <1>t DEF Clock, StageRequest, TrackMmio, ResponseRegs, StagingInv,
       axi_resp_busy, BridgeTypeOK
  <2>2. rsp' # NoRsp
    <3>1. WriteRsp(req_pending.addr).data # NoBeat
      BY DEF WriteRsp
    <3>2. req_pending \in ReadReq => ReadRsp(regs, req_pending.addr).data # NoBeat
      BY <1>t DEF ReadRsp, ReadReq, BridgeTypeOK, TargetTypeOK, RegFile, Payload
    <3>3. ~req_pending.write => req_pending \in ReadReq
      BY <1>2 DEF WriteReq
    <3> QED BY <1>2, <3>1, <3>2, <3>3 DEF Clock, Target, req_fire, NoRsp
  <2> QED BY <2>1, <2>2 DEF StagingInv, req_pending_valid, rsp_valid, axi_resp_busy, NoReq
<1>3. CASE ~mmio_busy /\ ~req_pending_valid
  <2>1. /\ mmio_busy' = FALSE /\ rsp = NoRsp /\ rsp' = NoRsp
        /\ s_axil_bvalid' => s_axil_bvalid
        /\ s_axil_rvalid' => s_axil_rvalid
    BY <1>3, <1>t DEF Clock, TrackMmio, Target, ResponseRegs, StagingInv, rsp_valid,
       req_fire, BridgeTypeOK
  <2> wrapper' = wrapper /\ (wrapper \notin Pipelined => OneTransaction')
    BY DEF Clock, Master
  <2>2. CASE launch_write_req
    <3>1. req_pending' = WriteRequest(aw_hold, w_hold)
      BY <2>2, <1>3 DEF Clock, StageRequest, launch_read_req
    <3>2. aw_hold' = aw_hold /\ w_hold' = w_hold
      BY <2>2, <1>3 DEF Clock, HoldRegs, launch_write_req, aw_fire, w_fire
    <3>3. ~s_axil_bvalid /\ ~s_axil_rvalid
      BY <2>2
    <3> QED BY <2>1, <3>1, <3>2, <3>3 DEF StagingInv, WriteRequest, rsp_valid,
               req_pending_valid, axi_resp_busy
  <2>3. CASE launch_read_req
    <3>1. req_pending' = ReadRequest(ar_hold)
      BY <2>3, <1>3 DEF Clock, StageRequest
    <3>2. ar_hold' = ar_hold
      BY <2>3, <1>3 DEF Clock, HoldRegs, launch_read_req, ar_fire
    <3>3. ~s_axil_bvalid /\ ~s_axil_rvalid
      BY <2>3
    <3> QED BY <2>1, <3>1, <3>2, <3>3 DEF StagingInv, ReadRequest, rsp_valid,
               req_pending_valid, axi_resp_busy
  <2>4. CASE ~launch_write_req /\ ~launch_read_req
    <3>1. req_pending' = NoReq
      BY <2>4, <1>3 DEF Clock, StageRequest, req_pending_valid
    <3> QED BY <2>1, <3>1, <1>t DEF StagingInv, NoReq, rsp_valid, req_pending_valid,
               axi_resp_busy
  <2> QED BY <2>2, <2>3, <2>4
<1> QED BY <1>1, <1>2, <1>3

(* The accounting is kept by every clock: a beat leaves one place exactly  *)
(* when it enters the next.                                                *)
LEMMA StepAccounted ==
  ASSUME SpiIsSerial, IInv, NEW bready \in BOOLEAN, NEW rready \in BOOLEAN,
         Clock(bready, rready)
  PROVE  EveryBeatAccounted'
<1> DEFINE W == mmio_busy /\ mmio_active_write
           R == mmio_busy /\ ~mmio_active_write
           wIn == req_pending_valid /\ req_pending.write
           rIn == req_pending_valid /\ ~req_pending.write
<1>t. /\ IInv /\ TypeOK /\ MasterTypeOK /\ BridgeTypeOK /\ StagingInv
      /\ EveryBeatAccounted
  BY DEF IInv, TypeOK
<1>1. /\ Channel(awaddr, aw_out, Addr, aw_fire, bFire(bready))
      /\ Channel(wdata, w_out, Data, w_fire, bFire(bready))
      /\ Channel(araddr, ar_out, Addr, ar_fire, rFire(rready))
  BY DEF Clock, Master, bFire, rFire
<1>2. /\ bFire(bready) \in BOOLEAN /\ rFire(rready) \in BOOLEAN
      /\ aw_fire \in BOOLEAN /\ w_fire \in BOOLEAN /\ ar_fire \in BOOLEAN
  BY <1>t DEF bFire, rFire, aw_fire, w_fire, ar_fire, BridgeTypeOK
<1>3. /\ aw_out' = aw_out + Num(awaddr' # NoBeat)
                     - Num(awaddr # NoBeat /\ ~aw_fire) - Num(bFire(bready))
      /\ w_out' = w_out + Num(wdata' # NoBeat)
                     - Num(wdata # NoBeat /\ ~w_fire) - Num(bFire(bready))
      /\ ar_out' = ar_out + Num(araddr' # NoBeat)
                     - Num(araddr # NoBeat /\ ~ar_fire) - Num(rFire(rready))
  BY <1>1, <1>2, <1>t, ChannelCounts
<1>4. /\ wIn => aw_hold # NoBeat /\ w_hold # NoBeat /\ ~W /\ ~R
      /\ rIn => ar_hold # NoBeat /\ ~W /\ ~R
  <2>1. /\ req_pending \in WriteReq => req_pending.addr \in Addr /\ req_pending.data \in Data
        /\ req_pending \in ReadReq => req_pending.addr \in Addr /\ ~req_pending.write
    BY DEF WriteReq, ReadReq
  <2> QED BY <1>t, <2>1, Signals DEF StagingInv
<1>5. /\ Num(aw_hold' # NoBeat) = Num(aw_hold # NoBeat)
           + Num(awaddr # NoBeat) - Num(awaddr # NoBeat /\ ~aw_fire) - Num(wIn)
      /\ Num(w_hold' # NoBeat) = Num(w_hold # NoBeat)
           + Num(wdata # NoBeat) - Num(wdata # NoBeat /\ ~w_fire) - Num(wIn)
      /\ Num(ar_hold' # NoBeat) = Num(ar_hold # NoBeat)
           + Num(araddr # NoBeat) - Num(araddr # NoBeat /\ ~ar_fire) - Num(rIn)
  BY <1>4, Signals DEF Clock, HoldRegs, aw_fire, w_fire, ar_fire, Num
<1>6. /\ Num((mmio_busy /\ mmio_active_write)') = Num(wIn)
      /\ Num((mmio_busy /\ ~mmio_active_write)') = Num(rIn)
  <2>1. (mmio_busy' <=> req_pending_valid)
    BY <1>t, Signals DEF Clock, TrackMmio, StagingInv, BridgeTypeOK
  <2>2. req_pending_valid => mmio_active_write' = req_pending.write
    BY Signals DEF Clock, TrackMmio
  <2> QED BY <2>1, <2>2 DEF Num
<1>7. /\ Num(s_axil_bvalid') = Num(s_axil_bvalid) + Num(W) - Num(bFire(bready))
      /\ Num(s_axil_rvalid') = Num(s_axil_rvalid) + Num(R) - Num(rFire(rready))
  BY <1>t, Signals DEF Clock, ResponseRegs, Num, bFire, rFire, StagingInv,
     axi_resp_busy, BridgeTypeOK
<1>8. \A b : Num(b) \in Nat
  BY DEF Num
<1>9. aw_out' = Num(awaddr' # NoBeat) + Num(aw_hold' # NoBeat)
               + Num((mmio_busy /\ mmio_active_write)') + Num(s_axil_bvalid')
  BY <1>3, <1>5, <1>6, <1>7, <1>8, <1>t DEF EveryBeatAccounted, MasterTypeOK
<1>10. w_out' = Num(wdata' # NoBeat) + Num(w_hold' # NoBeat)
               + Num((mmio_busy /\ mmio_active_write)') + Num(s_axil_bvalid')
  BY <1>3, <1>5, <1>6, <1>7, <1>8, <1>t DEF EveryBeatAccounted, MasterTypeOK
<1>11. ar_out' = Num(araddr' # NoBeat) + Num(ar_hold' # NoBeat)
               + Num((mmio_busy /\ ~mmio_active_write)') + Num(s_axil_rvalid')
  BY <1>3, <1>5, <1>6, <1>7, <1>8, <1>t DEF EveryBeatAccounted, MasterTypeOK
<1> QED BY <1>9, <1>10, <1>11 DEF EveryBeatAccounted

LEMMA Inductive ==
  ASSUME SpiIsSerial, IInv, [Next]_vars
  PROVE  IInv'
<1>1. CASE Next
  <2>1. PICK bready \in BOOLEAN, rready \in BOOLEAN :
          Clock(bready, rready)
    BY <1>1 DEF Next
  <2> QED BY <2>1, StepTypeOK, StepStagingInv, StepAccounted DEF IInv
<1>2. CASE UNCHANGED vars
  BY <1>2 DEF vars, masterVars, bridgeVars, IInv, TypeOK, MasterTypeOK, BridgeTypeOK,
     TargetTypeOK, StagingInv, EveryBeatAccounted, req_pending_valid, rsp_valid,
     axi_resp_busy, OneTransaction
<1> QED BY <1>1, <1>2

----------------------------------------------------------------------------

(* Every state is well typed, the staged request is a copy of held beats,  *)
(* and no response is lost, duplicated or invented.                        *)
THEOREM Accounted ==
  SpiIsSerial /\ Spec => [](TypeOK /\ StagingInv /\ EveryBeatAccounted)
<1> SUFFICES ASSUME SpiIsSerial
             PROVE  Spec => [](TypeOK /\ StagingInv /\ EveryBeatAccounted)
  OBVIOUS
<1>1. IInv /\ [Next]_vars => IInv'
  BY Inductive
<1>2. IInv => TypeOK /\ StagingInv /\ EveryBeatAccounted
  BY DEF IInv
<1> QED BY InitIInv, <1>1, <1>2, PTL DEF Spec

(* A response the master has not taken does not change: a clock that loads *)
(* a response register finds that register free.                           *)
THEOREM Held == SpiIsSerial /\ Spec => ResponsesHeld
<1> SUFFICES ASSUME SpiIsSerial PROVE Spec => ResponsesHeld
  OBVIOUS
<1>1. IInv /\ [Next]_vars =>
        [/\ s_axil_bvalid /\ s_axil_bvalid' => UNCHANGED s_axil_bresp
         /\ s_axil_rvalid /\ s_axil_rvalid' => UNCHANGED s_axil_rresp]_vars
  <2> SUFFICES ASSUME IInv, Next
               PROVE  /\ s_axil_bvalid /\ s_axil_bvalid' => UNCHANGED s_axil_bresp
                      /\ s_axil_rvalid /\ s_axil_rvalid' => UNCHANGED s_axil_rresp
    OBVIOUS
  <2>1. PICK bready \in BOOLEAN, rready \in BOOLEAN : Clock(bready, rready)
    BY DEF Next
  <2>2. s_axil_bvalid \/ s_axil_rvalid => ~mmio_busy
    BY DEF IInv, StagingInv, axi_resp_busy
  <2> QED BY <2>1, <2>2, Signals DEF Clock, ResponseRegs
<1>2. IInv /\ [Next]_vars => IInv'
  BY Inductive
<1> QED BY InitIInv, <1>1, <1>2, PTL DEF Spec, ResponsesHeld

----------------------------------------------------------------------------
(* The wrapper implements the promise of AxiLiteSlave.                     *)

LEMMA Singles ==
  ASSUME NEW x
  PROVE  /\ <<x>> \o <<>> = <<x>> /\ <<>> \o <<x>> = <<x>> /\ <<>> \o <<>> = <<>>
         /\ Tail(<<x>>) = <<>> /\ Head(<<x>>) = x /\ <<x>> # <<>>
<1>1. <<x>> \in Seq({x}) /\ <<>> \in Seq({x})
  OBVIOUS
<1> QED
  BY <1>1

(* A holding register is a queue of at most one beat.                      *)
HoldNext(hold, beat, leaves) ==
  IF leaves THEN NoBeat
  ELSE IF beat # NoBeat /\ hold = NoBeat THEN beat ELSE hold

LEMMA HoldIsQueue ==
  ASSUME NEW hold, NEW beat, NEW leaves, leaves => hold # NoBeat
  PROVE  OneOf(HoldNext(hold, beat, leaves)) =
           Promise!Shift(OneOf(hold), leaves,
                         Promise!Taken(beat, beat # NoBeat /\ hold = NoBeat))
<1> USE DEF HoldNext, OneOf, Promise!Shift, Promise!Taken
<1>1. CASE leaves
  BY <1>1, Singles
<1>2. CASE ~leaves /\ hold = NoBeat /\ beat # NoBeat
  BY <1>2, Singles
<1>3. CASE ~leaves /\ hold = NoBeat /\ beat = NoBeat
  BY <1>3, Singles
<1>4. CASE ~leaves /\ hold # NoBeat
  BY <1>4, Singles
<1> QED
  BY <1>1, <1>2, <1>3, <1>4

LEMMA PromiseInit == Init => Promise!Init
BY Singles
DEF Init, Promise!Init, OneOf, absB, absR, TargetInit, MasterInit, Promise!MasterInit,
    ResetRegs, Promise!ResetRegs

(* The access that the register file executes in a clock.                  *)
executed ==
  IF ~req_fire THEN "none" ELSE IF req_pending.write THEN "write" ELSE "read"

LEMMA Executes ==
  ASSUME SpiIsSerial, IInv
  PROVE  /\ executed \in Promise!Access
         /\ executed = "write" <=> req_fire /\ req_pending.write
         /\ executed = "read" <=> req_fire /\ ~req_pending.write
         /\ executed = "write" => /\ aw_hold # NoBeat /\ w_hold # NoBeat
                                  /\ Head(OneOf(aw_hold)) = req_pending.addr
                                  /\ Head(OneOf(w_hold)) = req_pending.data
         /\ executed = "read" => /\ ar_hold # NoBeat
                                 /\ Head(OneOf(ar_hold)) = req_pending.addr
<1>1. /\ executed = "write" => req_pending \in WriteReq
      /\ executed = "read" => req_pending \in ReadReq
  BY Signals DEF executed, WriteReq, ReadReq
<1>2. /\ executed = "write" => /\ aw_hold = req_pending.addr /\ aw_hold # NoBeat
                               /\ w_hold = req_pending.data /\ w_hold # NoBeat
      /\ executed = "read" => ar_hold = req_pending.addr /\ ar_hold # NoBeat
  BY <1>1, Signals DEF executed, IInv, StagingInv, WriteReq, ReadReq
<1> QED
  BY <1>2, Singles DEF executed, OneOf, Promise!Access

LEMMA PromiseB ==
  ASSUME SpiIsSerial, IInv, NEW bready \in BOOLEAN, NEW rready \in BOOLEAN,
         Clock(bready, rready)
  PROVE  absB' = Promise!Shift(absB, bFire(bready),
                   IF executed = "write" THEN <<Head(OneOf(aw_hold)) \in BadAddr>>
                   ELSE <<>>)
<1>1. CASE mmio_busy
  <2>1. /\ ~s_axil_bvalid /\ executed = "none" /\ mmio_busy' = FALSE
        /\ s_axil_bvalid' = mmio_active_write
        /\ mmio_active_write => s_axil_bresp' = rsp.err
    BY <1>1, Signals
    DEF Clock, TrackMmio, ResponseRegs, bFire, executed, IInv, StagingInv, TypeOK,
        BridgeTypeOK, axi_resp_busy
  <2> QED
    BY <1>1, <2>1, Singles DEF absB, bFire, Promise!Shift
<1>2. CASE req_pending_valid
  <2>1. /\ ~s_axil_bvalid /\ ~s_axil_bvalid' /\ ~mmio_busy /\ mmio_busy'
        /\ mmio_active_write' = (executed = "write")
        /\ executed = "write" => rsp'.err = (Head(OneOf(aw_hold)) \in BadAddr)
    <3>1. req_fire /\ ~mmio_busy /\ ~s_axil_bvalid /\ ~rsp_fire
      BY <1>2, Signals DEF IInv, StagingInv, axi_resp_busy
    <3>2. ~s_axil_bvalid' /\ mmio_busy' /\ mmio_active_write' = req_pending.write
      BY <3>1 DEF Clock, TrackMmio, ResponseRegs
    <3>3. executed = "write" => rsp' = WriteRsp(req_pending.addr)
      BY <3>1 DEF Clock, Target, req_fire, executed
    <3>4. req_pending.write = (executed = "write")
      BY <3>1, Signals DEF executed, WriteReq, ReadReq
    <3> QED
      BY <3>1, <3>2, <3>3, <3>4, Executes DEF WriteRsp
  <2> QED
    BY <1>2, <2>1, Singles DEF absB, bFire, Promise!Shift
<1>3. CASE ~mmio_busy /\ ~req_pending_valid
  <2>1. /\ executed = "none" /\ ~mmio_busy' /\ s_axil_bresp' = s_axil_bresp
        /\ s_axil_bvalid' = (s_axil_bvalid /\ ~bFire(bready))
    BY <1>3, Signals
    DEF Clock, TrackMmio, ResponseRegs, bFire, executed, IInv, TypeOK, BridgeTypeOK
  <2> QED
    BY <1>3, <2>1, Singles DEF absB, bFire, Promise!Shift
<1> QED
  BY <1>1, <1>2, <1>3

LEMMA PromiseR ==
  ASSUME SpiIsSerial, IInv, NEW bready \in BOOLEAN, NEW rready \in BOOLEAN,
         Clock(bready, rready)
  PROVE  absR' = Promise!Shift(absR, rFire(rready),
                   IF executed = "read" THEN <<ReadRsp(regs, Head(OneOf(ar_hold)))>>
                   ELSE <<>>)
<1>1. CASE mmio_busy
  <2>1. /\ ~s_axil_rvalid /\ executed = "none" /\ mmio_busy' = FALSE
        /\ s_axil_rvalid' = ~mmio_active_write
        /\ ~mmio_active_write => s_axil_rresp' = rsp
    BY <1>1, Signals
    DEF Clock, TrackMmio, ResponseRegs, rFire, executed, IInv, StagingInv, TypeOK,
        BridgeTypeOK, axi_resp_busy
  <2> QED
    BY <1>1, <2>1, Singles DEF absR, rFire, Promise!Shift
<1>2. CASE req_pending_valid
  <2>1. /\ ~s_axil_rvalid /\ ~s_axil_rvalid' /\ ~mmio_busy /\ mmio_busy'
        /\ ~mmio_active_write' <=> executed = "read"
        /\ executed = "read" => rsp' = ReadRsp(regs, Head(OneOf(ar_hold)))
    <3>1. req_fire /\ ~mmio_busy /\ ~s_axil_rvalid /\ ~rsp_fire
      BY <1>2, Signals DEF IInv, StagingInv, axi_resp_busy
    <3>2. ~s_axil_rvalid' /\ mmio_busy' /\ mmio_active_write' = req_pending.write
      BY <3>1 DEF Clock, TrackMmio, ResponseRegs
    <3>3. executed = "read" => rsp' = ReadRsp(regs, req_pending.addr)
      BY <3>1 DEF Clock, Target, req_fire, executed
    <3>4. ~req_pending.write <=> executed = "read"
      BY <3>1 DEF executed
    <3> QED
      BY <3>1, <3>2, <3>3, <3>4, Executes
  <2> QED
    BY <1>2, <2>1, Singles DEF absR, rFire, Promise!Shift
<1>3. CASE ~mmio_busy /\ ~req_pending_valid
  <2>1. /\ executed = "none" /\ ~mmio_busy' /\ s_axil_rresp' = s_axil_rresp
        /\ s_axil_rvalid' = (s_axil_rvalid /\ ~rFire(rready))
    BY <1>3, Signals
    DEF Clock, TrackMmio, ResponseRegs, rFire, executed, IInv, TypeOK, BridgeTypeOK
  <2> QED
    BY <1>3, <2>1, Singles DEF absR, rFire, Promise!Shift
<1> QED
  BY <1>1, <1>2, <1>3

LEMMA PromiseClock ==
  ASSUME SpiIsSerial, IInv, NEW bready \in BOOLEAN, NEW rready \in BOOLEAN,
         Clock(bready, rready)
  PROVE  Promise!Clock(aw_fire, w_fire, ar_fire, bFire(bready), rFire(rready))
<1>1. /\ aw_fire => awaddr # NoBeat
      /\ w_fire => wdata # NoBeat
      /\ ar_fire => araddr # NoBeat
  BY DEF aw_fire, w_fire, ar_fire
<1>2. bFire(bready) => absB # <<>>
  <2>1. bFire(bready) => s_axil_bvalid /\ ~mmio_busy
    BY DEF bFire, IInv, StagingInv, axi_resp_busy
  <2> QED
    BY <2>1, Singles DEF absB
<1>3. rFire(rready) => absR # <<>>
  <2>1. rFire(rready) => s_axil_rvalid /\ ~mmio_busy
    BY DEF rFire, IInv, StagingInv, axi_resp_busy
  <2> QED
    BY <2>1, Singles DEF absR
<1>4. /\ aw_hold' = HoldNext(aw_hold, awaddr, executed = "write")
      /\ w_hold' = HoldNext(w_hold, wdata, executed = "write")
      /\ ar_hold' = HoldNext(ar_hold, araddr, executed = "read")
  BY Executes DEF Clock, HoldRegs, HoldNext, aw_fire, w_fire, ar_fire
<1>5. /\ OneOf(aw_hold)' = Promise!Shift(OneOf(aw_hold), executed = "write",
                                         Promise!Taken(awaddr, aw_fire))
      /\ OneOf(w_hold)' = Promise!Shift(OneOf(w_hold), executed = "write",
                                        Promise!Taken(wdata, w_fire))
      /\ OneOf(ar_hold)' = Promise!Shift(OneOf(ar_hold), executed = "read",
                                         Promise!Taken(araddr, ar_fire))
  BY <1>4, Executes, HoldIsQueue DEF aw_fire, w_fire, ar_fire
<1>6. regs' = IF executed = "write"
              THEN WriteReg(regs, Head(OneOf(aw_hold)), Head(OneOf(w_hold)))
              ELSE regs
  BY Executes DEF Clock, Target, req_fire
<1>7. Promise!Master(FALSE, aw_fire, w_fire, ar_fire, bFire(bready), rFire(rready))
  BY DEF Clock, Master, Promise!Master, bFire, rFire, Channel, Promise!Channel,
         HoldBeat, Promise!HoldBeat, Beats, Promise!Beats, Num, Promise!Num
<1>8. executed \in Promise!Access
  BY Executes
<1> QED
  BY <1>1, <1>2, <1>3, <1>5, <1>6, <1>7, <1>8, PromiseB, PromiseR
  DEF Promise!Clock, WriteReg, Promise!WriteReg, ReadRsp, Promise!ReadRsp

(* Neither wrapper loses, duplicates, reorders or invents an access: what  *)
(* the register file executes and what the master is told are those of the *)
(* queues of AxiLiteSlave, for every register map and any pipelined master *)
(* of the I2C wrapper.                                                     *)
THEOREM Implements == SpiIsSerial /\ Spec => ImplementsSlave
<1> SUFFICES ASSUME SpiIsSerial PROVE Spec => Promise!Spec
  BY DEF ImplementsSlave
<1>1. IInv /\ [Next]_vars => [Promise!Next]_(Promise!vars)
  <2>1. ASSUME IInv, Next PROVE Promise!Next
    <3>1. PICK bready \in BOOLEAN, rready \in BOOLEAN : Clock(bready, rready)
      BY <2>1 DEF Next
    <3>2. /\ aw_fire \in BOOLEAN /\ w_fire \in BOOLEAN /\ ar_fire \in BOOLEAN
          /\ bFire(bready) \in BOOLEAN /\ rFire(rready) \in BOOLEAN
      BY <2>1 DEF aw_fire, w_fire, ar_fire, bFire, rFire, IInv, TypeOK, BridgeTypeOK
    <3>3. Promise!Clock(aw_fire, w_fire, ar_fire, bFire(bready), rFire(rready))
      BY <2>1, <3>1, PromiseClock
    <3> QED
      BY <3>2, <3>3 DEF Promise!Next
  <2>2. UNCHANGED vars => UNCHANGED Promise!vars
    BY DEF vars, Promise!vars, masterVars, Promise!masterVars, bridgeVars, OneOf, absB,
           absR
  <2> QED
    BY <2>1, <2>2
<1>2. IInv /\ [Next]_vars => IInv'
  BY Inductive
<1> QED
  BY InitIInv, PromiseInit, <1>1, <1>2, PTL DEF Spec, Promise!Spec

----------------------------------------------------------------------------
(***************************************************************************)
(* The wrappers that are state machines: the one of the GPIO and           *)
(* seven-segment blocks with any master, the one of the PWM blocks with a  *)
(* serial one.                                                             *)
(*                                                                         *)
(* MachineInv says what each state of a machine holds (MachineHolds), and, *)
(* of the PWM wrapper behind its serial master, that all the master waits  *)
(* for is on a channel or in the machine (OnlyOne): without that, an       *)
(* address of each kind taken in the same idle clock would lose the read.  *)
(* Each queue of the promise then has at most one entry (Queues), and in a *)
(* clock an entry leaves it or one comes into the empty place (Moved).     *)
(***************************************************************************)
CONSTANT Serial
VARIABLES state, aw, w, ar, bresp_reg, rdata_reg

Machine == INSTANCE AxiLiteMachines WITH Wrappers <- {"gpio", "motor"}

GpioStates == {"IDLE", "WRITE_REQ", "WRITE_WAIT_RSP", "WRITE_B",
               "READ_REQ", "READ_WAIT_RSP", "READ_R"}
MotorStates == {"IDLE", "WR_WAIT_DATA", "WR_WAIT_ADDR", "WR_ISSUE", "WR_WAIT_RSP",
                "WR_SEND_B", "RD_ISSUE", "RD_WAIT_RSP", "RD_SEND_R"}

(* What the register file executes in a clock, and whether it answers.     *)
Executing ==
  IF state \in {"WRITE_REQ", "WR_ISSUE"} THEN "write"
  ELSE IF state \in {"READ_REQ", "RD_ISSUE"} THEN "read" ELSE "none"

Answers ==
  state \in {"WRITE_WAIT_RSP", "READ_WAIT_RSP", "WR_WAIT_RSP", "RD_WAIT_RSP"}

MachineTypes ==
  /\ \/ wrapper = "gpio" /\ state \in GpioStates
     \/ wrapper = "motor" /\ state \in MotorStates
  /\ awaddr \in Beats(Addr) /\ wdata \in Beats(Data) /\ araddr \in Beats(Addr)
  /\ aw \in Beats(Addr) /\ w \in Beats(Data) /\ ar \in Beats(Addr)
  /\ regs \in RegFile

(* A request is driven from beats that are there, and the register file    *)
(* has an answer exactly while the machine waits for it.                   *)
MachineHolds ==
  /\ state \in {"WR_WAIT_DATA", "WRITE_REQ", "WR_ISSUE"} => aw # NoBeat
  /\ state \in {"WR_WAIT_ADDR", "WRITE_REQ", "WR_ISSUE"} => w # NoBeat
  /\ state \in {"READ_REQ", "RD_ISSUE"} => ar # NoBeat
  /\ rsp # NoRsp <=> Answers

(* Behind a serial master, everything it waits for is on a channel or in   *)
(* the machine: in IDLE it never drives an address of both kinds.          *)
OnlyOne ==
  wrapper = "motor" =>
    /\ aw_out = Num(awaddr # NoBeat)
                + Num(state \in {"WR_WAIT_DATA", "WR_ISSUE", "WR_WAIT_RSP", "WR_SEND_B"})
    /\ w_out = Num(wdata # NoBeat)
               + Num(state \in {"WR_WAIT_ADDR", "WR_ISSUE", "WR_WAIT_RSP", "WR_SEND_B"})
    /\ ar_out = Num(araddr # NoBeat) + Num(state \in {"RD_ISSUE", "RD_WAIT_RSP", "RD_SEND_R"})
    /\ OneTransaction

MachineInv == MachineTypes /\ MachineHolds /\ OnlyOne

LEMMA Answered ==
  ASSUME NEW a \in Addr, NEW file \in RegFile
  PROVE  WriteRsp(a) # NoRsp /\ ReadRsp(file, a) # NoRsp
<1>1. a \notin BadAddr => file[a] \in Payload
  BY DEF RegFile
<1>2. WriteRsp(a).data # NoBeat /\ ReadRsp(file, a).data # NoBeat
  BY <1>1 DEF WriteRsp, ReadRsp, Payload
<1> QED
  BY <1>2 DEF NoRsp

LEMMA Stored ==
  ASSUME NEW a \in Addr, NEW d \in Data, NEW file \in RegFile
  PROVE  WriteReg(file, a, d) \in RegFile
BY DEF WriteReg, RegFile, Payload

LEMMA GpioTarget ==
  ASSUME MachineInv, wrapper = "gpio", NEW bready \in BOOLEAN, NEW rready \in BOOLEAN,
         Machine!Gpio!Clock(bready, rready)
  PROVE  /\ (Machine!Gpio!mmio_req_fire <=> Executing # "none")
         /\ (Machine!Gpio!mmio_rsp_fire <=> Answers)
         /\ Executing = "write" => regs' = WriteReg(regs, aw, w) /\ rsp' = WriteRsp(aw)
         /\ Executing = "read" => regs' = regs /\ rsp' = ReadRsp(regs, ar)
         /\ Executing = "none" => regs' = regs /\ rsp' = NoRsp
<1> DEFINE req == Machine!Gpio!mmio_req
           ready == Machine!Gpio!mmio_rsp_ready
<1>1. /\ state = "WRITE_REQ" => req = [write |-> TRUE, addr |-> aw, data |-> w]
      /\ state = "READ_REQ" => req = [write |-> FALSE, addr |-> ar, data |-> Zero]
      /\ state \notin {"WRITE_REQ", "READ_REQ"} => req = NoReq
  <2>1. CASE state = "WRITE_REQ"
    BY <2>1, Zenon DEF Machine!Gpio!mmio_req, Machine!Gpio!WriteRequest
  <2>2. CASE state = "READ_REQ"
    BY <2>2, Zenon DEF Machine!Gpio!mmio_req, Machine!Gpio!ReadRequest
  <2>3. CASE state \notin {"WRITE_REQ", "READ_REQ"}
    BY <2>3, Zenon DEF Machine!Gpio!mmio_req, Machine!Gpio!NoReq, NoReq
  <2> QED BY <2>1, <2>2, <2>3
<1>2. (ready <=> Answers) /\ Machine!Gpio!NoReq = NoReq /\ Machine!Gpio!NoRsp = NoRsp
  BY DEF Machine!Gpio!mmio_rsp_ready, Machine!Gpio!NoReq, NoReq, Machine!Gpio!NoRsp,
         NoRsp, Answers, MachineInv, MachineTypes, GpioStates
<1>3. Machine!Gpio!Target(req, ready)
  BY Zenon DEF Machine!Gpio!Clock
<1> HIDE DEF req, ready
<1>4. /\ state = "WRITE_REQ" => req # NoReq /\ req.write /\ req.addr = aw /\ req.data = w
      /\ state = "READ_REQ" => req # NoReq /\ ~req.write /\ req.addr = ar
  BY <1>1 DEF NoReq
<1>5. Machine!Gpio!MmioFire(req, ready) <=> Executing # "none"
  BY <1>1, <1>2, <1>4
  DEF Machine!Gpio!MmioFire, Machine!Gpio!req_ready, Machine!Gpio!rsp_valid, Executing,
      MachineInv, MachineHolds, MachineTypes, Answers, GpioStates
<1>6. /\ Executing = "write" => state = "WRITE_REQ"
      /\ Executing = "read" => state = "READ_REQ"
      /\ Executing = "none" => Answers \/ rsp = NoRsp
  BY DEF Executing, MachineInv, MachineHolds, MachineTypes, GpioStates
<1>7. /\ (Machine!Gpio!mmio_req_fire <=> Executing # "none")
  BY <1>5 DEF req, ready, Machine!Gpio!mmio_req_fire
<1>8. (Machine!Gpio!mmio_rsp_fire <=> Answers)
  BY <1>2 DEF ready, Machine!Gpio!mmio_rsp_fire, Machine!Gpio!rsp_valid,
         MachineInv, MachineHolds
<1> QED
  BY <1>2, <1>3, <1>4, <1>5, <1>6, <1>7, <1>8
  DEF Machine!Gpio!Target, Machine!Gpio!WriteReg, WriteReg, Machine!Gpio!WriteRsp, WriteRsp,
      Machine!Gpio!ReadRsp, ReadRsp

LEMMA MotorTarget ==
  ASSUME MachineInv, wrapper = "motor", NEW bready \in BOOLEAN, NEW rready \in BOOLEAN,
         Machine!Motor!Clock(bready, rready)
  PROVE  /\ (Machine!Motor!req_fire <=> Executing # "none")
         /\ (Machine!Motor!rsp_fire <=> Answers)
         /\ Executing = "write" => regs' = WriteReg(regs, aw, w) /\ rsp' = WriteRsp(aw)
         /\ Executing = "read" => regs' = regs /\ rsp' = ReadRsp(regs, ar)
         /\ Executing = "none" => regs' = regs /\ rsp' = NoRsp
<1> DEFINE req == Machine!Motor!request
           ready == Machine!Motor!rsp_ready
<1>1. /\ state = "WR_ISSUE" => req = [write |-> TRUE, addr |-> aw, data |-> w]
      /\ state = "RD_ISSUE" => req = [write |-> FALSE, addr |-> ar, data |-> Zero]
      /\ state \notin {"WR_ISSUE", "RD_ISSUE"} => req = NoReq
  <2>1. CASE state = "WR_ISSUE"
    BY <2>1, Zenon DEF Machine!Motor!request, Machine!Motor!WriteRequest
  <2>2. CASE state = "RD_ISSUE"
    BY <2>2, Zenon DEF Machine!Motor!request, Machine!Motor!ReadRequest
  <2>3. CASE state \notin {"WR_ISSUE", "RD_ISSUE"}
    BY <2>3, Zenon DEF Machine!Motor!request, Machine!Motor!NoReq, NoReq
  <2> QED BY <2>1, <2>2, <2>3
<1>2. (ready <=> Answers) /\ Machine!Motor!NoReq = NoReq /\ Machine!Motor!NoRsp = NoRsp
  BY DEF Machine!Motor!rsp_ready, Machine!Motor!NoReq, NoReq, Machine!Motor!NoRsp,
         NoRsp, Answers, MachineInv, MachineTypes, MotorStates
<1>3. Machine!Motor!Target(req, ready)
  BY Zenon DEF Machine!Motor!Clock
<1> HIDE DEF req, ready
<1>4. /\ state = "WR_ISSUE" => req # NoReq /\ req.write /\ req.addr = aw /\ req.data = w
      /\ state = "RD_ISSUE" => req # NoReq /\ ~req.write /\ req.addr = ar
  BY <1>1 DEF NoReq
<1>5. Machine!Motor!MmioFire(req, ready) <=> Executing # "none"
  BY <1>1, <1>2, <1>4
  DEF Machine!Motor!MmioFire, Machine!Motor!req_ready, Machine!Motor!rsp_valid, Executing,
      MachineInv, MachineHolds, MachineTypes, Answers, MotorStates
<1>6. /\ Executing = "write" => state = "WR_ISSUE"
      /\ Executing = "read" => state = "RD_ISSUE"
      /\ Executing = "none" => Answers \/ rsp = NoRsp
  BY DEF Executing, MachineInv, MachineHolds, MachineTypes, MotorStates
<1>7. Machine!Motor!req_fire <=> Executing # "none"
  BY <1>5 DEF req, ready, Machine!Motor!req_fire
<1>8. Machine!Motor!rsp_fire <=> Answers
  BY <1>2 DEF ready, Machine!Motor!rsp_fire, Machine!Motor!rsp_valid, MachineInv, MachineHolds
<1> QED
  BY <1>2, <1>3, <1>4, <1>5, <1>6, <1>7, <1>8
  DEF Machine!Motor!Target, Machine!Motor!WriteReg, WriteReg, Machine!Motor!WriteRsp, WriteRsp,
      Machine!Motor!ReadRsp, ReadRsp

LEMMA GpioStep ==
  ASSUME MachineInv, wrapper = "gpio", NEW bready \in BOOLEAN, NEW rready \in BOOLEAN,
         Machine!Gpio!Clock(bready, rready)
  PROVE  /\ state = "IDLE" =>
              /\ \/ state' = "IDLE"
                 \/ state' = "WRITE_REQ" /\ aw # NoBeat /\ w # NoBeat
                 \/ state' = "READ_REQ" /\ ar # NoBeat
              /\ aw' = (IF aw = NoBeat THEN awaddr ELSE aw)
              /\ w' = (IF w = NoBeat THEN wdata ELSE w)
              /\ ar' = (IF ar = NoBeat THEN araddr ELSE ar)
         /\ state # "IDLE" =>
              /\ aw' = (IF Executing = "write" THEN NoBeat ELSE aw)
              /\ w' = (IF Executing = "write" THEN NoBeat ELSE w)
              /\ ar' = (IF Executing = "read" THEN NoBeat ELSE ar)
         /\ state = "WRITE_REQ" => state' = "WRITE_WAIT_RSP"
         /\ state = "WRITE_WAIT_RSP" => state' = "WRITE_B" /\ bresp_reg' = rsp.err
         /\ state = "WRITE_B" =>
              state' = (IF bready THEN "IDLE" ELSE "WRITE_B") /\ bresp_reg' = bresp_reg
         /\ state = "READ_REQ" => state' = "READ_WAIT_RSP"
         /\ state = "READ_WAIT_RSP" => state' = "READ_R" /\ rdata_reg' = rsp
         /\ state = "READ_R" =>
              state' = (IF rready THEN "IDLE" ELSE "READ_R") /\ rdata_reg' = rdata_reg
<1>1. /\ Machine!Gpio!mmio_req_fire <=> Executing # "none"
      /\ Machine!Gpio!mmio_rsp_fire <=> Answers
  BY GpioTarget
<1>2. /\ aw # NoBeat /\ w # NoBeat => Machine!Gpio!FromIdle = "WRITE_REQ"
      /\ ~(aw # NoBeat /\ w # NoBeat) /\ ar # NoBeat => Machine!Gpio!FromIdle = "READ_REQ"
      /\ ~(aw # NoBeat /\ w # NoBeat) /\ ar = NoBeat => Machine!Gpio!FromIdle = "IDLE"
  <2>1. CASE aw # NoBeat /\ w # NoBeat
    BY <2>1, Zenon DEF Machine!Gpio!FromIdle
  <2>2. CASE ~(aw # NoBeat /\ w # NoBeat) /\ ar # NoBeat
    BY <2>2, Zenon DEF Machine!Gpio!FromIdle
  <2>3. CASE ~(aw # NoBeat /\ w # NoBeat) /\ ar = NoBeat
    BY <2>3, Zenon DEF Machine!Gpio!FromIdle
  <2> QED BY <2>1, <2>2, <2>3
<1>3. /\ Machine!Gpio!Fsm(Machine!Gpio!bvalid /\ bready, Machine!Gpio!rvalid /\ rready)
      /\ Machine!Gpio!HoldRegs /\ Machine!Gpio!ResponseRegs
  BY Zenon DEF Machine!Gpio!Clock
<1>4. /\ state = "IDLE" => state' = Machine!Gpio!FromIdle
      /\ state = "WRITE_REQ" => state' = "WRITE_WAIT_RSP"
      /\ state = "WRITE_WAIT_RSP" => state' = "WRITE_B"
      /\ state = "WRITE_B" => state' = (IF bready THEN "IDLE" ELSE "WRITE_B")
      /\ state = "READ_REQ" => state' = "READ_WAIT_RSP"
      /\ state = "READ_WAIT_RSP" => state' = "READ_R"
      /\ state = "READ_R" => state' = (IF rready THEN "IDLE" ELSE "READ_R")
  BY <1>1, <1>3
  DEF Machine!Gpio!Fsm, Machine!Gpio!Move, Machine!Gpio!bvalid, Machine!Gpio!rvalid,
     Executing, Answers
<1>5. /\ state = "WRITE_WAIT_RSP" => bresp_reg' = rsp.err
      /\ state = "WRITE_B" => bresp_reg' = bresp_reg
      /\ state = "READ_WAIT_RSP" => rdata_reg' = rsp
      /\ state = "READ_R" => rdata_reg' = rdata_reg
  BY <1>1, <1>3 DEF Machine!Gpio!ResponseRegs, Answers
<1>6. /\ state = "IDLE" =>
          /\ aw' = (IF aw = NoBeat THEN awaddr ELSE aw)
          /\ w' = (IF w = NoBeat THEN wdata ELSE w)
          /\ ar' = (IF ar = NoBeat THEN araddr ELSE ar)
      /\ state # "IDLE" =>
          /\ aw' = (IF Executing = "write" THEN NoBeat ELSE aw)
          /\ w' = (IF Executing = "write" THEN NoBeat ELSE w)
          /\ ar' = (IF Executing = "read" THEN NoBeat ELSE ar)
  BY <1>1, <1>3
  DEF Machine!Gpio!HoldRegs, Machine!Gpio!NextHold, Machine!Gpio!aw_fire, Machine!Gpio!w_fire,
      Machine!Gpio!ar_fire, Machine!Gpio!Ready, Executing, MachineInv, MachineTypes, GpioStates
<1> HIDE DEF Answers
<1> QED
  BY <1>2, <1>4, <1>5, <1>6

LEMMA MotorStep ==
  ASSUME MachineInv, wrapper = "motor", NEW bready \in BOOLEAN, NEW rready \in BOOLEAN,
         Machine!Motor!Clock(bready, rready)
  PROVE  /\ state = "IDLE" =>
              state' = IF awaddr # NoBeat /\ wdata # NoBeat THEN "WR_ISSUE"
                       ELSE IF awaddr # NoBeat THEN "WR_WAIT_DATA"
                       ELSE IF wdata # NoBeat THEN "WR_WAIT_ADDR"
                       ELSE IF araddr # NoBeat THEN "RD_ISSUE" ELSE "IDLE"
         /\ state = "WR_WAIT_DATA" =>
              state' = IF wdata # NoBeat THEN "WR_ISSUE" ELSE "WR_WAIT_DATA"
         /\ state = "WR_WAIT_ADDR" =>
              state' = IF awaddr # NoBeat THEN "WR_ISSUE" ELSE "WR_WAIT_ADDR"
         /\ state = "WR_ISSUE" => state' = "WR_WAIT_RSP"
         /\ state = "WR_WAIT_RSP" => state' = "WR_SEND_B" /\ bresp_reg' = rsp.err
         /\ state = "WR_SEND_B" =>
              state' = (IF bready THEN "IDLE" ELSE "WR_SEND_B") /\ bresp_reg' = bresp_reg
         /\ state = "RD_ISSUE" => state' = "RD_WAIT_RSP"
         /\ state = "RD_WAIT_RSP" => state' = "RD_SEND_R" /\ rdata_reg' = rsp
         /\ state = "RD_SEND_R" =>
              state' = (IF rready THEN "IDLE" ELSE "RD_SEND_R") /\ rdata_reg' = rdata_reg
         /\ aw' = (IF Machine!Motor!aw_fire THEN awaddr ELSE aw)
         /\ w' = (IF Machine!Motor!w_fire THEN wdata ELSE w)
         /\ ar' = (IF Machine!Motor!ar_fire THEN araddr ELSE ar)
<1>1. /\ Machine!Motor!req_fire <=> Executing # "none"
      /\ Machine!Motor!rsp_fire <=> Answers
  BY MotorTarget
<1>2. ASSUME state = "IDLE"
      PROVE  Machine!Motor!FromIdle =
               IF awaddr # NoBeat /\ wdata # NoBeat THEN "WR_ISSUE"
               ELSE IF awaddr # NoBeat THEN "WR_WAIT_DATA"
               ELSE IF wdata # NoBeat THEN "WR_WAIT_ADDR"
               ELSE IF araddr # NoBeat THEN "RD_ISSUE" ELSE "IDLE"
  <2>1. /\ Machine!Motor!aw_fire <=> awaddr # NoBeat
        /\ Machine!Motor!w_fire <=> wdata # NoBeat
        /\ Machine!Motor!ar_fire <=> araddr # NoBeat
    BY <1>2 DEF Machine!Motor!aw_fire, Machine!Motor!w_fire, Machine!Motor!ar_fire,
                Machine!Motor!awready, Machine!Motor!wready, Machine!Motor!arready
  <2>2. CASE awaddr # NoBeat /\ wdata # NoBeat
    BY <2>1, <2>2, Zenon DEF Machine!Motor!FromIdle
  <2>3. CASE awaddr # NoBeat /\ ~(wdata # NoBeat)
    BY <2>1, <2>3, Zenon DEF Machine!Motor!FromIdle
  <2>4. CASE ~(awaddr # NoBeat) /\ wdata # NoBeat
    BY <2>1, <2>4, Zenon DEF Machine!Motor!FromIdle
  <2>5. CASE ~(awaddr # NoBeat) /\ ~(wdata # NoBeat) /\ araddr # NoBeat
    BY <2>1, <2>5, Zenon DEF Machine!Motor!FromIdle
  <2>6. CASE ~(awaddr # NoBeat) /\ ~(wdata # NoBeat) /\ ~(araddr # NoBeat)
    BY <2>1, <2>6, Zenon DEF Machine!Motor!FromIdle
  <2> QED BY <2>2, <2>3, <2>4, <2>5, <2>6
<1>3. /\ Machine!Motor!Fsm(Machine!Motor!bvalid /\ bready, Machine!Motor!rvalid /\ rready)
      /\ Machine!Motor!Captures
  BY Zenon DEF Machine!Motor!Clock
<1>4. /\ state = "IDLE" => state' = Machine!Motor!FromIdle
      /\ state = "WR_WAIT_DATA" =>
              state' = IF wdata # NoBeat THEN "WR_ISSUE" ELSE "WR_WAIT_DATA"
      /\ state = "WR_WAIT_ADDR" =>
              state' = IF awaddr # NoBeat THEN "WR_ISSUE" ELSE "WR_WAIT_ADDR"
      /\ state = "WR_ISSUE" => state' = "WR_WAIT_RSP"
      /\ state = "WR_WAIT_RSP" => state' = "WR_SEND_B"
      /\ state = "WR_SEND_B" => state' = (IF bready THEN "IDLE" ELSE "WR_SEND_B")
      /\ state = "RD_ISSUE" => state' = "RD_WAIT_RSP"
      /\ state = "RD_WAIT_RSP" => state' = "RD_SEND_R"
      /\ state = "RD_SEND_R" => state' = (IF rready THEN "IDLE" ELSE "RD_SEND_R")
  BY <1>1, <1>3
  DEF Machine!Motor!Fsm, Machine!Motor!Move, Machine!Motor!bvalid, Machine!Motor!rvalid,
      Machine!Motor!aw_fire, Machine!Motor!w_fire, Machine!Motor!awready,
      Machine!Motor!wready, Executing, Answers
<1>5. /\ state = "WR_WAIT_RSP" => bresp_reg' = rsp.err
      /\ state = "WR_SEND_B" => bresp_reg' = bresp_reg
      /\ state = "RD_WAIT_RSP" => rdata_reg' = rsp
      /\ state = "RD_SEND_R" => rdata_reg' = rdata_reg
      /\ aw' = (IF Machine!Motor!aw_fire THEN awaddr ELSE aw)
      /\ w' = (IF Machine!Motor!w_fire THEN wdata ELSE w)
      /\ ar' = (IF Machine!Motor!ar_fire THEN araddr ELSE ar)
  BY <1>1, <1>3 DEF Machine!Motor!Captures, Answers
<1> QED
  BY <1>2, <1>4, <1>5

(* The response channels in the clock in progress.                         *)
bTaken(bready) == state \in {"WRITE_B", "WR_SEND_B"} /\ bready
rTaken(rready) == state \in {"READ_R", "RD_SEND_R"} /\ rready

LEMMA MachineMaster ==
  ASSUME MachineInv, NEW bready \in BOOLEAN, NEW rready \in BOOLEAN
  PROVE  /\ wrapper = "gpio" /\ Machine!Gpio!Clock(bready, rready) =>
              Master(FALSE, Machine!Gpio!aw_fire, Machine!Gpio!w_fire, Machine!Gpio!ar_fire,
                     bTaken(bready), rTaken(rready))
         /\ wrapper = "motor" /\ Machine!Motor!Clock(bready, rready) =>
              Master(Serial, Machine!Motor!aw_fire, Machine!Motor!w_fire,
                     Machine!Motor!ar_fire,
                     bTaken(bready), rTaken(rready))
<1>1. ASSUME wrapper = "gpio", Machine!Gpio!Clock(bready, rready)
      PROVE  Master(FALSE, Machine!Gpio!aw_fire, Machine!Gpio!w_fire, Machine!Gpio!ar_fire,
                     bTaken(bready), rTaken(rready))
  <2>1. Machine!Gpio!Master(FALSE, Machine!Gpio!aw_fire, Machine!Gpio!w_fire,
                            Machine!Gpio!ar_fire, Machine!Gpio!bvalid /\ bready,
                            Machine!Gpio!rvalid /\ rready)
    BY <1>1, Zenon DEF Machine!Gpio!Clock
  <2>2. /\ (Machine!Gpio!bvalid /\ bready) = bTaken(bready)
        /\ (Machine!Gpio!rvalid /\ rready) = rTaken(rready)
    BY <1>1 DEF MachineInv, MachineTypes, GpioStates, Machine!Gpio!bvalid, Machine!Gpio!rvalid,
       bTaken, rTaken
  <2> QED
    BY <2>1, <2>2
    DEF Master, Machine!Gpio!Master, Channel, Machine!Gpio!Channel, HoldBeat,
        Machine!Gpio!HoldBeat, Beats, Machine!Gpio!Beats, Num, Machine!Gpio!Num
<1>2. ASSUME wrapper = "motor", Machine!Motor!Clock(bready, rready)
      PROVE  Master(Serial, Machine!Motor!aw_fire, Machine!Motor!w_fire,
                    Machine!Motor!ar_fire, bTaken(bready), rTaken(rready))
  <2>1. Machine!Motor!Master(Serial, Machine!Motor!aw_fire, Machine!Motor!w_fire,
                            Machine!Motor!ar_fire, Machine!Motor!bvalid /\ bready,
                            Machine!Motor!rvalid /\ rready)
    BY <1>2, Zenon DEF Machine!Motor!Clock
  <2>2. /\ (Machine!Motor!bvalid /\ bready) = bTaken(bready)
        /\ (Machine!Motor!rvalid /\ rready) = rTaken(rready)
    BY <1>2 DEF MachineInv, MachineTypes, MotorStates, Machine!Motor!bvalid,
       Machine!Motor!rvalid, bTaken, rTaken
  <2> QED
    BY <2>1, <2>2
    DEF Master, Machine!Motor!Master, Channel, Machine!Motor!Channel, HoldBeat,
        Machine!Motor!HoldBeat, Beats, Machine!Motor!Beats, Num, Machine!Motor!Num,
        OneTransaction, Machine!Motor!OneTransaction
<1> QED BY <1>1, <1>2

LEMMA MachineInit == Machine!Init => MachineInv
<1> SUFFICES ASSUME Machine!Init PROVE MachineInv
  OBVIOUS
<1>1. /\ wrapper \in {"gpio", "motor"} /\ state = "IDLE"
      /\ awaddr = NoBeat /\ wdata = NoBeat /\ araddr = NoBeat
      /\ aw_out = 0 /\ w_out = 0 /\ ar_out = 0
      /\ aw = NoBeat /\ w = NoBeat /\ ar = NoBeat
      /\ regs = ResetRegs /\ rsp = NoRsp
  BY DEF Machine!Init, Machine!Gpio!Init, Machine!Motor!Init, Machine!Gpio!MasterInit,
         Machine!Motor!MasterInit, Machine!Gpio!TargetInit, Machine!Motor!TargetInit,
         Machine!Gpio!ResetRegs, Machine!Motor!ResetRegs, ResetRegs,
         Machine!Gpio!NoRsp, Machine!Motor!NoRsp, NoRsp
<1> QED
  BY <1>1
  DEF MachineInv, MachineTypes, MachineHolds, OnlyOne, GpioStates, MotorStates, Answers,
      Beats, RegFile, ResetRegs, Payload, Num, OneTransaction

(* What every clock does, whichever machine: the register file.            *)
LEMMA MachineServes ==
  ASSUME MachineInv,
         /\ Executing = "write" => regs' = WriteReg(regs, aw, w) /\ rsp' = WriteRsp(aw)
         /\ Executing = "read" => regs' = regs /\ rsp' = ReadRsp(regs, ar)
         /\ Executing = "none" => regs' = regs /\ rsp' = NoRsp
  PROVE  regs' \in RegFile /\ (rsp' # NoRsp <=> Executing # "none")
<1>1. /\ regs \in RegFile
      /\ Executing = "write" => aw \in Addr /\ w \in Data
      /\ Executing = "read" => ar \in Addr
      /\ Executing \in {"none", "read", "write"}
  BY DEF MachineInv, MachineTypes, MachineHolds, Executing, Beats
<1> QED
  BY <1>1, Answered, Stored

LEMMA GpioKeeps ==
  ASSUME MachineInv, wrapper = "gpio", NEW bready \in BOOLEAN, NEW rready \in BOOLEAN,
         Machine!Gpio!Clock(bready, rready), wrapper' = wrapper
  PROVE  MachineInv'
<1>1. regs' \in RegFile /\ (rsp' # NoRsp <=> Executing # "none")
  BY GpioTarget, MachineServes
<1>2. awaddr' \in Beats(Addr) /\ wdata' \in Beats(Data) /\ araddr' \in Beats(Addr)
  BY MachineMaster DEF Master, Channel
<1>3. state' \in GpioStates
  BY GpioStep DEF MachineInv, MachineTypes, GpioStates
<1>4. aw' \in Beats(Addr) /\ w' \in Beats(Data) /\ ar' \in Beats(Addr)
  BY GpioStep DEF MachineInv, MachineTypes, Beats
<1>5. /\ state' \in {"WRITE_WAIT_RSP", "READ_WAIT_RSP"} <=> Executing # "none"
      /\ state' = "WRITE_REQ" => aw' # NoBeat /\ w' # NoBeat
      /\ state' = "READ_REQ" => ar' # NoBeat
  BY GpioStep DEF MachineInv, MachineTypes, GpioStates, Executing
<1> QED
  BY <1>1, <1>2, <1>3, <1>4, <1>5
  DEF MachineInv, MachineTypes, MachineHolds, OnlyOne, GpioStates, Answers

LEMMA MotorKeeps ==
  ASSUME Serial, MachineInv, wrapper = "motor", NEW bready \in BOOLEAN,
         NEW rready \in BOOLEAN, Machine!Motor!Clock(bready, rready), wrapper' = wrapper
  PROVE  MachineInv'
<1>1. regs' \in RegFile /\ (rsp' # NoRsp <=> Executing # "none")
  BY MotorTarget, MachineServes
<1>2. MasterTypeOK
  BY DEF MachineInv, MachineTypes, OnlyOne, Num, MasterTypeOK
<1>3. /\ Machine!Motor!aw_fire <=> awaddr # NoBeat /\ state \in {"IDLE", "WR_WAIT_ADDR"}
      /\ Machine!Motor!w_fire <=> wdata # NoBeat /\ state \in {"IDLE", "WR_WAIT_DATA"}
      /\ Machine!Motor!ar_fire <=> araddr # NoBeat /\ state = "IDLE"
  BY DEF Machine!Motor!aw_fire, Machine!Motor!w_fire, Machine!Motor!ar_fire,
         Machine!Motor!awready, Machine!Motor!wready, Machine!Motor!arready
<1>4. /\ awaddr' \in Beats(Addr) /\ wdata' \in Beats(Data) /\ araddr' \in Beats(Addr)
      /\ aw_out' = aw_out + Num(awaddr' # NoBeat)
                     - Num(awaddr # NoBeat /\ ~Machine!Motor!aw_fire) - Num(bTaken(bready))
      /\ w_out' = w_out + Num(wdata' # NoBeat)
                     - Num(wdata # NoBeat /\ ~Machine!Motor!w_fire) - Num(bTaken(bready))
      /\ ar_out' = ar_out + Num(araddr' # NoBeat)
                     - Num(araddr # NoBeat /\ ~Machine!Motor!ar_fire) - Num(rTaken(rready))
      /\ OneTransaction'
  <2>1. /\ Machine!Motor!aw_fire \in BOOLEAN /\ Machine!Motor!w_fire \in BOOLEAN
        /\ Machine!Motor!ar_fire \in BOOLEAN
        /\ bTaken(bready) \in BOOLEAN /\ rTaken(rready) \in BOOLEAN
    BY DEF Machine!Motor!aw_fire, Machine!Motor!w_fire, Machine!Motor!ar_fire, bTaken, rTaken
  <2>2. Master(Serial, Machine!Motor!aw_fire, Machine!Motor!w_fire,
                     Machine!Motor!ar_fire,
               bTaken(bready), rTaken(rready))
    BY MachineMaster
  <2> QED
    BY <1>2, <2>1, <2>2, ChannelCounts DEF Master
<1>5. state' \in MotorStates
  BY MotorStep DEF MachineInv, MachineTypes, MotorStates
<1>6. aw' \in Beats(Addr) /\ w' \in Beats(Data) /\ ar' \in Beats(Addr)
  BY MotorStep DEF MachineInv, MachineTypes
<1>7. /\ state' \in {"WR_WAIT_RSP", "RD_WAIT_RSP"} <=> Executing # "none"
      /\ state' \in {"WR_WAIT_DATA", "WR_ISSUE"} => aw' # NoBeat
      /\ state' \in {"WR_WAIT_ADDR", "WR_ISSUE"} => w' # NoBeat
      /\ state' = "RD_ISSUE" => ar' # NoBeat
  BY <1>3, MotorStep DEF MachineInv, MachineTypes, MachineHolds, MotorStates, Executing
<1>8. OnlyOne'
  <2>1. /\ aw_out' = Num(awaddr' # NoBeat)
             + Num(state' \in {"WR_WAIT_DATA", "WR_ISSUE", "WR_WAIT_RSP", "WR_SEND_B"})
        /\ w_out' = Num(wdata' # NoBeat)
             + Num(state' \in {"WR_WAIT_ADDR", "WR_ISSUE", "WR_WAIT_RSP", "WR_SEND_B"})
        /\ ar_out' = Num(araddr' # NoBeat)
             + Num(state' \in {"RD_ISSUE", "RD_WAIT_RSP", "RD_SEND_R"})
    BY <1>3, <1>4, MotorStep
    DEF MachineInv, MachineTypes, MotorStates, OnlyOne, OneTransaction, Num, bTaken, rTaken
  <2> QED
    BY <1>4, <2>1 DEF OnlyOne
<1> QED
  BY <1>1, <1>4, <1>5, <1>6, <1>7, <1>8
  DEF MachineInv, MachineTypes, MachineHolds, MotorStates, Answers

(* The queues of the promise, as the refinement mapping has them, and the  *)
(* one entry each of them has at most.                                     *)
awQ == Machine!Either(Machine!Gpio!absAW, Machine!Motor!absAW)
wQ  == Machine!Either(Machine!Gpio!absW, Machine!Motor!absW)
arQ == Machine!Either(Machine!Gpio!absAR, Machine!Motor!absAR)
bQ  == Machine!Either(Machine!Gpio!absB, Machine!Motor!absB)
rQ  == Machine!Either(Machine!Gpio!absR, Machine!Motor!absR)

hasAW == IF wrapper = "gpio" THEN aw # NoBeat ELSE state \in {"WR_WAIT_DATA", "WR_ISSUE"}
hasW  == IF wrapper = "gpio" THEN w # NoBeat ELSE state \in {"WR_WAIT_ADDR", "WR_ISSUE"}
hasAR == IF wrapper = "gpio" THEN ar # NoBeat ELSE state = "RD_ISSUE"
hasB  == state \in {"WRITE_WAIT_RSP", "WRITE_B", "WR_WAIT_RSP", "WR_SEND_B"}
hasR  == state \in {"READ_WAIT_RSP", "READ_R", "RD_WAIT_RSP", "RD_SEND_R"}

theB == IF state \in {"WRITE_WAIT_RSP", "WR_WAIT_RSP"} THEN rsp.err ELSE bresp_reg
theR == IF state \in {"READ_WAIT_RSP", "RD_WAIT_RSP"} THEN rsp ELSE rdata_reg

AtMost(has, x) == IF has THEN <<x>> ELSE <<>>

LEMMA Queues ==
  MachineTypes => /\ awQ = AtMost(hasAW, aw) /\ wQ = AtMost(hasW, w)
                  /\ arQ = AtMost(hasAR, ar)
                  /\ bQ = AtMost(hasB, theB) /\ rQ = AtMost(hasR, theR)
<1> SUFFICES ASSUME MachineTypes
             PROVE  /\ awQ = AtMost(hasAW, aw) /\ wQ = AtMost(hasW, w)
                    /\ arQ = AtMost(hasAR, ar)
                    /\ bQ = AtMost(hasB, theB) /\ rQ = AtMost(hasR, theR)
  OBVIOUS
<1>1. awQ = AtMost(hasAW, aw) /\ wQ = AtMost(hasW, w) /\ arQ = AtMost(hasAR, ar)
  BY DEF awQ, wQ, arQ, AtMost, hasAW, hasW, hasAR, Machine!Either,
         Machine!Gpio!absAW, Machine!Gpio!absW, Machine!Gpio!absAR, Machine!Gpio!OneOf,
         Machine!Motor!absAW, Machine!Motor!absW, Machine!Motor!absAR,
         Machine!Motor!HeldAW, Machine!Motor!HeldW, Machine!Motor!HeldAR
<1>2. /\ state = "WRITE_WAIT_RSP" => Machine!Gpio!absB = <<rsp.err>>
      /\ state = "WRITE_B" => Machine!Gpio!absB = <<bresp_reg>>
      /\ state \notin {"WRITE_WAIT_RSP", "WRITE_B"} => Machine!Gpio!absB = <<>>
      /\ state = "WR_WAIT_RSP" => Machine!Motor!absB = <<rsp.err>>
      /\ state = "WR_SEND_B" => Machine!Motor!absB = <<bresp_reg>>
      /\ state \notin {"WR_WAIT_RSP", "WR_SEND_B"} => Machine!Motor!absB = <<>>
  BY Zenon DEF Machine!Gpio!absB, Machine!Gpio!bvalid, Machine!Motor!absB, Machine!Motor!bvalid
<1>3. /\ state = "READ_WAIT_RSP" => Machine!Gpio!absR = <<rsp>>
      /\ state = "READ_R" => Machine!Gpio!absR = <<rdata_reg>>
      /\ state \notin {"READ_WAIT_RSP", "READ_R"} => Machine!Gpio!absR = <<>>
      /\ state = "RD_WAIT_RSP" => Machine!Motor!absR = <<rsp>>
      /\ state = "RD_SEND_R" => Machine!Motor!absR = <<rdata_reg>>
      /\ state \notin {"RD_WAIT_RSP", "RD_SEND_R"} => Machine!Motor!absR = <<>>
  BY Zenon DEF Machine!Gpio!absR, Machine!Gpio!rvalid, Machine!Motor!absR, Machine!Motor!rvalid
<1>4. bQ = AtMost(hasB, theB)
  BY <1>2 DEF bQ, AtMost, hasB, theB, Machine!Either, MachineTypes, GpioStates, MotorStates
<1>5. rQ = AtMost(hasR, theR)
  BY <1>3 DEF rQ, AtMost, hasR, theR, Machine!Either, MachineTypes, GpioStates, MotorStates
<1> QED BY <1>1, <1>4, <1>5

(* A place before and after a clock: its entry leaves, or one comes into   *)
(* an empty place.                                                         *)
Moved(has, x, hasNext, xNext, leaves, comes, entry) ==
  /\ leaves => has
  /\ hasNext <=> (has /\ ~leaves) \/ comes
  /\ ~(has /\ ~leaves /\ comes)
  /\ comes => xNext = entry
  /\ has /\ ~leaves => xNext = x

LEMMA OneMoves ==
  ASSUME NEW has, NEW x, NEW hasNext, NEW xNext, NEW leaves, NEW comes, NEW entry,
         Moved(has, x, hasNext, xNext, leaves, comes, entry)
  PROVE  AtMost(hasNext, xNext) =
           Machine!Promise!Shift(AtMost(has, x), leaves, Machine!Promise!Taken(entry, comes))
<1> USE DEF Moved, AtMost, Machine!Promise!Shift, Machine!Promise!Taken
<1>1. CASE leaves /\ comes
  BY <1>1, Singles
<1>2. CASE leaves /\ ~comes
  BY <1>2, Singles
<1>3. CASE ~leaves /\ comes
  BY <1>3, Singles
<1>4. CASE ~leaves /\ ~comes /\ has
  BY <1>4, Singles
<1>5. CASE ~leaves /\ ~comes /\ ~has
  BY <1>5, Singles
<1> QED
  BY <1>1, <1>2, <1>3, <1>4, <1>5

(* What moves in a clock: the beats taken, and the responses.              *)
awFire == IF wrapper = "gpio" THEN Machine!Gpio!aw_fire ELSE Machine!Motor!aw_fire
wFire  == IF wrapper = "gpio" THEN Machine!Gpio!w_fire ELSE Machine!Motor!w_fire
arFire == IF wrapper = "gpio" THEN Machine!Gpio!ar_fire ELSE Machine!Motor!ar_fire

Moves ==
  /\ Moved(hasAW, aw, hasAW', aw', Executing = "write", awFire, awaddr)
  /\ Moved(hasW, w, hasW', w', Executing = "write", wFire, wdata)
  /\ Moved(hasAR, ar, hasAR', ar', Executing = "read", arFire, araddr)
  /\ awFire => awaddr # NoBeat
  /\ wFire => wdata # NoBeat
  /\ arFire => araddr # NoBeat

Replies(bready, rready) ==
  /\ Moved(hasB, theB, hasB', theB', bTaken(bready), Executing = "write", aw \in BadAddr)
  /\ Moved(hasR, theR, hasR', theR', rTaken(rready), Executing = "read", ReadRsp(regs, ar))

LEMMA GpioMoves ==
  ASSUME MachineInv, wrapper = "gpio", NEW bready \in BOOLEAN, NEW rready \in BOOLEAN,
         Machine!Gpio!Clock(bready, rready), wrapper' = wrapper
  PROVE  Moves /\ Replies(bready, rready)
<1>1. Moves
  BY GpioStep
  DEF Moves, Moved, MachineInv, MachineTypes, MachineHolds, GpioStates, Executing,
      hasAW, hasW, hasAR,
      awFire, wFire, arFire,
      Machine!Gpio!aw_fire, Machine!Gpio!w_fire, Machine!Gpio!ar_fire,
      Machine!Gpio!Ready
<1>2. Replies(bready, rready)
  BY GpioStep, GpioTarget
  DEF Replies, Moved, MachineInv, MachineTypes, GpioStates, Executing, hasB, hasR, theB, theR,
      bTaken, rTaken, WriteRsp
<1> QED BY <1>1, <1>2

LEMMA MotorMoves ==
  ASSUME MachineInv, wrapper = "motor", NEW bready \in BOOLEAN, NEW rready \in BOOLEAN,
         Machine!Motor!Clock(bready, rready), wrapper' = wrapper
  PROVE  Moves /\ Replies(bready, rready)
<1>1. state = "IDLE" => araddr = NoBeat \/ (awaddr = NoBeat /\ wdata = NoBeat)
  BY DEF MachineInv, OnlyOne, OneTransaction, Num
<1>2. Moves
  BY <1>1, MotorStep
  DEF Moves, Moved, MachineInv, MachineTypes, MachineHolds, MotorStates, Executing,
      hasAW, hasW, hasAR,
      awFire, wFire, arFire,
      Machine!Motor!aw_fire, Machine!Motor!w_fire, Machine!Motor!ar_fire,
      Machine!Motor!awready, Machine!Motor!wready, Machine!Motor!arready
<1>3. Replies(bready, rready)
  BY MotorStep, MotorTarget
  DEF Replies, Moved, MachineInv, MachineTypes, MotorStates, Executing, hasB, hasR, theB, theR,
      bTaken, rTaken, WriteRsp
<1> QED BY <1>2, <1>3

LEMMA MachineMoves ==
  ASSUME Serial, MachineInv, NEW bready \in BOOLEAN, NEW rready \in BOOLEAN,
         Machine!Clock(bready, rready)
  PROVE  /\ MachineInv'
         /\ Moves /\ Replies(bready, rready)
         /\ Executing = "write" => regs' = WriteReg(regs, aw, w)
         /\ Executing # "write" => regs' = regs
         /\ Master(FALSE, awFire, wFire, arFire, bTaken(bready), rTaken(rready))
<1>1. CASE wrapper = "gpio" /\ Machine!Gpio!Clock(bready, rready) /\ wrapper' = wrapper
  <2>1. MachineInv' /\ Moves /\ Replies(bready, rready)
    BY <1>1, GpioKeeps, GpioMoves
  <2>2. /\ Executing = "write" => regs' = WriteReg(regs, aw, w)
        /\ Executing # "write" => regs' = regs
    BY <1>1, GpioTarget DEF Executing
  <2>3. Master(FALSE, Machine!Gpio!aw_fire, Machine!Gpio!w_fire, Machine!Gpio!ar_fire,
               bTaken(bready), rTaken(rready))
    BY <1>1, MachineMaster
  <2> QED BY <1>1, <2>1, <2>2, <2>3, Zenon DEF awFire, wFire, arFire
<1>2. CASE wrapper = "motor" /\ Machine!Motor!Clock(bready, rready) /\ wrapper' = wrapper
  <2>1. MachineInv' /\ Moves /\ Replies(bready, rready)
    BY <1>2, MotorKeeps, MotorMoves
  <2>2. /\ Executing = "write" => regs' = WriteReg(regs, aw, w)
        /\ Executing # "write" => regs' = regs
    BY <1>2, MotorTarget DEF Executing
  <2>3. Master(Serial, Machine!Motor!aw_fire, Machine!Motor!w_fire,
               Machine!Motor!ar_fire, bTaken(bready), rTaken(rready))
    BY <1>2, MachineMaster
  <2>4. Master(FALSE, Machine!Motor!aw_fire, Machine!Motor!w_fire,
               Machine!Motor!ar_fire, bTaken(bready), rTaken(rready))
    BY <2>3 DEF Master
  <2>5. wrapper # "gpio"
    BY <1>2
  <2> QED BY <1>2, <2>1, <2>2, <2>4, <2>5, Zenon DEF awFire, wFire, arFire
<1> QED BY <1>1, <1>2, Zenon DEF Machine!Clock

LEMMA MachinePromiseInit == Machine!Init => Machine!Promise!Init
<1> SUFFICES ASSUME Machine!Init PROVE Machine!Promise!Init
  OBVIOUS
<1>1. MachineTypes
  BY MachineInit DEF MachineInv
<1>2. /\ state = "IDLE" /\ aw = NoBeat /\ w = NoBeat /\ ar = NoBeat
      /\ regs = ResetRegs /\ MasterInit
  BY DEF Machine!Init, Machine!Gpio!Init, Machine!Motor!Init, Machine!Gpio!MasterInit,
         Machine!Motor!MasterInit, Machine!Gpio!TargetInit, Machine!Motor!TargetInit,
         Machine!Gpio!ResetRegs, Machine!Motor!ResetRegs, ResetRegs, MasterInit
<1>3. ~hasAW /\ ~hasW /\ ~hasAR /\ ~hasB /\ ~hasR
  BY <1>2 DEF hasAW, hasW, hasAR, hasB, hasR
<1>4. awQ = <<>> /\ wQ = <<>> /\ arQ = <<>> /\ bQ = <<>> /\ rQ = <<>>
  BY <1>1, <1>3, Queues DEF AtMost
<1> QED
  BY <1>2, <1>4, Zenon
  DEF Machine!Promise!Init, MasterInit, Machine!Promise!MasterInit, ResetRegs,
      Machine!Promise!ResetRegs, awQ, wQ, arQ, bQ, rQ

(* The head of a queue with an entry. *)
LEMMA TheHead ==
  ASSUME NEW has, NEW x, has
  PROVE  Head(AtMost(has, x)) = x /\ AtMost(has, x) # <<>>
BY Singles DEF AtMost

LEMMA MachineClock ==
  ASSUME Serial, MachineInv, NEW bready \in BOOLEAN, NEW rready \in BOOLEAN,
         Machine!Clock(bready, rready)
  PROVE  Machine!Promise!Clock(awFire, wFire, arFire, bTaken(bready), rTaken(rready))
<1> DEFINE wr == Executing = "write"
           rd == Executing = "read"
<1>1. /\ awQ = AtMost(hasAW, aw) /\ wQ = AtMost(hasW, w) /\ arQ = AtMost(hasAR, ar)
      /\ bQ = AtMost(hasB, theB) /\ rQ = AtMost(hasR, theR)
  BY Queues DEF MachineInv
<1>2. /\ awQ' = AtMost(hasAW', aw') /\ wQ' = AtMost(hasW', w')
      /\ arQ' = AtMost(hasAR', ar')
      /\ bQ' = AtMost(hasB', theB') /\ rQ' = AtMost(hasR', theR')
  <2>1. (MachineTypes => /\ awQ = AtMost(hasAW, aw) /\ wQ = AtMost(hasW, w)
                         /\ arQ = AtMost(hasAR, ar)
                         /\ bQ = AtMost(hasB, theB) /\ rQ = AtMost(hasR, theR))'
    BY Queues, PTL
  <2>2. MachineTypes'
    BY MachineMoves DEF MachineInv
  <2> QED BY <2>1, <2>2 DEF AtMost
<1>3. Moves /\ Replies(bready, rready)
  BY MachineMoves
<1>4. awQ' = Machine!Promise!Shift(awQ, wr, Machine!Promise!Taken(awaddr, awFire))
  BY <1>1, <1>2, <1>3, OneMoves DEF Moves
<1>5. wQ' = Machine!Promise!Shift(wQ, wr, Machine!Promise!Taken(wdata, wFire))
  BY <1>1, <1>2, <1>3, OneMoves DEF Moves
<1>6. arQ' = Machine!Promise!Shift(arQ, rd, Machine!Promise!Taken(araddr, arFire))
  BY <1>1, <1>2, <1>3, OneMoves DEF Moves
<1>7. bQ' = Machine!Promise!Shift(bQ, bTaken(bready),
                                  Machine!Promise!Taken(aw \in BadAddr, wr))
  BY <1>1, <1>2, <1>3, OneMoves DEF Replies
<1>8. rQ' = Machine!Promise!Shift(rQ, rTaken(rready),
                                  Machine!Promise!Taken(ReadRsp(regs, ar), rd))
  BY <1>1, <1>2, <1>3, OneMoves DEF Replies
<1>9. /\ wr => Head(awQ) = aw /\ Head(wQ) = w /\ awQ # <<>> /\ wQ # <<>>
      /\ rd => Head(arQ) = ar /\ arQ # <<>>
      /\ bTaken(bready) => bQ # <<>>
      /\ rTaken(rready) => rQ # <<>>
  BY <1>1, <1>3, TheHead DEF Moves, Replies, Moved
<1>10. Executing \in Machine!Promise!Access
  BY <1>9 DEF Machine!Promise!Access, Executing, awQ, wQ, arQ
<1>11. regs' = IF wr THEN Machine!Promise!WriteReg(regs, Head(awQ), Head(wQ)) ELSE regs
  BY <1>9, MachineMoves DEF WriteReg, Machine!Promise!WriteReg
<1>12. /\ bQ' = Machine!Promise!Shift(bQ, bTaken(bready),
                  IF wr THEN <<Head(awQ) \in BadAddr>> ELSE <<>>)
       /\ rQ' = Machine!Promise!Shift(rQ, rTaken(rready),
                  IF rd THEN <<Machine!Promise!ReadRsp(regs, Head(arQ))>> ELSE <<>>)
  BY <1>7, <1>8, <1>9 DEF Machine!Promise!Taken, ReadRsp, Machine!Promise!ReadRsp
<1>13. Machine!Promise!Master(FALSE, awFire, wFire, arFire, bTaken(bready), rTaken(rready))
  BY MachineMoves
  DEF Master, Machine!Promise!Master, Channel, Machine!Promise!Channel, HoldBeat,
      Machine!Promise!HoldBeat, Beats, Machine!Promise!Beats, Num, Machine!Promise!Num
<1>14. /\ awFire => awaddr # NoBeat
       /\ wFire => wdata # NoBeat
       /\ arFire => araddr # NoBeat
  BY <1>3 DEF Moves
<1>15. \E access \in Machine!Promise!Access :
         /\ regs' = IF access = "write"
                    THEN Machine!Promise!WriteReg(regs, Head(awQ), Head(wQ)) ELSE regs
         /\ awQ' = Machine!Promise!Shift(awQ, access = "write",
                                         Machine!Promise!Taken(awaddr, awFire))
         /\ wQ' = Machine!Promise!Shift(wQ, access = "write",
                                        Machine!Promise!Taken(wdata, wFire))
         /\ arQ' = Machine!Promise!Shift(arQ, access = "read",
                                         Machine!Promise!Taken(araddr, arFire))
         /\ bQ' = Machine!Promise!Shift(bQ, bTaken(bready),
                    IF access = "write" THEN <<Head(awQ) \in BadAddr>> ELSE <<>>)
         /\ rQ' = Machine!Promise!Shift(rQ, rTaken(rready),
                    IF access = "read"
                    THEN <<Machine!Promise!ReadRsp(regs, Head(arQ))>> ELSE <<>>)
  <2> WITNESS Executing \in Machine!Promise!Access
  <2> QED BY <1>4, <1>5, <1>6, <1>11, <1>12, Zenon
<1> QED
  BY <1>9, <1>13, <1>14, <1>15, Zenon DEF Machine!Promise!Clock, awQ, wQ, arQ, bQ, rQ

(* The GPIO wrapper with any master, and the PWM wrapper with one that has *)
(* one transaction at a time, neither lose nor invent an access: each      *)
(* implements the queues of AxiLiteSlave, for every register map.          *)
THEOREM MachinesImplement == Serial /\ Machine!Spec => Machine!ImplementsSlave
<1> SUFFICES ASSUME Serial PROVE Machine!Spec => Machine!Promise!Spec
  BY DEF Machine!ImplementsSlave
<1>1. MachineInv /\ [Machine!Next]_(Machine!vars) =>
        MachineInv' /\ [Machine!Promise!Next]_(Machine!Promise!vars)
  <2>1. ASSUME MachineInv, Machine!Next PROVE MachineInv' /\ Machine!Promise!Next
    <3>1. PICK bready \in BOOLEAN, rready \in BOOLEAN : Machine!Clock(bready, rready)
      BY <2>1 DEF Machine!Next
    <3>2. /\ awFire \in BOOLEAN /\ wFire \in BOOLEAN /\ arFire \in BOOLEAN
          /\ bTaken(bready) \in BOOLEAN /\ rTaken(rready) \in BOOLEAN
      BY DEF awFire, wFire, arFire, bTaken, rTaken, Machine!Gpio!aw_fire,
             Machine!Gpio!w_fire, Machine!Gpio!ar_fire, Machine!Motor!aw_fire,
             Machine!Motor!w_fire, Machine!Motor!ar_fire
    <3>3. Machine!Promise!Clock(awFire, wFire, arFire, bTaken(bready), rTaken(rready))
      BY <2>1, <3>1, MachineClock
    <3>4. MachineInv'
      BY <2>1, <3>1, MachineMoves
    <3> QED
      BY <3>2, <3>3, <3>4, Zenon DEF Machine!Promise!Next
  <2>2. ASSUME MachineInv, UNCHANGED Machine!vars
        PROVE  MachineInv' /\ UNCHANGED Machine!Promise!vars
    <3>1. UNCHANGED <<wrapper, awaddr, wdata, araddr, aw_out, w_out, ar_out,
                      regs, rsp, state, aw, w, ar, bresp_reg, rdata_reg>>
      BY <2>2 DEF Machine!vars, Machine!masterVars, Machine!slaveVars
    <3>2. MachineInv'
      BY <2>2, <3>1
      DEF MachineInv, MachineTypes, MachineHolds, OnlyOne, OneTransaction, Answers
    <3>3. UNCHANGED <<awQ, wQ, arQ, bQ, rQ>>
      <4>1. (MachineTypes => /\ awQ = AtMost(hasAW, aw) /\ wQ = AtMost(hasW, w)
                             /\ arQ = AtMost(hasAR, ar)
                             /\ bQ = AtMost(hasB, theB) /\ rQ = AtMost(hasR, theR))'
        BY Queues, PTL
      <4>2. /\ hasAW' = hasAW /\ hasW' = hasW /\ hasAR' = hasAR
            /\ hasB' = hasB /\ hasR' = hasR /\ theB' = theB /\ theR' = theR
        BY <3>1 DEF hasAW, hasW, hasAR, hasB, hasR, theB, theR
      <4> QED
        BY <2>2, <3>1, <3>2, <4>1, <4>2, Queues DEF MachineInv, AtMost
    <3> QED
      BY <3>1, <3>2, <3>3, Zenon
      DEF Machine!Promise!vars, Machine!Promise!masterVars, awQ, wQ, arQ, bQ, rQ
  <2> QED BY <2>1, <2>2
<1> QED
  BY MachineInit, MachinePromiseInit, <1>1, PTL DEF Machine!Spec, Machine!Promise!Spec
=============================================================================
