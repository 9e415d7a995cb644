------------------------------ MODULE SpiProofs -----------------------------
(***************************************************************************)
(* For every width of a byte, every clock division and every set of bytes, *)
(* whatever software writes in whatever clock: the status bits of          *)
(* spi_regs.sv tell what the core under it is doing, and a frame ends with *)
(* the byte that was launched as final.                                    *)
(*                                                                         *)
(* The status registers and the core's FSM follow the same two events, the *)
(* launch and the received byte, and never look at each other.  What keeps *)
(* them together is the half-bit count and the launched qualifier, which   *)
(* InStep relates to the state of the core.                                *)
(*                                                                         *)
(* Over that, the driver: a blocking transfer exchanges its own byte, if   *)
(* the application lets the byte of a spi_write_byte finish before it      *)
(* calls again.  DriverInv says what each label of the driver can rely on  *)
(* in any clock until its next access.                                     *)
(***************************************************************************)
EXTENDS SpiDriver, TLAPS

LastHalf == 2 * SPI_DW

(* The count stands at its end only behind a complete byte; the core waits *)
(* there, selected, only after a byte that was not final, and leaves it    *)
(* only after one that was.                                                *)
InStep ==
  /\ R_rvalid => R_cnt = LastHalf /\ R_clk = 0 /\ R_state \in {"RXTX", "EXIT"}
  /\ R_state = "RXTX" /\ R_cnt = LastHalf => ~launched_xfer_end
  /\ R_state = "EXIT" => launched_xfer_end /\ (R_rvalid \/ R_cnt = 0)
  /\ R_state \in {"IDLE", "ENTR"} => R_cnt = 0

IInv == TypeOK /\ InStep /\ BusyWhileInFlight /\ OpenWhileSelected

USE SpiAssumption DEF SpiAssumption, LastHalf

LEMMA ByteOfReset == ResetByte \in Byte
  BY DEF ResetByte

(* Whatever it is, a request stores bytes and sets of events.              *)
LEMMA RequestTyped ==
  ASSUME NEW req \in Requests
  PROVE  req.byte \in Byte /\ (req.reg = "IRQ_EN" => req.bits \subseteq Events)
<1> USE ByteOfReset DEF NoEffect
<1>1. CASE req = NoEffect
  BY <1>1
<1>2. CASE \E bits \in SUBSET CtrlBits : req = WriteCtrl(bits)
  BY <1>2 DEF WriteCtrl
<1>3. CASE \E b \in Byte : req = WriteTxData(b)
  BY <1>3 DEF WriteTxData
<1>4. CASE \E events \in SUBSET Events : req = WriteIrqEn(events)
  BY <1>4 DEF WriteIrqEn
<1>5. CASE \E events \in SUBSET Events : req = WriteIrqStatus(events)
  BY <1>5 DEF WriteIrqStatus
<1> QED BY <1>1, <1>2, <1>3, <1>4, <1>5 DEF Requests

LEMMA InitIInv == SpiInit => IInv
<1> SUFFICES ASSUME SpiInit PROVE IInv
  OBVIOUS
<1> USE DEF SpiInit
<1>1. TypeOK
  <2>1. R_clk \in 0 .. CLKDIVIDE - 1 /\ R_cnt \in 0 .. 2 * SPI_DW
    OBVIOUS
  <2> QED BY <2>1, ByteOfReset, Zenon DEF TypeOK
<1>2. InStep
  BY DEF InStep
<1>3. BusyWhileInFlight /\ OpenWhileSelected
  BY DEF BusyWhileInFlight, OpenWhileSelected
<1> QED BY <1>1, <1>2, <1>3 DEF IInv

(* A byte is launched only where none is in flight: at rest, or in a frame *)
(* whose last byte was not final.                                          *)
LEMMA LaunchesFromRest ==
  ASSUME IInv, start_fire
  PROVE  /\ ~R_rvalid /\ ~last_half_bit
         /\ \/ R_state = "IDLE"
            \/ R_state = "RXTX" /\ R_cnt = LastHalf
  BY DEF IInv, TypeOK, InStep, BusyWhileInFlight, start_fire, O_wready, last_half_bit,
         W_clk_en

(* A byte ends only in RXTX, where it was counted.                         *)
LEMMA EndsInFlight ==
  ASSUME IInv, last_half_bit
  PROVE  R_state = "RXTX" /\ O_wready /\ busy
  BY DEF IInv, TypeOK, InStep, BusyWhileInFlight, last_half_bit, O_wready

LEMMA TypeStep ==
  ASSUME IInv, NEW req \in Requests, Effect(req), rsp_valid' \in BOOLEAN
  PROVE  TypeOK'
<1> USE DEF IInv, TypeOK
<1>1. (R_state \in {"IDLE", "ENTR", "RXTX", "EXIT"})'
  BY DEF Effect, Core, Move
<1>2. (R_clk \in 0 .. CLKDIVIDE - 1)'
  BY DEF Effect, Core, W_clk_en
<1>3. (R_cnt \in 0 .. 2 * SPI_DW)'
  BY DEF Effect, Core, HalfBits
<1>4. (R_wdata \in Byte /\ R_rdata \in Byte /\ R_rvalid \in BOOLEAN)'
  BY DEF Effect, Core, last_half_bit
<1>5. (ctrl_enable \in BOOLEAN)'
  <2>1. CASE req.reg = "CTRL" /\ ~xfer_open
    BY <2>1 DEF Effect, Control
  <2>2. CASE ~(req.reg = "CTRL" /\ ~xfer_open)
    BY <2>2 DEF Effect, Control
  <2> QED BY <2>1, <2>2
<1>6. start_xfer_end(req) \in BOOLEAN
  <2>1. CASE req.reg = "CTRL"
    BY <2>1 DEF start_xfer_end
  <2>2. CASE req.reg # "CTRL"
    BY <2>2 DEF start_xfer_end
  <2> QED BY <2>1, <2>2
<1>7. (ctrl_xfer_end \in BOOLEAN)' /\ (txdata_reg \in Byte)'
  <2>1. (ctrl_xfer_end \in BOOLEAN)'
    BY <1>6 DEF Effect, Control
  <2>2. CASE req.reg = "TXDATA"
    BY <2>1, <2>2, RequestTyped DEF Effect, Control
  <2>3. CASE req.reg # "TXDATA"
    BY <2>1, <2>3 DEF Effect, Control
  <2> QED BY <2>2, <2>3
<1>8. (start_pending \in BOOLEAN)'
  BY DEF Effect, StartLatch
<1>9. (xfer_open \in BOOLEAN)'
  <2>1. CASE rx_fire
    BY <2>1 DEF Effect, Status, OpenLatch
  <2>2. CASE ~rx_fire
    BY <2>2 DEF Effect, Status, OpenLatch
  <2> QED BY <2>1, <2>2
<1>10. (busy \in BOOLEAN /\ done \in BOOLEAN /\ rx_valid \in BOOLEAN)'
  BY DEF Effect, Status
<1>11. (launched_xfer_end \in BOOLEAN /\ rxdata_reg \in Byte)'
  BY <1>6 DEF Effect, Status
<1>12. (irq_en \subseteq Events /\ irq_pending \subseteq Events)'
  BY RequestTyped DEF Effect, Interrupts, Events
<1> QED BY <1>1, <1>2, <1>3, <1>4, <1>5, <1>7, <1>8, <1>9, <1>10, <1>11, <1>12

LEMMA StatusStep ==
  ASSUME IInv, NEW req \in Requests, Effect(req)
  PROVE  (InStep /\ BusyWhileInFlight /\ OpenWhileSelected)'
<1>1. /\ busy' <=> ~R_rvalid /\ (busy \/ start_fire)
      /\ R_rvalid' <=> last_half_bit
  BY DEF Effect, Status, Core, rx_fire
<1>2. /\ R_rvalid => (xfer_open' <=> ~launched_xfer_end)
      /\ ~R_rvalid => (xfer_open' <=> xfer_open \/ start_fire)
  BY DEF Effect, Status, OpenLatch, rx_fire
<1>3. ~start_fire => /\ launched_xfer_end' <=> launched_xfer_end
                     /\ core_transfer_end(req) <=> launched_xfer_end
  BY DEF Effect, Status, core_transfer_end
<1>4. Core(start_fire, core_transfer_end(req))
  BY DEF Effect
<1> USE DEF IInv, TypeOK, InStep, BusyWhileInFlight, OpenWhileSelected, Core, HalfBits,
            Move
<1>5. CASE start_fire
  BY <1>1, <1>2, <1>4, <1>5, LaunchesFromRest DEF start_fire
<1>6. CASE last_half_bit
  BY <1>1, <1>2, <1>3, <1>4, <1>6, EndsInFlight, LaunchesFromRest
  DEF last_half_bit, W_clk_en
<1>7. CASE ~start_fire /\ ~last_half_bit
  <2>1. CASE R_state \in {"IDLE", "ENTR"}
    BY <1>1, <1>2, <1>3, <1>4, <1>7, <2>1 DEF last_half_bit, W_clk_en, O_wready
  <2>2. CASE R_state = "RXTX"
    BY <1>1, <1>2, <1>3, <1>4, <1>7, <2>2 DEF last_half_bit, W_clk_en, O_wready
  <2>3. CASE R_state = "EXIT"
    BY <1>1, <1>2, <1>3, <1>4, <1>7, <2>3 DEF last_half_bit, W_clk_en, O_wready
  <2> QED BY <2>1, <2>2, <2>3
<1> QED BY <1>5, <1>6, <1>7

LEMMA NextIInv == IInv /\ [Next]_spiVars => IInv'
<1> SUFFICES ASSUME IInv, [Next]_spiVars PROVE IInv'
  OBVIOUS
<1>1. ASSUME NEW req \in Requests, Accept(req) PROVE IInv'
  BY <1>1, TypeStep, StatusStep DEF Accept, IInv
<1>2. ASSUME NEW rsp_ready \in BOOLEAN, NoRequest(rsp_ready) PROVE IInv'
  <2>1. NoEffect \in Requests
    BY DEF Requests
  <2>2. rsp_valid' \in BOOLEAN
    BY <1>2 DEF NoRequest
  <2> QED BY <1>2, <2>1, <2>2, TypeStep, StatusStep DEF NoRequest, IInv
<1>3. CASE UNCHANGED spiVars
  BY <1>3 DEF IInv, TypeOK, InStep, BusyWhileInFlight, OpenWhileSelected, spiVars,
              coreVars, regVars
<1> QED BY <1>1, <1>2, <1>3 DEF Next

THEOREM Inductive == Spec => []IInv
  BY InitIInv, NextIInv, PTL DEF Spec

(* Every register keeps its type.                                          *)
THEOREM Types == Spec => []TypeOK
<1>1. IInv => TypeOK
  BY DEF IInv
<1> QED BY <1>1, Inductive, PTL

(* BUSY (spi_regs.sv:81-83) is exactly as long as a byte is in flight.     *)
THEOREM Busy == Spec => []BusyWhileInFlight
<1>1. IInv => BusyWhileInFlight
  BY DEF IInv
<1> QED BY <1>1, Inductive, PTL

(* XFER_OPEN (spi_regs.sv:84-87) is exactly as long as the device is       *)
(* selected for the bytes of a transaction.                                *)
THEOREM Open == Spec => []OpenWhileSelected
<1>1. IInv => OpenWhileSelected
  BY DEF IInv
<1> QED BY <1>1, Inductive, PTL

(* The device is released only after the byte launched as final is         *)
(* complete, when a half bit is longer than the clock: with one clock to a *)
(* half bit the core leaves EXIT while the byte is still being stored.     *)
THEOREM FrameEnds == CLKDIVIDE > 1 => (Spec => FrameEndsWithFinalByte)
<1> SUFFICES ASSUME CLKDIVIDE > 1 PROVE Spec => FrameEndsWithFinalByte
  OBVIOUS
<1>1. ASSUME IInv, [Next]_spiVars
      PROVE  [~O_csn /\ O_csn' => launched_xfer_end /\ ~xfer_open /\ ~busy]_spiVars
  <2> SUFFICES ASSUME Next, ~O_csn, O_csn'
               PROVE  launched_xfer_end /\ ~xfer_open /\ ~busy
    BY <1>1
  <2>1. PICK req : Core(start_fire, core_transfer_end(req))
    BY DEF Next, Accept, NoRequest, Effect
  <2>2. R_state = "EXIT" /\ W_clk_en
    BY <2>1 DEF Core, Move, O_csn
  <2> QED BY <1>1, <2>2 DEF IInv, TypeOK, InStep, BusyWhileInFlight, OpenWhileSelected,
                           W_clk_en
<1> QED BY <1>1, Inductive, PTL DEF Spec, FrameEndsWithFinalByte

----------------------------------------------------------------------------
(* The driver, in the clocks between whose accesses anything can happen.   *)

(* A START that has been written is pending or its byte is in flight.      *)
Owes ==
  /\ owed = IF start_pending \/ busy THEN 1 ELSE 0
  /\ ~(start_pending /\ busy)

(* Once set, ENABLE is written back with every CTRL access.                *)
Enabled ==
  /\ pc = "init" => ~xfer_open
  /\ pc # "init" => ctrl_enable
  /\ pc \in {"init_clear", "clear_write"} => "ENABLE" \in ctrl_seen

(* Where no byte is under way.                                             *)
Free ==
  /\ pc \notin {"idle", "wait_not_busy", "wait_rx_valid"} => owed = 0
  /\ pc = "idle" /\ arg.waits => owed = 0
  /\ "write" \notin Calls => arg.waits
  /\ pc \in {"wait_not_busy", "wait_rx_valid", "rx"} => arg.waits

(* What a call has prepared when it writes START: RX_VALID can only come   *)
(* from the byte of this call.                                             *)
Prepared ==
  /\ pc \in {"clear_read", "clear_write", "wait_free", "tx", "start"} => wire = <<>>
  /\ pc \in {"wait_free", "tx", "start"} /\ arg.waits => ~rx_valid
  /\ pc = "start" => txdata_reg = arg.byte

Complete ==
  /\ wire = <<[tx |-> arg.byte, rx |-> rxdata_reg, final |-> arg.final]>>
  /\ ~arg.final => xfer_open

(* The byte of a blocking transfer on its way: waiting to be launched, in  *)
(* the core, complete.                                                     *)
Exchanging ==
  pc \in {"wait_not_busy", "wait_rx_valid"} =>
    /\ owed = 1 => wire = <<>> /\ ~rx_valid
    /\ start_pending => txdata_reg = arg.byte /\ ctrl_xfer_end = arg.final
    /\ busy => R_wdata = arg.byte /\ launched_xfer_end = arg.final
    /\ owed = 0 => Complete

Returned ==
  /\ pc = "rx" => Complete
  /\ result # NoResult =>
       pc = "idle" /\ arg.waits /\ Complete /\ result = rxdata_reg

CallTypes ==
  /\ arg \in [byte : Byte, final : BOOLEAN, waits : BOOLEAN]
  /\ ctrl_seen \subseteq {"ENABLE", "XFER_END"}

DriverTypes == CallTypes /\ wire \in Seq(Exchange)

USE DEF CallTypes

DriverInv ==
  DriverTypes /\ Owes /\ Enabled /\ Free /\ Prepared /\ Exchanging /\ Returned

Shown == [tx |-> R_wdata, rx |-> R_rdata, final |-> launched_xfer_end]

LEMMA InitDriverInv == DriverInit => IInv /\ DriverInv
<1> SUFFICES ASSUME DriverInit PROVE IInv /\ DriverInv
  OBVIOUS
<1>1. IInv
  BY InitIInv DEF DriverInit
<1>2. DriverTypes
  BY ByteOfReset DEF DriverInit, DriverTypes
<1>3. Owes
  BY DEF DriverInit, SpiInit, Owes
<1> QED
  BY <1>1, <1>2, <1>3
     DEF DriverInv, DriverInit, SpiInit, Enabled, Free, Prepared, Exchanging, Returned

(* What a clock makes of the byte under way, whatever the request.         *)
LEMMA ByteClock ==
  ASSUME IInv, DriverInv, NEW req \in Requests, Effect(req)
  PROVE  /\ rx_fire => busy /\ ~start_fire /\ ~start_pending
         /\ start_fire => start_pending /\ ~busy
         /\ busy' <=> ~rx_fire /\ (busy \/ start_fire)
         /\ start_pending' <=>
              /\ ~start_fire
              /\ \/ start_pending
                 \/ Writes(req, "CTRL", "START") /\ ctrl_enable /\ ~busy
         /\ R_wdata' = IF start_fire THEN txdata_reg ELSE R_wdata
         /\ launched_xfer_end' =
              IF start_fire THEN start_xfer_end(req) ELSE launched_xfer_end
         /\ rxdata_reg' = IF rx_fire THEN R_rdata ELSE rxdata_reg
         /\ rx_valid' => rx_valid \/ rx_fire
         /\ Writes(req, "CTRL", "CLR_RX_VALID") => ~rx_valid'
         /\ ~rx_fire /\ ~rx_valid => ~rx_valid'
         /\ txdata_reg' = IF req.reg = "TXDATA" THEN req.byte ELSE txdata_reg
         /\ ctrl_xfer_end' = start_xfer_end(req)
         /\ rx_fire => (xfer_open' <=> ~launched_xfer_end)
         /\ ~rx_fire => (xfer_open' <=> xfer_open \/ start_fire)
         /\ (ctrl_enable \/ (req.reg = "CTRL" /\ ~xfer_open))
              /\ (req.reg = "CTRL" => "ENABLE" \in req.bits) => ctrl_enable'
<1>1. rx_fire => busy
  BY DEF IInv, BusyWhileInFlight, rx_fire
<1>2. start_fire => start_pending /\ ~busy
  BY DEF start_fire
<1>3. ~(start_pending /\ busy)
  BY DEF DriverInv, Owes
<1>4. /\ busy' <=> ~rx_fire /\ (busy \/ start_fire)
      /\ start_pending' <=>
           /\ ~start_fire
           /\ \/ start_pending
              \/ Writes(req, "CTRL", "START") /\ ctrl_enable /\ ~busy
  BY DEF Effect, Status, StartLatch
<1>5. R_wdata' = IF start_fire THEN txdata_reg ELSE R_wdata
  BY DEF Effect, Core, start_fire
<1>6. /\ launched_xfer_end' =
              IF start_fire THEN start_xfer_end(req) ELSE launched_xfer_end
      /\ rxdata_reg' = IF rx_fire THEN R_rdata ELSE rxdata_reg
      /\ txdata_reg' = IF req.reg = "TXDATA" THEN req.byte ELSE txdata_reg
      /\ ctrl_xfer_end' = start_xfer_end(req)
  BY DEF Effect, Status, Control
<1>7. /\ rx_valid' => rx_valid \/ rx_fire
      /\ Writes(req, "CTRL", "CLR_RX_VALID") => ~rx_valid'
      /\ ~rx_fire /\ ~rx_valid => ~rx_valid'
  BY DEF Effect, Status
<1>8. /\ rx_fire => (xfer_open' <=> ~launched_xfer_end)
      /\ ~rx_fire => (xfer_open' <=> xfer_open \/ start_fire)
  BY DEF Effect, Status, OpenLatch
<1>9. (ctrl_enable \/ (req.reg = "CTRL" /\ ~xfer_open))
        /\ (req.reg = "CTRL" => "ENABLE" \in req.bits) => ctrl_enable'
  BY DEF Effect, Control
<1> QED
  BY <1>1, <1>2, <1>3, <1>4, <1>5, <1>6, <1>7, <1>8, <1>9

(* The byte that ends in this clock is added to what the wire had shown.   *)
LEMMA WireClock ==
  ASSUME IInv, NEW before \in Seq(Exchange),
         wire' = before \o (IF rx_fire THEN <<Shown>> ELSE <<>>)
  PROVE  /\ wire' \in Seq(Exchange)
         /\ ~rx_fire => wire' = before
         /\ rx_fire /\ before = <<>> => wire' = <<Shown>>
<1>1. Shown \in Exchange
  BY DEF Shown, Exchange, IInv, TypeOK
<1>2. CASE rx_fire
  <2>1. wire' = before \o <<Shown>>
    BY <1>2
  <2>2. <<Shown>> \in Seq(Exchange)
    BY <1>1
  <2>3. before \o <<Shown>> \in Seq(Exchange)
    BY <2>2
  <2>4. <<>> \o <<Shown>> = <<Shown>>
    BY <2>2
  <2> QED BY <1>2, <2>1, <2>3, <2>4
<1>3. CASE ~rx_fire
  <2>1. before \o <<>> = before
    OBVIOUS
  <2> QED BY <1>3, <2>1
<1> QED
  BY <1>2, <1>3

(* A clock that neither starts nor ends a byte and has none to launch.     *)
LEMMA IdleClock ==
  ASSUME IInv, DriverInv, NEW req \in Requests, Effect(req), owed = 0
  PROVE  /\ ~rx_fire /\ ~start_fire /\ ~busy'
         /\ start_pending' <=> Writes(req, "CTRL", "START") /\ ctrl_enable
         /\ rxdata_reg' = rxdata_reg
         /\ xfer_open' <=> xfer_open
<1>1. ~start_pending /\ ~busy
  BY DEF DriverInv, Owes
<1> QED
  BY <1>1, ByteClock

(* A byte that is waiting or in flight stays so, or is complete.           *)
LEMMA BusyClock ==
  ASSUME IInv, DriverInv, NEW req \in Requests, Effect(req), owed = 1,
         ~Writes(req, "CTRL", "START")
  PROVE  /\ ~(start_pending' /\ busy')
         /\ rx_fire <=> ~(start_pending' \/ busy')
<1>1. (start_pending \/ busy) /\ ~(start_pending /\ busy)
  BY DEF DriverInv, Owes
<1> QED
  BY <1>1, ByteClock

(* Every access counts its START and its byte, and keeps ENABLE.           *)
LEMMA AccessCounts ==
  ASSUME IInv, DriverInv, NEW req \in Requests, Effect(req),
         NEW started \in BOOLEAN, started <=> Writes(req, "CTRL", "START"),
         started => owed = 0 /\ ctrl_enable,
         owed' = owed + (IF started THEN 1 ELSE 0) - (IF rx_fire THEN 1 ELSE 0)
  PROVE  Owes' /\ owed' \in {0, 1}
<1>1. CASE owed = 0
  <2>1. ~rx_fire /\ ~busy' /\ (start_pending' <=> started)
    BY <1>1, IdleClock
  <2> QED
    BY <1>1, <2>1 DEF Owes
<1>2. CASE owed = 1
  <2>1. ~started
    BY <1>2
  <2>2. /\ ~(start_pending' /\ busy')
        /\ rx_fire <=> ~(start_pending' \/ busy')
    BY <1>2, <2>1, BusyClock
  <2> QED
    BY <1>2, <2>1, <2>2 DEF Owes
<1>3. owed = 0 \/ owed = 1
  BY DEF DriverInv, Owes
<1> QED
  BY <1>1, <1>2, <1>3

LEMMA AccessStep ==
  ASSUME IInv, DriverInv, NEW req \in Requests, NEW next, NEW before \in Seq(Exchange),
         NEW started \in BOOLEAN, started <=> Writes(req, "CTRL", "START"),
         started => owed = 0 /\ ctrl_enable,
         Access(req, next, before, started)
  PROVE  /\ Effect(req) /\ IInv' /\ Owes' /\ owed' \in {0, 1}
         /\ pc' = next
         /\ wire' \in Seq(Exchange)
         /\ ~rx_fire => wire' = before
         /\ rx_fire /\ before = <<>> => wire' = <<Shown>>
<1>1. Effect(req) /\ pc' = next
  BY DEF Access, Accept
<1>2. IInv'
  BY NextIInv DEF Access, Next
<1>3. Owes' /\ owed' \in {0, 1}
  BY <1>1, AccessCounts DEF Access
<1>4. wire' = before \o (IF rx_fire THEN <<Shown>> ELSE <<>>)
  BY DEF Access, Shown
<1> QED
  BY <1>1, <1>2, <1>3, <1>4, WireClock

(* The requests the driver makes.                                          *)
LEMMA CtrlRequest ==
  ASSUME NEW bits \in SUBSET CtrlBits
  PROVE  /\ WriteCtrl(bits) \in Requests
         /\ WriteCtrl(bits).reg = "CTRL" /\ WriteCtrl(bits).bits = bits
BY DEF Requests, NoEffect, WriteCtrl

LEMMA OtherRequests ==
  /\ NoEffect \in Requests /\ NoEffect.reg = "none" /\ NoEffect.bits = {}
  /\ \A b \in Byte :
       /\ WriteTxData(b) \in Requests
       /\ WriteTxData(b).reg = "TXDATA" /\ WriteTxData(b).byte = b
       /\ WriteTxData(b).bits = {}
  /\ /\ WriteIrqEn({}) \in Requests
     /\ WriteIrqEn({}).reg = "IRQ_EN" /\ WriteIrqEn({}).bits = {}
  /\ /\ WriteIrqStatus(Events) \in Requests
     /\ WriteIrqStatus(Events).reg = "IRQ_STATUS"
     /\ WriteIrqStatus(Events).bits = Events
BY DEF Requests, NoEffect, WriteTxData, WriteIrqEn, WriteIrqStatus

LEMMA PlainAccess ==
  ASSUME NEW at, NEW req, NEW next, Do(at, req, next), "START" \notin req.bits
  PROVE  /\ pc = at /\ Access(req, next, wire, FALSE)
         /\ arg' = arg /\ ctrl_seen' = ctrl_seen /\ result' = result
BY DEF Do, Access

(* An access between calls, or within one while no byte is under way and   *)
(* none is started: nothing of the bytes changes.                          *)
LEMMA CalmStep ==
  ASSUME IInv, DriverInv, NEW req \in Requests, NEW next, NEW before \in Seq(Exchange),
         ~Writes(req, "CTRL", "START"), owed = 0,
         Access(req, next, before, FALSE)
  PROVE  /\ Effect(req) /\ IInv' /\ Owes' /\ owed' = 0
         /\ pc' = next /\ wire' = before
         /\ rxdata_reg' = rxdata_reg /\ (xfer_open' <=> xfer_open)
         /\ ~start_pending' /\ ~busy'
<1>1. /\ Effect(req) /\ IInv' /\ Owes' /\ owed' \in {0, 1} /\ pc' = next
      /\ wire' \in Seq(Exchange) /\ (~rx_fire => wire' = before)
  BY AccessStep
<1>2. /\ ~rx_fire /\ ~start_fire /\ ~busy' /\ ~start_pending'
      /\ rxdata_reg' = rxdata_reg /\ (xfer_open' <=> xfer_open)
  BY <1>1, IdleClock
<1>3. owed' = 0
  BY <1>1, <1>2 DEF Owes
<1> QED
  BY <1>1, <1>2, <1>3

(* The steps of the functions.                                             *)

LEMMA Initialising ==
  ASSUME IInv, DriverInv, NEW req \in Requests,
         pc \in {"init", "init_read", "init_clear", "init_irq_en", "init_irq_status"},
         NEW next \in {"init_read", "init_clear", "init_irq_en", "init_irq_status", "idle"},
         Access(req, next, wire, FALSE), "START" \notin req.bits,
         arg' = arg, result' = result, ctrl_seen' \subseteq {"ENABLE", "XFER_END"},
         pc = "init" => req.reg = "CTRL",
         req.reg = "CTRL" => "ENABLE" \in req.bits,
         next = "init_clear" => (pc # "init" /\ (ctrl_enable => "ENABLE" \in ctrl_seen'))
  PROVE  DriverInv'
<1>1. owed = 0 /\ result = NoResult
  BY DEF DriverInv, Free, Returned
<1>2. wire \in Seq(Exchange)
  BY DEF DriverInv, DriverTypes
<1>3. /\ Effect(req) /\ Owes' /\ owed' = 0
      /\ pc' = next /\ wire' = wire /\ ~start_pending' /\ ~busy'
  BY <1>1, <1>2, CalmStep DEF Writes
<1>4. ctrl_enable'
  BY <1>3, ByteClock DEF DriverInv, Enabled
<1>5. DriverTypes' /\ Enabled' /\ Free'
  BY <1>3, <1>4 DEF DriverInv, DriverTypes, Enabled, Free
<1>6. Prepared' /\ Exchanging' /\ Returned'
  BY <1>1, <1>3 DEF Prepared, Exchanging, Returned
<1> QED BY <1>3, <1>5, <1>6 DEF DriverInv

LEMMA InitialiseStep ==
  ASSUME IInv, DriverInv, Initialise
  PROVE  DriverInv'
<1> USE DEF CtrlBits
<1>1. CASE Do("init", WriteCtrl({"ENABLE", "XFER_END"}), "init_read")
  <2> DEFINE req == WriteCtrl({"ENABLE", "XFER_END"})
  <2>1. req \in Requests /\ req.reg = "CTRL" /\ req.bits = {"ENABLE", "XFER_END"}
    BY CtrlRequest
  <2> HIDE DEF req
  <2>2. /\ pc = "init" /\ Access(req, "init_read", wire, FALSE)
        /\ arg' = arg /\ ctrl_seen' = ctrl_seen /\ result' = result
    BY <1>1, <2>1, PlainAccess DEF req
  <2>3. ctrl_seen \subseteq {"ENABLE", "XFER_END"}
    BY DEF DriverInv, DriverTypes
  <2> QED BY <2>1, <2>2, <2>3, Initialising
<1>2. CASE ReadCtrl("init_read", "init_clear")
  <2>1. ctrl_seen' \subseteq {"ENABLE", "XFER_END"}
        /\ (ctrl_enable => "ENABLE" \in ctrl_seen')
    BY <1>2 DEF ReadCtrl, CtrlRead
  <2> QED BY <1>2, <2>1, OtherRequests, Initialising DEF ReadCtrl
<1>3. CASE Do("init_clear", ClearFlags, "init_irq_en")
  <2>1. /\ ctrl_seen \subseteq {"ENABLE", "XFER_END"}
        /\ pc = "init_clear" => "ENABLE" \in ctrl_seen
    BY DEF DriverInv, DriverTypes, Enabled
  <2>2. /\ ClearFlags \in Requests /\ ClearFlags.reg = "CTRL"
        /\ ClearFlags.bits = ctrl_seen \cup {"CLR_DONE", "CLR_RX_VALID"}
    BY <2>1, CtrlRequest DEF ClearFlags
  <2>3. "START" \notin ClearFlags.bits
    BY <2>1, <2>2
  <2>4. /\ pc = "init_clear" /\ Access(ClearFlags, "init_irq_en", wire, FALSE)
        /\ arg' = arg /\ ctrl_seen' = ctrl_seen /\ result' = result
    BY <1>3, <2>3, PlainAccess
  <2> QED BY <2>1, <2>2, <2>3, <2>4, Initialising
<1>4. CASE Do("init_irq_en", WriteIrqEn({}), "init_irq_status")
  <2>1. /\ pc = "init_irq_en" /\ Access(WriteIrqEn({}), "init_irq_status", wire, FALSE)
        /\ arg' = arg /\ ctrl_seen' = ctrl_seen /\ result' = result
    BY <1>4, OtherRequests, PlainAccess
  <2>2. ctrl_seen \subseteq {"ENABLE", "XFER_END"}
    BY DEF DriverInv, DriverTypes
  <2> QED BY <2>1, <2>2, OtherRequests, Initialising
<1>5. CASE Do("init_irq_status", WriteIrqStatus(Events), "idle")
  <2>1. "START" \notin Events
    BY DEF Events
  <2>2. /\ pc = "init_irq_status" /\ Access(WriteIrqStatus(Events), "idle", wire, FALSE)
        /\ arg' = arg /\ ctrl_seen' = ctrl_seen /\ result' = result
    BY <1>5, <2>1, OtherRequests, PlainAccess
  <2>3. ctrl_seen \subseteq {"ENABLE", "XFER_END"}
    BY DEF DriverInv, DriverTypes
  <2> QED BY <2>1, <2>2, <2>3, OtherRequests, Initialising
<1> QED BY <1>1, <1>2, <1>3, <1>4, <1>5 DEF Initialise

(* The accesses from the clearing of the flags to the byte in TXDATA.      *)
LEMMA Preparing ==
  ASSUME IInv, DriverInv, NEW req \in Requests,
         pc \in {"clear_read", "clear_write", "wait_free", "tx"},
         NEW next \in {"clear_write", "wait_free", "tx", "start"},
         Access(req, next, wire, FALSE), "START" \notin req.bits,
         arg' = arg, result' = result, ctrl_seen' \subseteq {"ENABLE", "XFER_END"},
         req.reg = "CTRL" => "ENABLE" \in req.bits,
         next = "clear_write" => (ctrl_enable => "ENABLE" \in ctrl_seen'),
         next \in {"wait_free", "tx", "start"} =>
           pc \in {"wait_free", "tx"} \/ Writes(req, "CTRL", "CLR_RX_VALID"),
         next = "start" => req.reg = "TXDATA" /\ req.byte = arg.byte
  PROVE  DriverInv'
<1>1. owed = 0 /\ result = NoResult /\ wire = <<>>
  BY DEF DriverInv, Free, Returned, Prepared
<1>2. wire \in Seq(Exchange)
  BY DEF DriverInv, DriverTypes
<1>3. /\ Effect(req) /\ Owes' /\ owed' = 0
      /\ pc' = next /\ wire' = wire /\ ~start_pending' /\ ~busy'
  BY <1>1, <1>2, CalmStep DEF Writes
<1>4. ~rx_fire
  BY <1>1, <1>3, IdleClock
<1>5. /\ ctrl_enable' /\ (next = "start" => txdata_reg' = arg.byte)
      /\ ~rx_valid => ~rx_valid'
      /\ Writes(req, "CTRL", "CLR_RX_VALID") => ~rx_valid'
  BY <1>3, <1>4, ByteClock DEF DriverInv, Enabled
<1>6. DriverTypes' /\ Enabled' /\ Free'
  BY <1>3, <1>5 DEF DriverInv, DriverTypes, Enabled, Free
<1>7. next \in {"wait_free", "tx", "start"} /\ arg.waits => ~rx_valid'
  BY <1>5 DEF DriverInv, Prepared
<1>8. Prepared' /\ Exchanging' /\ Returned'
  BY <1>1, <1>3, <1>5, <1>7 DEF Prepared, Exchanging, Returned
<1> QED BY <1>3, <1>6, <1>8 DEF DriverInv

LEMMA PrepareStep ==
  ASSUME IInv, DriverInv,
         \/ ClearStatusFlags
         \/ Poll("wait_free", ~busy, "tx")
         \/ Do("tx", WriteTxData(arg.byte), "start")
  PROVE  DriverInv'
<1>1. ctrl_seen \subseteq {"ENABLE", "XFER_END"} /\ arg.byte \in Byte
  BY DEF DriverInv, DriverTypes
<1>2. CASE ReadCtrl("clear_read", "clear_write")
  <2>1. ctrl_seen' \subseteq {"ENABLE", "XFER_END"}
        /\ (ctrl_enable => "ENABLE" \in ctrl_seen')
    BY <1>2 DEF ReadCtrl, CtrlRead
  <2> QED BY <1>2, <2>1, OtherRequests, Preparing DEF ReadCtrl
<1>3. CASE Do("clear_write", ClearFlags, "wait_free")
  <2>1. pc = "clear_write" => "ENABLE" \in ctrl_seen
    BY DEF DriverInv, Enabled
  <2>2. /\ ClearFlags \in Requests /\ ClearFlags.reg = "CTRL"
        /\ ClearFlags.bits = ctrl_seen \cup {"CLR_DONE", "CLR_RX_VALID"}
    BY <1>1, CtrlRequest DEF ClearFlags, CtrlBits
  <2>3. "START" \notin ClearFlags.bits /\ Writes(ClearFlags, "CTRL", "CLR_RX_VALID")
    BY <1>1, <2>2 DEF Writes
  <2>4. /\ pc = "clear_write" /\ Access(ClearFlags, "wait_free", wire, FALSE)
        /\ arg' = arg /\ ctrl_seen' = ctrl_seen /\ result' = result
    BY <1>3, <2>3, PlainAccess
  <2> QED BY <1>1, <2>1, <2>2, <2>3, <2>4, Preparing
<1>4. CASE Poll("wait_free", ~busy, "tx")
  <2> DEFINE next == IF ~busy THEN "tx" ELSE "wait_free"
  <2>1. next \in {"wait_free", "tx"}
    OBVIOUS
  <2>2. /\ pc = "wait_free" /\ Access(NoEffect, next, wire, FALSE)
        /\ arg' = arg /\ ctrl_seen' = ctrl_seen /\ result' = result
    BY <1>4, OtherRequests, PlainAccess DEF Poll
  <2> HIDE DEF next
  <2>3. /\ NoEffect \in Requests /\ "START" \notin NoEffect.bits
        /\ NoEffect.reg # "CTRL"
    BY OtherRequests
  <2>4. next # "clear_write" /\ next # "start"
    BY <2>1
  <2> QED BY <1>1, <2>1, <2>2, <2>3, <2>4, Preparing
<1>5. CASE Do("tx", WriteTxData(arg.byte), "start")
  <2>1. /\ WriteTxData(arg.byte) \in Requests /\ WriteTxData(arg.byte).bits = {}
        /\ WriteTxData(arg.byte).reg = "TXDATA"
        /\ WriteTxData(arg.byte).byte = arg.byte
    BY <1>1, OtherRequests
  <2>2. /\ pc = "tx" /\ Access(WriteTxData(arg.byte), "start", wire, FALSE)
        /\ arg' = arg /\ ctrl_seen' = ctrl_seen /\ result' = result
    BY <1>5, <2>1, PlainAccess
  <2> QED BY <1>1, <2>1, <2>2, Preparing
<1> QED BY <1>2, <1>3, <1>4, <1>5 DEF ClearStatusFlags

(* The START finds the block enabled and at rest, so it is not dropped.    *)
LEMMA StartByteStep ==
  ASSUME IInv, DriverInv, StartByte
  PROVE  DriverInv'
<1> DEFINE bits == {"ENABLE", "START"} \cup Qualifier(arg.final)
           req == WriteCtrl(bits)
           next == IF arg.waits THEN "wait_not_busy" ELSE "idle"
<1>1. /\ arg.final \in BOOLEAN /\ arg.waits \in BOOLEAN /\ wire \in Seq(Exchange)
      /\ ctrl_seen \subseteq {"ENABLE", "XFER_END"}
  BY DEF DriverInv, DriverTypes
<1>2. bits \subseteq CtrlBits /\ ("XFER_END" \in bits <=> arg.final)
  BY <1>1 DEF Qualifier, CtrlBits
<1>3. req \in Requests /\ req.reg = "CTRL" /\ req.bits = bits
  BY <1>2, CtrlRequest
<1> HIDE DEF req
<1>4. /\ Writes(req, "CTRL", "START") /\ "ENABLE" \in req.bits
      /\ start_xfer_end(req) = arg.final
  BY <1>1, <1>2, <1>3 DEF Writes, start_xfer_end
<1>5. pc = "start" /\ arg' = arg /\ ctrl_seen' = ctrl_seen /\ result' = result
  BY DEF StartByte, Do
<1>6. Access(req, next, wire, TRUE)
  BY <1>4 DEF StartByte, Do, Access, Writes, req
<1>7. next \in {"wait_not_busy", "idle"} /\ (next = "wait_not_busy" <=> arg.waits)
  BY <1>1
<1> HIDE DEF next
<1>8. /\ owed = 0 /\ result = NoResult /\ wire = <<>> /\ ctrl_enable
      /\ txdata_reg = arg.byte /\ (arg.waits => ~rx_valid)
  BY <1>5 DEF DriverInv, Free, Returned, Prepared, Enabled
<1>9. /\ Effect(req) /\ Owes' /\ owed' \in {0, 1} /\ pc' = next
      /\ wire' \in Seq(Exchange) /\ (~rx_fire => wire' = wire)
  BY <1>1, <1>3, <1>4, <1>6, <1>8, AccessStep
<1>10. ~rx_fire /\ ~busy' /\ start_pending'
  BY <1>3, <1>4, <1>8, <1>9, IdleClock
<1>11. owed' = 1 /\ wire' = <<>>
  BY <1>8, <1>9, <1>10 DEF Owes
<1>12. /\ ctrl_enable' /\ (~rx_valid => ~rx_valid') /\ txdata_reg' = arg.byte
       /\ ctrl_xfer_end' = arg.final
  BY <1>3, <1>4, <1>8, <1>9, <1>10, ByteClock
<1>13. DriverTypes' /\ Enabled' /\ Free'
  BY <1>5, <1>7, <1>9, <1>12 DEF DriverInv, DriverTypes, Enabled, Free
<1>14. Prepared' /\ Exchanging' /\ Returned'
  BY <1>5, <1>7, <1>8, <1>9, <1>10, <1>11, <1>12 DEF Prepared, Exchanging, Returned
<1> QED BY <1>9, <1>13, <1>14 DEF DriverInv

(* A clock while a blocking transfer polls: its byte is launched, goes on, *)
(* or is complete and stays so.                                            *)
LEMMA ExchangeClock ==
  ASSUME IInv, DriverInv, pc \in {"wait_not_busy", "wait_rx_valid"},
         Effect(NoEffect), arg' = arg, Owes',
         ~rx_fire => wire' = wire,
         rx_fire /\ wire = <<>> => wire' = <<Shown>>
  PROVE  /\ owed = 0 => owed' = 0
         /\ owed' = 1 => wire' = <<>> /\ ~rx_valid'
         /\ start_pending' => txdata_reg' = arg.byte /\ ctrl_xfer_end' = arg.final
         /\ busy' => R_wdata' = arg.byte /\ launched_xfer_end' = arg.final
         /\ owed' = 0 => Complete'
<1>1. /\ NoEffect \in Requests /\ ~Writes(NoEffect, "CTRL", "START")
      /\ NoEffect.reg # "TXDATA"
      /\ start_xfer_end(NoEffect) = ctrl_xfer_end
  BY OtherRequests DEF Writes, start_xfer_end
<1>2. /\ owed = 1 => wire = <<>> /\ ~rx_valid
      /\ start_pending => txdata_reg = arg.byte /\ ctrl_xfer_end = arg.final
      /\ busy => R_wdata = arg.byte /\ launched_xfer_end = arg.final
      /\ owed = 0 => Complete
  BY DEF DriverInv, Exchanging
<1>3. CASE owed = 0
  <2>1. /\ ~rx_fire /\ ~start_fire /\ ~busy' /\ ~start_pending'
        /\ rxdata_reg' = rxdata_reg /\ (xfer_open' <=> xfer_open)
    BY <1>1, <1>3, IdleClock
  <2>2. Complete'
    BY <1>2, <1>3, <2>1 DEF Complete
  <2>3. owed' = 0
    BY <2>1 DEF Owes
  <2> QED BY <2>1, <2>2, <2>3
<1>4. CASE owed = 1 /\ rx_fire
  <2>1. busy /\ ~busy' /\ ~start_pending'
    BY <1>1, <1>4, ByteClock
  <2>2. owed' = 0
    BY <2>1 DEF Owes
  <2>3. rxdata_reg' = R_rdata /\ (xfer_open' <=> ~launched_xfer_end)
    BY <1>1, <1>4, ByteClock
  <2>4. wire' = <<[tx |-> arg.byte, rx |-> R_rdata, final |-> arg.final]>>
    BY <1>2, <1>4, <2>1 DEF Shown
  <2>5. Complete'
    BY <1>2, <2>1, <2>3, <2>4 DEF Complete
  <2> QED BY <1>4, <2>1, <2>2, <2>5
<1>5. CASE owed = 1 /\ ~rx_fire
  <2>1. start_pending' \/ busy'
    BY <1>1, <1>5, BusyClock
  <2>2. owed' = 1
    BY <2>1 DEF Owes
  <2>3. ~rx_valid' /\ wire' = <<>>
    BY <1>1, <1>2, <1>5, ByteClock
  <2>4. start_pending' => start_pending /\ ~start_fire
    BY <1>1, ByteClock
  <2>5. txdata_reg' = txdata_reg /\ ctrl_xfer_end' = ctrl_xfer_end
    BY <1>1, ByteClock
  <2>6. CASE start_fire
    <3>1. start_pending /\ R_wdata' = txdata_reg /\ launched_xfer_end' = ctrl_xfer_end
      BY <1>1, <2>6, ByteClock
    <3> QED BY <1>2, <1>5, <2>2, <2>3, <2>4, <2>5, <2>6, <3>1
  <2>7. CASE ~start_fire
    <3>1. (busy' => busy) /\ R_wdata' = R_wdata /\ launched_xfer_end' = launched_xfer_end
      BY <1>1, <2>7, ByteClock
    <3> QED BY <1>2, <1>5, <2>2, <2>3, <2>4, <2>5, <3>1
  <2> QED BY <2>6, <2>7
<1>6. owed = 0 \/ owed = 1
  BY DEF DriverInv, Owes
<1> QED BY <1>3, <1>4, <1>5, <1>6

(* The polls after the START.  RX_VALID is read only once the byte is      *)
(* complete: it was cleared, and no other byte was under way.              *)
LEMMA FinishTransferStep ==
  ASSUME IInv, DriverInv, FinishTransfer
  PROVE  DriverInv'
<1>1. /\ DriverTypes /\ wire \in Seq(Exchange)
      /\ (pc # "init" => ctrl_enable)
  BY DEF DriverInv, DriverTypes, Enabled
<1>2. /\ NoEffect \in Requests /\ "START" \notin NoEffect.bits
      /\ ~Writes(NoEffect, "CTRL", "START")
      /\ NoEffect.reg # "CTRL"
  BY OtherRequests DEF Writes
<1>3. ASSUME NEW next \in {"wait_not_busy", "wait_rx_valid", "rx"},
             pc \in {"wait_not_busy", "wait_rx_valid"},
             Access(NoEffect, next, wire, FALSE),
             next = "rx" => rx_valid,
             arg' = arg, ctrl_seen' = ctrl_seen, result' = result
      PROVE  DriverInv'
  <2>1. /\ Effect(NoEffect) /\ Owes' /\ owed' \in {0, 1} /\ pc' = next
        /\ wire' \in Seq(Exchange)
        /\ ~rx_fire => wire' = wire
        /\ rx_fire /\ wire = <<>> => wire' = <<Shown>>
    BY <1>1, <1>2, <1>3, AccessStep
  <2>2. /\ owed = 0 => owed' = 0
        /\ owed' = 1 => wire' = <<>> /\ ~rx_valid'
        /\ start_pending' => txdata_reg' = arg.byte /\ ctrl_xfer_end' = arg.final
        /\ busy' => R_wdata' = arg.byte /\ launched_xfer_end' = arg.final
        /\ owed' = 0 => Complete'
    BY <1>3, <2>1, ExchangeClock
  <2>3. (owed = 0 \/ owed = 1) /\ arg.waits /\ result = NoResult
        /\ (owed = 1 => ~rx_valid)
    BY <1>3 DEF DriverInv, Owes, Free, Returned, Exchanging
  <2>4. ctrl_enable'
    BY <1>1, <1>2, <1>3, <2>1, ByteClock
  <2>5. next = "rx" => owed' = 0 /\ Complete'
    BY <1>3, <2>2, <2>3
  <2>6. DriverTypes' /\ Enabled' /\ Free'
    BY <1>1, <1>3, <2>1, <2>3, <2>4, <2>5 DEF DriverInv, DriverTypes, Enabled, Free
  <2>7. Prepared' /\ Exchanging' /\ Returned'
    BY <1>3, <2>1, <2>2, <2>3, <2>5 DEF Prepared, Exchanging, Returned
  <2> QED BY <2>1, <2>6, <2>7 DEF DriverInv
<1>4. CASE Poll("wait_not_busy", ~busy, "wait_rx_valid")
  <2> DEFINE next == IF ~busy THEN "wait_rx_valid" ELSE "wait_not_busy"
  <2>1. /\ next \in {"wait_not_busy", "wait_rx_valid", "rx"} /\ next # "rx"
    OBVIOUS
  <2>2. /\ pc = "wait_not_busy" /\ Access(NoEffect, next, wire, FALSE)
        /\ arg' = arg /\ ctrl_seen' = ctrl_seen /\ result' = result
    BY <1>2, <1>4, PlainAccess DEF Poll
  <2> HIDE DEF next
  <2> QED BY <1>3, <2>1, <2>2
<1>5. CASE Poll("wait_rx_valid", rx_valid, "rx")
  <2> DEFINE next == IF rx_valid THEN "rx" ELSE "wait_rx_valid"
  <2>1. next \in {"wait_not_busy", "wait_rx_valid", "rx"} /\ (next = "rx" => rx_valid)
    OBVIOUS
  <2>2. /\ pc = "wait_rx_valid" /\ Access(NoEffect, next, wire, FALSE)
        /\ arg' = arg /\ ctrl_seen' = ctrl_seen /\ result' = result
    BY <1>2, <1>5, PlainAccess DEF Poll
  <2> HIDE DEF next
  <2> QED BY <1>3, <2>1, <2>2
<1>6. CASE /\ pc = "rx" /\ Access(NoEffect, "idle", wire, FALSE)
           /\ result' = rxdata_reg /\ UNCHANGED <<arg, ctrl_seen>>
  <2>1. owed = 0 /\ arg.waits /\ Complete
    BY <1>6 DEF DriverInv, Free, Returned
  <2>2. /\ Effect(NoEffect) /\ Owes' /\ owed' = 0 /\ pc' = "idle" /\ wire' = wire
        /\ rxdata_reg' = rxdata_reg /\ (xfer_open' <=> xfer_open)
        /\ ~start_pending' /\ ~busy'
    BY <1>1, <1>2, <1>6, <2>1, CalmStep
  <2>3. ctrl_enable'
    BY <1>1, <1>2, <1>6, <2>2, ByteClock
  <2>4. Complete'
    BY <1>6, <2>1, <2>2 DEF Complete
  <2>5. DriverTypes' /\ Enabled' /\ Free'
    BY <1>1, <1>6, <2>1, <2>2, <2>3 DEF DriverInv, DriverTypes, Enabled, Free
  <2>6. Prepared' /\ Exchanging' /\ Returned'
    BY <1>6, <2>1, <2>2, <2>4 DEF Prepared, Exchanging, Returned
  <2> QED BY <2>2, <2>5, <2>6 DEF DriverInv
<1> QED BY <1>4, <1>5, <1>6 DEF FinishTransfer

(* An application that only makes blocking transfers, as adxl345.c does,   *)
(* or that lets a byte it only wrote be complete before it calls again.    *)
WaitsForItsBytes == "write" \in Calls => Patient

LEMMA CallStep ==
  ASSUME IInv, DriverInv, WaitsForItsBytes, CallTransfer \/ CallWrite
  PROVE  DriverInv'
<1>1. /\ pc = "idle" /\ owed = 0 /\ result' = NoResult /\ ctrl_enable
  BY DEF CallTransfer, CallWrite, Call, WaitsForItsBytes, DriverInv, Free, Enabled
<1>2. PICK next \in {"clear_write", "wait_free", "tx"} :
        /\ Access(NoEffect, next, <<>>, FALSE)
        /\ arg' \in [byte : Byte, final : BOOLEAN, waits : BOOLEAN]
        /\ ctrl_seen' \subseteq {"ENABLE", "XFER_END"}
        /\ next = "clear_write" => "ENABLE" \in ctrl_seen'
        /\ next \in {"wait_free", "tx"} => ~arg'.waits
        /\ ~arg'.waits => "write" \in Calls
  <2>1. CASE CallTransfer
    <3>1. Access(NoEffect, "clear_write", <<>>, FALSE)
      BY <2>1 DEF CallTransfer, Call
    <3>2. /\ arg' \in [byte : Byte, final : BOOLEAN, waits : BOOLEAN]
          /\ arg'.waits
      BY <2>1 DEF CallTransfer, Call
    <3>3. ctrl_seen' \subseteq {"ENABLE", "XFER_END"} /\ "ENABLE" \in ctrl_seen'
      BY <1>1, <2>1 DEF CallTransfer, CtrlRead
    <3> QED BY <3>1, <3>2, <3>3
  <2>2. CASE CallWrite
    <3>1. Access(NoEffect, IF busy THEN "wait_free" ELSE "tx", <<>>, FALSE)
      BY <2>2 DEF CallWrite, Call
    <3>2. /\ arg' \in [byte : Byte, final : BOOLEAN, waits : BOOLEAN]
          /\ ~arg'.waits /\ "write" \in Calls
      BY <2>2 DEF CallWrite, Call
    <3>3. ctrl_seen' \subseteq {"ENABLE", "XFER_END"}
      BY <2>2 DEF CallWrite, DriverInv, DriverTypes
    <3>4. CASE busy
      BY <3>1, <3>2, <3>3, <3>4
    <3>5. CASE ~busy
      BY <3>1, <3>2, <3>3, <3>5
    <3> QED BY <3>4, <3>5
  <2> QED BY <2>1, <2>2
<1>3. /\ NoEffect \in Requests /\ ~Writes(NoEffect, "CTRL", "START")
      /\ NoEffect.reg # "CTRL"
  BY OtherRequests DEF Writes
<1>4. <<>> \in Seq(Exchange)
  OBVIOUS
<1>5. /\ Effect(NoEffect) /\ Owes' /\ owed' = 0 /\ pc' = next /\ wire' = <<>>
      /\ ~start_pending' /\ ~busy'
  BY <1>1, <1>2, <1>3, <1>4, CalmStep
<1>6. ctrl_enable'
  BY <1>1, <1>3, <1>5, ByteClock
<1>7. DriverTypes' /\ Enabled' /\ Free'
  BY <1>2, <1>4, <1>5, <1>6 DEF DriverTypes, Enabled, Free
<1>8. Prepared' /\ Exchanging' /\ Returned'
  BY <1>1, <1>2, <1>5 DEF Prepared, Exchanging, Returned
<1> QED BY <1>5, <1>7, <1>8 DEF DriverInv

(* Between calls, also while a byte nobody waits for is under way.         *)
LEMMA BetweenCalls ==
  ASSUME IInv, DriverInv, NEW req \in Requests, Effect(req),
         ~Writes(req, "CTRL", "START"), req.reg = "CTRL" => "ENABLE" \in req.bits,
         pc \notin {"init", "wait_not_busy", "wait_rx_valid"} \/ req.reg # "CTRL",
         pc \notin {"wait_not_busy", "wait_rx_valid"}, req.reg # "TXDATA",
         Owes', pc' = pc, arg' = arg, ctrl_seen' = ctrl_seen, result' = result,
         wire' \in Seq(Exchange), ~rx_fire => wire' = wire
  PROVE  DriverInv'
<1>1. pc # "init" => ctrl_enable'
  BY ByteClock DEF DriverInv, Enabled
<1>2. txdata_reg' = txdata_reg /\ (~rx_fire /\ ~rx_valid => ~rx_valid')
  BY ByteClock
<1>3. CASE owed = 0
  <2>1. /\ ~rx_fire /\ wire' = wire /\ rxdata_reg' = rxdata_reg
        /\ (xfer_open' <=> xfer_open) /\ ~start_pending' /\ ~busy'
    BY <1>3, IdleClock
  <2>2. owed' = 0
    BY <2>1 DEF Owes
  <2>3. DriverTypes' /\ Enabled' /\ Free'
    BY <1>1, <2>1, <2>2 DEF DriverInv, DriverTypes, Enabled, Free
  <2>4. Complete => Complete'
    BY <2>1 DEF Complete
  <2>5. Prepared'
    BY <1>2, <2>1 DEF DriverInv, Prepared
  <2>6. Exchanging' /\ Returned'
    BY <2>1, <2>4 DEF DriverInv, Exchanging, Returned
  <2> QED BY <2>3, <2>5, <2>6 DEF DriverInv
<1>4. CASE owed # 0
  <2>1. pc = "idle" /\ ~arg.waits /\ result = NoResult
    BY <1>4 DEF DriverInv, Free, Returned
  <2>2. DriverTypes' /\ Enabled' /\ Free'
    BY <1>1, <2>1 DEF DriverInv, DriverTypes, Enabled, Free
  <2>3. Prepared' /\ Exchanging' /\ Returned'
    BY <2>1 DEF Prepared, Exchanging, Returned
  <2> QED BY <2>2, <2>3 DEF DriverInv
<1> QED BY <1>3, <1>4

LEMMA CallQualifyStep ==
  ASSUME IInv, DriverInv, CallQualify
  PROVE  DriverInv'
<1>1. PICK final \in BOOLEAN :
        /\ pc = "idle"
        /\ Access(WriteCtrl({"ENABLE"} \cup Qualifier(final)), "idle", wire, FALSE)
        /\ arg' = arg /\ ctrl_seen' = ctrl_seen /\ result' = result
  BY DEF CallQualify
<1> DEFINE bits == {"ENABLE"} \cup Qualifier(final)
           req == WriteCtrl(bits)
<1>2. bits \subseteq CtrlBits /\ "START" \notin bits /\ "ENABLE" \in bits
  BY DEF Qualifier, CtrlBits
<1>3. req \in Requests /\ req.reg = "CTRL" /\ req.bits = bits
  BY <1>2, CtrlRequest
<1>4. Access(req, "idle", wire, FALSE)
  BY <1>1
<1> HIDE DEF req
<1>5. ~Writes(req, "CTRL", "START") /\ "ENABLE" \in req.bits
  BY <1>2, <1>3 DEF Writes
<1>6. wire \in Seq(Exchange)
  BY DEF DriverInv, DriverTypes
<1>7. /\ Effect(req) /\ Owes' /\ pc' = "idle" /\ wire' \in Seq(Exchange)
      /\ ~rx_fire => wire' = wire
  BY <1>3, <1>4, <1>5, <1>6, AccessStep
<1> QED BY <1>1, <1>3, <1>5, <1>7, BetweenCalls

LEMMA WaitStep ==
  ASSUME IInv, DriverInv, NEW rsp_ready \in BOOLEAN, Wait(rsp_ready)
  PROVE  DriverInv'
<1>1. /\ Effect(NoEffect)
      /\ pc' = pc /\ arg' = arg /\ ctrl_seen' = ctrl_seen /\ result' = result
  BY DEF Wait, NoRequest
<1>2. /\ NoEffect \in Requests /\ ~Writes(NoEffect, "CTRL", "START")
      /\ NoEffect.reg # "CTRL" /\ NoEffect.reg # "TXDATA"
  BY OtherRequests DEF Writes
<1>3. Owes' /\ owed' \in {0, 1}
  <2>1. owed \in {0, 1}
    BY DEF DriverInv, Owes
  <2>2. owed' = owed + (IF FALSE THEN 1 ELSE 0) - (IF rx_fire THEN 1 ELSE 0)
    BY <2>1 DEF Wait
  <2> QED BY <1>1, <1>2, <2>2, AccessCounts
<1>4. wire \in Seq(Exchange) /\ DriverTypes
  BY DEF DriverInv, DriverTypes
<1>5. /\ wire' \in Seq(Exchange)
      /\ ~rx_fire => wire' = wire
      /\ rx_fire /\ wire = <<>> => wire' = <<Shown>>
  <2>1. wire' = wire \o (IF rx_fire THEN <<Shown>> ELSE <<>>)
    BY DEF Wait, Shown
  <2> QED BY <1>4, <2>1, WireClock
<1>6. CASE pc \in {"wait_not_busy", "wait_rx_valid"}
  <2>1. /\ owed' = 1 => wire' = <<>> /\ ~rx_valid'
        /\ start_pending' => txdata_reg' = arg.byte /\ ctrl_xfer_end' = arg.final
        /\ busy' => R_wdata' = arg.byte /\ launched_xfer_end' = arg.final
        /\ owed' = 0 => Complete'
    BY <1>1, <1>3, <1>5, <1>6, ExchangeClock
  <2>2. arg.waits /\ result = NoResult
    BY <1>6 DEF DriverInv, Free, Returned
  <2>3. ctrl_enable'
    BY <1>1, <1>2, <1>6, ByteClock DEF DriverInv, Enabled
  <2>4. DriverTypes' /\ Enabled' /\ Free'
    BY <1>1, <1>4, <1>5, <1>6, <2>2, <2>3 DEF DriverInv, DriverTypes, Enabled, Free
  <2>5. Prepared' /\ Exchanging' /\ Returned'
    BY <1>1, <1>6, <2>1, <2>2 DEF Prepared, Exchanging, Returned
  <2> QED BY <1>3, <2>4, <2>5 DEF DriverInv
<1>7. CASE pc \notin {"wait_not_busy", "wait_rx_valid"}
  BY <1>1, <1>2, <1>3, <1>5, <1>7, BetweenCalls
<1> QED BY <1>6, <1>7

(* To the registers, the driver is software that writes something at some  *)
(* time.                                                                   *)
LEMMA DriverIsSoftware ==
  ASSUME CallTypes, DriverNext
  PROVE  Next
<1>1. ASSUME NEW req \in Requests, NEW next, NEW before, NEW started,
             Access(req, next, before, started)
      PROVE  Next
  BY <1>1 DEF Access, Next
<1>2. /\ ctrl_seen \subseteq CtrlBits /\ arg.byte \in Byte
      /\ \A final : Qualifier(final) \subseteq CtrlBits
  BY DEF CtrlBits, Qualifier
<1>3. CASE Initialise
  <2>1. /\ WriteCtrl({"ENABLE", "XFER_END"}) \in Requests
        /\ ClearFlags \in Requests
    BY <1>2, CtrlRequest DEF CtrlBits, ClearFlags
  <2> QED BY <1>1, <1>3, <2>1, OtherRequests DEF Initialise, Do, ReadCtrl
<1>4. CASE ClearStatusFlags
  <2>1. ClearFlags \in Requests
    BY <1>2, CtrlRequest DEF CtrlBits, ClearFlags
  <2> QED BY <1>1, <1>4, <2>1, OtherRequests DEF ClearStatusFlags, Do, ReadCtrl
<1>5. CASE WriteByte
  <2>1. WriteCtrl({"ENABLE", "START"} \cup Qualifier(arg.final)) \in Requests
    BY <1>2, CtrlRequest DEF CtrlBits
  <2> QED BY <1>1, <1>2, <1>5, <2>1, OtherRequests DEF WriteByte, StartByte, Poll, Do
<1>6. CASE FinishTransfer
  BY <1>1, <1>6, OtherRequests DEF FinishTransfer, Poll, Do
<1>7. CASE CallTransfer \/ CallWrite
  BY <1>1, <1>7, OtherRequests DEF CallTransfer, CallWrite, Call
<1>8. CASE CallQualify
  <2>1. \A final : WriteCtrl({"ENABLE"} \cup Qualifier(final)) \in Requests
    BY <1>2, CtrlRequest DEF CtrlBits
  <2> QED BY <1>1, <1>8, <2>1 DEF CallQualify
<1>9. CASE \E rsp_ready \in BOOLEAN : Wait(rsp_ready)
  BY <1>9 DEF Wait, Next
<1> QED BY <1>3, <1>4, <1>5, <1>6, <1>7, <1>8, <1>9 DEF DriverNext, Continue

(* Whatever the application calls and however early, the block cannot tell *)
(* the driver from software that writes anything at any time: what holds   *)
(* of the registers for all software holds under the driver.               *)
THEOREM DriverImplementsSpec == DriverSpec => Spec
<1>1. DriverInit => CallTypes /\ SpiInit
  BY ByteOfReset DEF DriverInit
<1>2. CallTypes /\ [DriverNext]_vars => CallTypes'
  <2> SUFFICES ASSUME CallTypes, [DriverNext]_vars PROVE CallTypes'
    OBVIOUS
  <2>1. CtrlRead \subseteq {"ENABLE", "XFER_END"}
    BY DEF CtrlRead
  <2>2. CASE Initialise \/ ClearStatusFlags
    BY <2>1, <2>2 DEF Initialise, ClearStatusFlags, Do, ReadCtrl
  <2>3. CASE WriteByte \/ FinishTransfer
    BY <2>3 DEF WriteByte, StartByte, FinishTransfer, Poll, Do
  <2>4. CASE CallTransfer \/ CallWrite
    <3>1. ctrl_seen' \subseteq {"ENABLE", "XFER_END"}
      BY <2>1, <2>4 DEF CallTransfer, CallWrite
    <3>2. PICK b \in Byte, f \in BOOLEAN, waits \in BOOLEAN :
            arg' = [byte |-> b, final |-> f, waits |-> waits]
      <4>1. CASE CallTransfer
        BY <4>1 DEF CallTransfer, Call
      <4>2. CASE CallWrite
        BY <4>2 DEF CallWrite, Call
      <4> QED BY <2>4, <4>1, <4>2
    <3>3. arg' \in [byte : Byte, final : BOOLEAN, waits : BOOLEAN]
      BY <3>2
    <3> QED BY <3>1, <3>3
  <2>5. CASE CallQualify
    BY <2>5 DEF CallQualify
  <2>6. CASE \E rsp_ready \in BOOLEAN : Wait(rsp_ready)
    BY <2>6 DEF Wait
  <2>7. CASE UNCHANGED vars
    BY <2>7 DEF vars, driverVars
  <2> QED BY <2>2, <2>3, <2>4, <2>5, <2>6, <2>7 DEF DriverNext, Continue
<1>3. CallTypes /\ [DriverNext]_vars => [Next]_spiVars
  BY DriverIsSoftware DEF vars
<1> QED BY <1>1, <1>2, <1>3, PTL DEF DriverSpec, Spec

LEMMA NextDriverInv ==
  ASSUME WaitsForItsBytes
  PROVE  (IInv /\ DriverInv) /\ [DriverNext]_vars => (IInv /\ DriverInv)'
<1> SUFFICES ASSUME IInv, DriverInv, [DriverNext]_vars PROVE IInv' /\ DriverInv'
  OBVIOUS
<1>1. CASE DriverNext
  <2>1. IInv'
    BY <1>1, DriverIsSoftware, NextIInv DEF DriverInv, DriverTypes
  <2>2. CASE Initialise
    BY <2>1, <2>2, InitialiseStep
  <2>3. CASE ClearStatusFlags
    BY <2>1, <2>3, PrepareStep
  <2>4. CASE WriteByte
    BY <2>1, <2>4, PrepareStep, StartByteStep DEF WriteByte
  <2>5. CASE FinishTransfer
    BY <2>1, <2>5, FinishTransferStep
  <2>6. CASE CallTransfer \/ CallWrite
    BY <2>1, <2>6, CallStep
  <2>7. CASE CallQualify
    BY <2>1, <2>7, CallQualifyStep
  <2>8. CASE \E rsp_ready \in BOOLEAN : Wait(rsp_ready)
    BY <2>1, <2>8, WaitStep
  <2> QED BY <1>1, <2>1, <2>2, <2>3, <2>4, <2>5, <2>6, <2>7, <2>8
          DEF DriverNext, Continue
<1>2. CASE UNCHANGED vars
  <2>1. IInv'
    BY <1>2, NextIInv DEF vars
  <2>2. /\ UNCHANGED <<R_wdata, ctrl_enable, ctrl_xfer_end, txdata_reg, rxdata_reg>>
        /\ UNCHANGED <<start_pending, busy, xfer_open, launched_xfer_end, rx_valid>>
        /\ UNCHANGED <<pc, arg, ctrl_seen, result, wire, owed>>
    BY <1>2 DEF vars, spiVars, coreVars, regVars, driverVars
  <2>3. DriverTypes' /\ Owes' /\ Enabled' /\ Free'
    BY <2>2 DEF DriverInv, DriverTypes, Owes, Enabled, Free
  <2>4. Prepared' /\ Exchanging' /\ Returned'
    BY <2>2 DEF DriverInv, Prepared, Exchanging, Returned, Complete
  <2> QED BY <2>1, <2>3, <2>4 DEF DriverInv
<1> QED BY <1>1, <1>2

THEOREM DriverInductive ==
  WaitsForItsBytes => (DriverSpec => [](IInv /\ DriverInv))
<1> SUFFICES ASSUME WaitsForItsBytes PROVE DriverSpec => [](IInv /\ DriverInv)
  OBVIOUS
<1> QED BY InitDriverInv, NextDriverInv, PTL DEF DriverSpec

(* What spi_transfer_byte_blocking returns (spi_regs.c:190-196) is what    *)
(* the device shifted in for the byte it was given, exchanged once, with   *)
(* the final_byte it was given: for an application that does not leave a   *)
(* spi_write_byte under way.                                               *)
THEOREM Transfers == WaitsForItsBytes => (DriverSpec => []TransferExact)
<1>1. IInv /\ DriverInv => TransferExact
  BY DEF DriverInv, Returned, Complete, TransferExact
<1> QED BY <1>1, DriverInductive, PTL

(* Between the bytes of a burst (adxl345.c:85) the device stays selected,  *)
(* for the same applications.                                              *)
THEOREM Bursts == WaitsForItsBytes => (DriverSpec => []BurstKeepsFrame)
<1>1. IInv /\ DriverInv => BurstKeepsFrame
  BY DEF IInv, OpenWhileSelected, TypeOK, DriverInv, DriverTypes, Returned, Complete,
         BurstKeepsFrame, O_csn
<1> QED BY <1>1, DriverInductive, PTL

(* A byte is handed over only when the one before is complete              *)
(* (spi_regs.c:166-168), for the same applications: BUSY alone does not    *)
(* say so while a START is pending.                                        *)
THEOREM Launches == WaitsForItsBytes => (DriverSpec => []LaunchesWhenDone)
<1>1. IInv /\ DriverInv => LaunchesWhenDone
  BY DEF DriverInv, Free, LaunchesWhenDone
<1> QED BY <1>1, DriverInductive, PTL
=============================================================================
