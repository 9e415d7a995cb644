------------------------------ MODULE SpiRegs -------------------------------
(***************************************************************************)
(* spi_regs.sv with the vendor core spi_master.v under it: one step is one *)
(* clock, in which the wrapper may make one MMIO request.                  *)
(*                                                                         *)
(* A byte is one value.  The core loads it, takes 2 * SPI_DW half bits,    *)
(* each CLKDIVIDE clocks long, and then holds the byte the device has      *)
(* shifted in: the partly filled shift registers are never read and are    *)
(* left out.  The device answers with any byte.                            *)
(*                                                                         *)
(* A request names its register, the bits its data sets and, for TXDATA,   *)
(* the byte.  Reads, writes without byte lane 0 and accesses to unmapped   *)
(* addresses change only the response.                                     *)
(***************************************************************************)
EXTENDS Integers

CONSTANTS
  SPI_DW,     \* bits of a byte
  CLKDIVIDE,  \* clocks of a half bit: CLKDIV / 2
  Byte

ASSUME SpiAssumption ==
  /\ SPI_DW \in Nat \ {0}
  /\ CLKDIVIDE \in Nat \ {0}
  /\ Byte # {}

VARIABLES
  R_state, R_clk, R_cnt, R_wdata, R_rdata, R_rvalid,  \* spi_master, clk_valid
  ctrl_enable, ctrl_xfer_end, txdata_reg, rxdata_reg, start_pending,
  busy, xfer_open, launched_xfer_end, done, rx_valid,
  irq_en, irq_pending,   \* sets of events
  rsp_valid

coreVars == <<R_state, R_clk, R_cnt, R_wdata, R_rdata, R_rvalid>>
regVars  == <<ctrl_enable, ctrl_xfer_end, txdata_reg, rxdata_reg, start_pending,
              busy, xfer_open, launched_xfer_end, done, rx_valid,
              irq_en, irq_pending, rsp_valid>>
spiVars  == <<coreVars, regVars>>

Events == {"done", "rx_valid"}

TypeOK ==
  /\ R_state \in {"IDLE", "ENTR", "RXTX", "EXIT"}
  /\ R_clk \in 0 .. CLKDIVIDE - 1 /\ R_cnt \in 0 .. 2 * SPI_DW
  /\ R_wdata \in Byte /\ R_rdata \in Byte /\ R_rvalid \in BOOLEAN
  /\ ctrl_enable \in BOOLEAN /\ ctrl_xfer_end \in BOOLEAN
  /\ txdata_reg \in Byte /\ rxdata_reg \in Byte
  /\ start_pending \in BOOLEAN /\ busy \in BOOLEAN /\ xfer_open \in BOOLEAN
  /\ launched_xfer_end \in BOOLEAN /\ done \in BOOLEAN /\ rx_valid \in BOOLEAN
  /\ irq_en \subseteq Events /\ irq_pending \subseteq Events
  /\ rsp_valid \in BOOLEAN

ResetByte == CHOOSE b \in Byte : TRUE

SpiInit ==
  /\ R_state = "IDLE" /\ R_clk = 0 /\ R_cnt = 0
  /\ R_wdata = ResetByte /\ R_rdata = ResetByte /\ R_rvalid = FALSE
  /\ ctrl_enable = FALSE /\ ctrl_xfer_end = TRUE
  /\ txdata_reg = ResetByte /\ rxdata_reg = ResetByte
  /\ start_pending = FALSE /\ busy = FALSE /\ xfer_open = FALSE
  /\ launched_xfer_end = TRUE /\ done = FALSE /\ rx_valid = FALSE
  /\ irq_en = {} /\ irq_pending = {} /\ rsp_valid = FALSE

----------------------------------------------------------------------------
(* The requests.                                                           *)

CtrlBits == {"ENABLE", "START", "XFER_END", "CLR_DONE", "CLR_RX_VALID"}

NoEffect == [reg |-> "none", bits |-> {}, byte |-> ResetByte]
WriteCtrl(bits) == [NoEffect EXCEPT !.reg = "CTRL", !.bits = bits]
WriteTxData(b) == [NoEffect EXCEPT !.reg = "TXDATA", !.byte = b]
WriteIrqEn(events) == [NoEffect EXCEPT !.reg = "IRQ_EN", !.bits = events]
WriteIrqStatus(events) == [NoEffect EXCEPT !.reg = "IRQ_STATUS", !.bits = events]

Requests ==
  {NoEffect} \cup {WriteCtrl(bits) : bits \in SUBSET CtrlBits}
             \cup {WriteTxData(b) : b \in Byte}
             \cup {WriteIrqEn(events) : events \in SUBSET Events}
             \cup {WriteIrqStatus(events) : events \in SUBSET Events}

Writes(req, reg, bit) == req.reg = reg /\ bit \in req.bits

----------------------------------------------------------------------------
(* The vendor core.                                                        *)

W_clk_en == R_clk = CLKDIVIDE - 1

O_wready == R_state = "IDLE" \/ (R_cnt >= 2 * SPI_DW - 1 /\ W_clk_en)

O_csn == R_state = "IDLE"

last_half_bit == R_cnt = 2 * SPI_DW - 1 /\ W_clk_en

Move(from, event, to) == R_state = from /\ R_state' = IF event THEN to ELSE from

HalfBits(taken) ==
  R_cnt' = IF R_state # "RXTX" \/ taken THEN 0
           ELSE IF R_cnt < 2 * SPI_DW /\ W_clk_en THEN R_cnt + 1
           ELSE R_cnt

Core(wvalid, transfer_end) ==
  LET taken == wvalid /\ O_wready
  IN  /\ \/ Move("IDLE", taken, "ENTR")
         \/ Move("ENTR", W_clk_en, "RXTX")
         \/ Move("RXTX", ~wvalid /\ transfer_end /\ O_wready, "EXIT")
         \/ Move("EXIT", W_clk_en, "IDLE")
      /\ R_clk' = IF R_state = "IDLE" \/ W_clk_en THEN 0 ELSE R_clk + 1
      /\ HalfBits(taken)
      /\ R_wdata' = IF taken THEN txdata_reg ELSE R_wdata
      /\ R_rvalid' = last_half_bit
      /\ IF last_half_bit THEN R_rdata' \in Byte ELSE UNCHANGED R_rdata

----------------------------------------------------------------------------
(* The register block.                                                     *)

start_fire == start_pending /\ ctrl_enable /\ ~busy /\ O_wready

(* Faulty variant: the byte is taken when the core is ready again. *)
rx_fire_on_ready == R_state = "RXTX" /\ O_wready

rx_fire == R_rvalid

start_xfer_end(req) ==
  IF req.reg = "CTRL" THEN "XFER_END" \in req.bits ELSE ctrl_xfer_end

(* Faulty variant: the qualifier follows CTRL while the byte is in flight. *)
core_transfer_end_live(req) == start_xfer_end(req)

core_transfer_end(req) ==
  IF start_fire THEN start_xfer_end(req) ELSE launched_xfer_end

StartLatch(req) ==
  start_pending' =
    (~start_fire
     /\ (start_pending
         \/ (Writes(req, "CTRL", "START") /\ ctrl_enable /\ ~busy)))

(* ENABLE is locked while a transaction is open. *)
Control(req) ==
  /\ ctrl_enable' =
       (IF req.reg = "CTRL" /\ ~xfer_open THEN "ENABLE" \in req.bits
        ELSE ctrl_enable)
  /\ ctrl_xfer_end' = start_xfer_end(req)
  /\ txdata_reg' = IF req.reg = "TXDATA" THEN req.byte ELSE txdata_reg

(* Faulty variant: the next byte's qualifier decides on this one's end. *)
OpenLatchNext ==
  xfer_open' = (IF rx_fire THEN ~ctrl_xfer_end ELSE xfer_open \/ start_fire)

OpenLatch ==
  xfer_open' = (IF rx_fire THEN ~launched_xfer_end ELSE xfer_open \/ start_fire)

(* A clear wins over the event it meets in the same clock. *)
Status(req) ==
  /\ busy' = (~rx_fire /\ (busy \/ start_fire))
  /\ OpenLatch
  /\ launched_xfer_end' = IF start_fire THEN start_xfer_end(req)
                          ELSE launched_xfer_end
  /\ done' = ((done \/ (rx_fire /\ launched_xfer_end))
              /\ ~Writes(req, "CTRL", "CLR_DONE"))
  /\ rx_valid' = ((rx_valid \/ rx_fire) /\ ~Writes(req, "CTRL", "CLR_RX_VALID"))
  /\ rxdata_reg' = IF rx_fire THEN R_rdata ELSE rxdata_reg

Interrupts(req) ==
  /\ irq_en' = IF req.reg = "IRQ_EN" THEN req.bits ELSE irq_en
  /\ irq_pending' =
       (irq_pending \cup (IF rx_fire THEN {"rx_valid"} ELSE {})
                    \cup (IF rx_fire /\ launched_xfer_end THEN {"done"} ELSE {}))
       \ (IF req.reg = "IRQ_STATUS" THEN req.bits ELSE {})

(* What a clock does in which the request req is in effect. *)
Effect(req) ==
  /\ StartLatch(req) /\ Control(req) /\ Status(req) /\ Interrupts(req)
  /\ Core(start_fire, core_transfer_end(req))

(* A request is accepted only when no response is held. *)
Accept(req) == ~rsp_valid /\ rsp_valid' = TRUE /\ Effect(req)

NoRequest(rsp_ready) ==
  /\ rsp_valid' = (rsp_valid /\ ~rsp_ready)
  /\ Effect(NoEffect)

(* Software that writes anything at any time. *)
Next ==
  \/ \E req \in Requests : Accept(req)
  \/ \E rsp_ready \in BOOLEAN : NoRequest(rsp_ready)

Spec == SpiInit /\ [][Next]_spiVars

(* The clock runs for ever: what the core can do, it does. *)
FairSpec == Spec /\ WF_coreVars(Next)

----------------------------------------------------------------------------

(* BUSY is exactly as long as the core has a byte that is not complete     *)
(* (spi_regs.sv:81-83), whatever software writes meanwhile: the block and  *)
(* the core, which share no busy signal, never drift apart.                *)
BusyWhileInFlight ==
  busy <=> \/ R_state = "ENTR"
           \/ R_state = "RXTX" /\ R_cnt < 2 * SPI_DW
           \/ R_rvalid

(* XFER_OPEN, which locks ENABLE, is exactly as long as the device is      *)
(* selected for the bytes of one transaction (spi_regs.sv:84-87); chip     *)
(* select stays low a half bit longer.                                     *)
OpenWhileSelected ==
  xfer_open <=> \/ R_state \in {"ENTR", "RXTX"}
                \/ R_state = "EXIT" /\ R_rvalid

(* The device is released only after the byte launched as final is         *)
(* complete: no write of XFER_END for the next byte ends the frame of the  *)
(* byte in flight (spi_regs.sv:88-91).                                     *)
FrameEndsWithFinalByte ==
  [][~O_csn /\ O_csn' => launched_xfer_end /\ ~xfer_open /\ ~busy]_spiVars
=============================================================================
