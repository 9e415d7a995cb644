----------------------------- MODULE SpiDriver ------------------------------
(***************************************************************************)
(* spi_regs.c, the polling SPI driver, over spi_regs.sv.  The driver makes *)
(* its register accesses one at a time and at any speed; a read sees the   *)
(* registers as they are in the clock in which the block accepts it.       *)
(*                                                                         *)
(* pc is the next access of the function under way; "idle": the            *)
(* application may call.  The application is adxl345.c, or any other that  *)
(* uses the calls in Calls.                                                *)
(***************************************************************************)
EXTENDS SpiRegs, Sequences

CONSTANTS
  Calls,     \* subset of {"transfer", "write", "begin", "end"}
  Patient,   \* after a spi_write_byte it calls only when the byte is complete
  NoResult

ASSUME DriverAssumption ==
  /\ Patient \in BOOLEAN
  /\ Calls \subseteq {"transfer", "write", "begin", "end"}
  /\ NoResult \notin Byte

VARIABLES
  pc,
  arg,        \* tx_data, final_byte, and whether the call waits for the byte
  ctrl_seen,  \* what spi_ctrl_read() returned
  result,     \* what spi_transfer_byte_blocking returned last, or NoResult
  wire,       \* history: the bytes exchanged since the call began
  owed        \* history: STARTs written whose byte is not complete

driverVars == <<pc, arg, ctrl_seen, result, wire, owed>>
vars == <<spiVars, driverVars>>

Exchange == [tx : Byte, rx : Byte, final : BOOLEAN]

DriverTypeOK ==
  /\ TypeOK
  /\ pc \in {"init", "init_read", "init_clear", "init_irq_en", "init_irq_status",
             "idle", "clear_read", "clear_write", "wait_free", "tx", "start",
             "wait_not_busy", "wait_rx_valid", "rx"}
  /\ arg \in [byte : Byte, final : BOOLEAN, waits : BOOLEAN]
  /\ ctrl_seen \subseteq {"ENABLE", "XFER_END"}
  /\ result \in Byte \cup {NoResult}
  /\ wire \in Seq(Exchange)
  /\ owed \in {0, 1}

DriverInit ==
  /\ SpiInit
  /\ pc = "init"
  /\ arg = [byte |-> ResetByte, final |-> TRUE, waits |-> TRUE]
  /\ ctrl_seen = {} /\ result = NoResult
  /\ wire = <<>> /\ owed = 0

----------------------------------------------------------------------------
CtrlRead ==
  (IF ctrl_enable THEN {"ENABLE"} ELSE {}) \cup
  (IF ctrl_xfer_end THEN {"XFER_END"} ELSE {})

(* Faulty variant: the flags are cleared without reading CTRL first. *)
ClearFlagsOnly == WriteCtrl({"CLR_DONE", "CLR_RX_VALID"})

ClearFlags == WriteCtrl(ctrl_seen \cup {"CLR_DONE", "CLR_RX_VALID"})

Qualifier(final) == IF final THEN {"XFER_END"} ELSE {}

(* One access: the block accepts req and the driver goes on at next.       *)
(* `before` is what the wire had shown; started: the access is a START.    *)
Access(req, next, before, started) ==
  /\ Accept(req)
  /\ pc' = next
  /\ wire' = before \o
       (IF rx_fire
        THEN <<[tx |-> R_wdata, rx |-> R_rdata, final |-> launched_xfer_end]>>
        ELSE <<>>)
  /\ owed' = owed + (IF started THEN 1 ELSE 0) - (IF rx_fire THEN 1 ELSE 0)

Do(at, req, next) ==
  /\ pc = at
  /\ Access(req, next, wire, "START" \in req.bits)
  /\ UNCHANGED <<arg, ctrl_seen, result>>

Poll(at, condition, next) ==
  Do(at, NoEffect, IF condition THEN next ELSE at)

ReadCtrl(at, next) ==
  /\ pc = at
  /\ Access(NoEffect, next, wire, FALSE)
  /\ ctrl_seen' = CtrlRead
  /\ UNCHANGED <<arg, result>>

Initialise ==
  \/ Do("init", WriteCtrl({"ENABLE", "XFER_END"}), "init_read")
  \/ ReadCtrl("init_read", "init_clear")
  \/ Do("init_clear", ClearFlags, "init_irq_en")
  \/ Do("init_irq_en", WriteIrqEn({}), "init_irq_status")
  \/ Do("init_irq_status", WriteIrqStatus(Events), "idle")

(* Faulty variant: the stale flags are not cleared first. *)
ClearStatusFlagsSkipped ==
  \/ ReadCtrl("clear_read", "clear_write")
  \/ Do("clear_write", WriteCtrl(ctrl_seen), "wait_free")

ClearStatusFlags ==
  \/ ReadCtrl("clear_read", "clear_write")
  \/ Do("clear_write", ClearFlags, "wait_free")

StartByte ==
  Do("start", WriteCtrl({"ENABLE", "START"} \cup Qualifier(arg.final)),
     IF arg.waits THEN "wait_not_busy" ELSE "idle")

WriteByte ==
  \/ Poll("wait_free", ~busy, "tx")
  \/ Do("tx", WriteTxData(arg.byte), "start")
  \/ StartByte

(* Faulty variant: only BUSY is polled. *)
FinishTransferOnBusy ==
  \/ Poll("wait_not_busy", ~busy, "rx")
  \/ /\ pc = "rx"
     /\ Access(NoEffect, "idle", wire, FALSE)
     /\ result' = rxdata_reg
     /\ UNCHANGED <<arg, ctrl_seen>>

FinishTransfer ==
  \/ Poll("wait_not_busy", ~busy, "wait_rx_valid")
  \/ Poll("wait_rx_valid", rx_valid, "rx")
  \/ /\ pc = "rx"
     /\ Access(NoEffect, "idle", wire, FALSE)
     /\ result' = rxdata_reg
     /\ UNCHANGED <<arg, ctrl_seen>>

(* The accesses of the function under way. *)
Continue == Initialise \/ ClearStatusFlags \/ WriteByte \/ FinishTransfer

(* A call, with its first access. *)
Call(name, first, waits) ==
  /\ pc = "idle" /\ name \in Calls
  /\ Patient /\ ~arg.waits => owed = 0
  /\ \E b \in Byte, f \in BOOLEAN : arg' = [byte |-> b, final |-> f, waits |-> waits]
  /\ result' = NoResult
  /\ first

CallTransfer ==
  Call("transfer", Access(NoEffect, "clear_write", <<>>, FALSE), TRUE)
  /\ ctrl_seen' = CtrlRead

CallWrite ==
  Call("write", Access(NoEffect, IF busy THEN "wait_free" ELSE "tx", <<>>, FALSE), FALSE)
  /\ UNCHANGED ctrl_seen

(* spi_begin_transaction, spi_end_transaction *)
CallQualify ==
  \E final \in BOOLEAN :
    /\ pc = "idle" /\ (IF final THEN "end" ELSE "begin") \in Calls
    /\ Access(WriteCtrl({"ENABLE"} \cup Qualifier(final)), "idle", wire, FALSE)
    /\ UNCHANGED <<arg, ctrl_seen, result>>

Wait(rsp_ready) ==
  /\ NoRequest(rsp_ready)
  /\ wire' = wire \o
       (IF rx_fire
        THEN <<[tx |-> R_wdata, rx |-> R_rdata, final |-> launched_xfer_end]>>
        ELSE <<>>)
  /\ owed' = owed - (IF rx_fire THEN 1 ELSE 0)
  /\ UNCHANGED <<pc, arg, ctrl_seen, result>>

DriverNext ==
  \/ Continue
  \/ CallTransfer \/ CallWrite \/ CallQualify
  \/ \E rsp_ready \in BOOLEAN : Wait(rsp_ready)

(* The clock runs, the wrapper takes responses, and the processor goes on  *)
(* with the function under way; the application need not call again.       *)
DriverFairness ==
  WF_coreVars(DriverNext) /\ WF_vars(Wait(TRUE)) /\ WF_vars(Continue)

DriverSpec == DriverInit /\ [][DriverNext]_vars

FairDriverSpec == DriverSpec /\ DriverFairness

----------------------------------------------------------------------------

(* What a blocking transfer returns is what the device shifted in for the  *)
(* byte the caller gave, exchanged once, with the caller's final_byte: no  *)
(* stale RXDATA, no byte lost or sent twice (spi_regs.c:190-196).          *)
TransferExact ==
  result # NoResult =>
    wire = <<[tx |-> arg.byte, rx |-> result, final |-> arg.final]>>

(* Between the bytes of a burst the device stays selected (adxl345.c:85),  *)
(* also while the application prepares the next qualifier.                 *)
BurstKeepsFrame ==
  result # NoResult /\ O_csn => arg.final

(* A byte is handed over only when the previous one is complete            *)
(* (spi_regs.c:166-168): BUSY is not yet set while a START is pending.     *)
LaunchesWhenDone == pc \in {"tx", "start"} => owed = 0

(* The unbounded polls end: every call returns.                            *)
CallsReturn == (pc # "idle") ~> (pc = "idle")
=============================================================================
