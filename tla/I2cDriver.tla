----------------------------- MODULE I2cDriver ------------------------------
(***************************************************************************)
(* The blocking I2C calls of i2c_regs.c over the registers of i2c_regs.sv, *)
(* with the core as I2cCommands promises it.  One step is one access to a  *)
(* register, or one step of the core.                                      *)
(*                                                                         *)
(* A call is a row of commands, and each goes through the same accesses:   *)
(* "ready", "clear", "launch", "result", "check".  A byte to write is      *)
(* written to TXDATA between "clear" and "launch".                         *)
(*                                                                         *)
(* A poll gives up after I2C_TIMEOUT_LOOPS reads: in the model whenever    *)
(* what it waits for is not there, the core being as slow as it likes.     *)
(* Two status reads in a row (ready and idle) are one step: a core that is *)
(* ready stays as it is until the driver writes to it.                     *)
(***************************************************************************)
EXTENDS I2cCommands, Integers, Sequences

CONSTANTS
  MaxTx, MaxRx,            \* longest buffers
  RxBytes,                 \* what a device may send
  StatusValues             \* 2 ^ 8: the TX status is a uint8_t

ASSUME DriverAssumption ==
  /\ MaxTx \in Nat /\ MaxRx \in Nat
  /\ StatusValues \in Nat /\ StatusValues > 3

VARIABLES
  txdata, rxdata, sticky,    \* the registers
  pc, call, at, buffer,      \* the call, its current command, the bytes read
  status,                    \* what the call returns
  gave_up,                   \* history: a poll gave up in this call
  wire                       \* history: the commands carried out in this call

regVars == <<txdata, rxdata, sticky>>
driverVars    == <<commandVars, regVars, pc, call, at, buffer, status, gave_up, wire>>

OK == 0
ERR_CMD == 1
ERR_ADDR_NACK == 2
DATA_NACK_BASE == 3

Flags == {"done", "ack_valid", "ack", "rd_data_valid", "cmd_illegal"}

----------------------------------------------------------------------------
(* The calls.  A byte to write is known by its place in the call.          *)

TxCalls   == [op : {"tx_buf"}, tx : 0 .. MaxTx, rx : {0}]
RxCalls   == [op : {"rx_pkg"}, tx : {0}, rx : 1 .. MaxRx]
TxRxCalls == [op : {"txrx_buf"}, tx : 0 .. MaxTx, rx : 0 .. MaxRx]
Calls     == TxCalls \cup RxCalls \cup TxRxCalls

InitCall == [op |-> "init", tx |-> 0, rx |-> 0]

Restarts(c) == c.op = "txrx_buf" /\ c.rx > 0

Length(c) == 3 + c.tx + c.rx + (IF Restarts(c) THEN 2 ELSE 0)

Command(c, i) ==
  IF i = 1 THEN "START"
  ELSE IF i = Length(c) THEN "STOP"
  ELSE IF i = 3 + c.tx /\ Restarts(c) THEN "RESTART"
  ELSE IF i >= Length(c) - c.rx THEN "RD" ELSE "WR"

cmd == Command(call, at)

(* Faulty variant: counted from one. *)
data_nack_flag_next(i) == (DATA_NACK_BASE + i - 2) % StatusValues

(* A data byte at i has index i - 3; the code is a uint8_t.                *)
data_nack_flag(i) == (DATA_NACK_BASE + i - 3) % StatusValues

nack_code(i) ==
  IF i = 2 \/ Command(call, i - 1) = "RESTART" THEN ERR_ADDR_NACK
  ELSE data_nack_flag(i)

----------------------------------------------------------------------------
InitLabels ==
  {"init", "force", "force_stop", "stop", "stop_wait", "stopped", "forced", "cleanup"}

CallLabels == {"ready", "clear", "txdata", "launch", "result", "check"}

DriverTypeOK ==
  /\ phase \in {"idle", "hold", "busy", "abort"}
  /\ running \in {"START"} \cup AfterStart
  /\ txdata \in Nat /\ rxdata \in RxBytes /\ sticky \subseteq Flags
  /\ pc \in InitLabels \cup CallLabels \cup {"out", "abort", "recover"}
  /\ call \in Calls \cup {InitCall} /\ at \in 1 .. Length(call)
  /\ buffer \in Seq(RxBytes) /\ Len(buffer) <= call.rx
  /\ status \in 0 .. StatusValues - 1
  /\ gave_up \in BOOLEAN
  /\ Len(wire) <= Length(call)

(* The processor may start, or start again, with the core in any state.    *)
DriverInit ==
  /\ phase \in {"idle", "hold", "busy", "abort"}
  /\ running \in {"START"} \cup AfterStart
  /\ txdata = 0 /\ rxdata \in RxBytes /\ sticky \in SUBSET Flags
  /\ pc = "init" /\ call = InitCall /\ at = 1
  /\ buffer = <<>> /\ status = OK /\ gave_up = FALSE /\ wire = <<>>

CoreSame == UNCHANGED <<commandVars, regVars, wire>>
CallSame == UNCHANGED <<call, at, buffer, status, gave_up>>

----------------------------------------------------------------------------
(* The core, and the registers that keep its results.                      *)

(* ack_sticky is the acknowledge bit: set when the byte was refused.       *)
Latched(ack) ==
  IF running = "WR"
  THEN (sticky \ {"ack"}) \cup {"done", "ack_valid"} \cup (IF ack THEN {} ELSE {"ack"})
  ELSE sticky \cup (IF running = "RD" THEN {"done", "rd_data_valid"} ELSE {})

Result(ack, byte) ==
  /\ running # "WR" => ack
  /\ running # "RD" => byte = rxdata
  /\ rxdata' = byte /\ sticky' = Latched(ack)

FinishStep ==
  /\ Finish
  /\ \E ack \in BOOLEAN, byte \in RxBytes :
       /\ Result(ack, byte)
       /\ wire' = Append(wire,
            [cmd |-> running, ack |-> ack,
             byte |-> IF running = "WR" THEN txdata ELSE byte])
  /\ UNCHANGED <<txdata, pc>> /\ CallSame

CoreStep ==
  \/ FinishStep
  \/ (Fail \/ Recover) /\ CallSame /\ UNCHANGED <<regVars, wire, pc>>

(* A write of REG_CMD when the core is ready: the old results go, and a    *)
(* command that is illegal in this state only sets its flag.               *)
Write(command) ==
  /\ IF Legal(command) THEN Take(command) /\ sticky' = {}
     ELSE UNCHANGED commandVars /\ sticky' = {"cmd_illegal"}
  /\ UNCHANGED <<txdata, rxdata, wire>>

(* A write of REG_CMD with the abort bit, ignored by an idle core.  A byte *)
(* that ends in the same clock still leaves its result.                    *)
WriteAbort ==
  /\ Abort \/ (phase = "idle" /\ UNCHANGED commandVars)
  /\ \/ UNCHANGED <<rxdata, sticky>>
     \/ phase = "busy" /\ \E ack \in BOOLEAN, byte \in RxBytes : Result(ack, byte)
  /\ UNCHANGED <<txdata, wire>>

ClearStatus == sticky' = {} /\ UNCHANGED <<commandVars, txdata, rxdata, wire>>

----------------------------------------------------------------------------
(* A poll ends when what it waits for is there, or after its last read.    *)
PollTo(there, next) ==
  /\ pc' = next /\ gave_up' = (gave_up \/ ~there)
  /\ UNCHANGED <<call, at, buffer, status>> /\ CoreSame

(* abort_to_idle, called by force_idle and by each call that fails.        *)
AbortCore == pc = "abort" /\ WriteAbort /\ pc' = "recover" /\ CallSame

RecoverCore ==
  /\ pc = "recover"
  /\ PollTo(phase = "idle", IF call = InitCall THEN "forced" ELSE "out")

----------------------------------------------------------------------------
(* i2c_init and force_idle.                                                *)

Begin == pc = "init" /\ ClearStatus /\ pc' = "force" /\ CallSame

ForceIdle ==
  /\ pc = "force"
  /\ pc' = (IF phase = "idle" THEN "cleanup" ELSE "force_stop")
  /\ CoreSame /\ CallSame

ForceStop ==
  /\ pc = "force_stop"
  /\ IF phase = "hold" THEN ClearStatus /\ pc' = "stop"
     ELSE CoreSame /\ pc' = "stopped"
  /\ CallSame

Stop == pc = "stop" /\ Write("STOP") /\ pc' = "stop_wait" /\ CallSame

StopWait == pc = "stop_wait" /\ PollTo(phase = "idle", "stopped")

(* Faulty variant: no abort when the STOP did not do. *)
StoppedEnough ==
  pc = "stopped" /\ pc' = "forced" /\ CoreSame /\ CallSame

Stopped ==
  /\ pc = "stopped"
  /\ pc' = (IF phase = "idle" THEN "forced" ELSE "abort")
  /\ CoreSame /\ CallSame

Forced == pc = "forced" /\ PollTo(phase = "idle", "cleanup")

Cleanup == pc = "cleanup" /\ ClearStatus /\ pc' = "out" /\ CallSame

InitStep ==
  Begin \/ ForceIdle \/ ForceStop \/ Stop \/ StopWait \/ Stopped \/ Forced \/ Cleanup

----------------------------------------------------------------------------
(* i2c_tx_buf, i2c_rx_pkg and i2c_txrx_buf.                                *)

NewCall ==
  /\ pc = "out" /\ pc' = "ready"
  /\ call' \in Calls /\ at' = 1 /\ buffer' = <<>> /\ status' = OK
  /\ gave_up' = FALSE /\ wire' = <<>>
  /\ UNCHANGED <<commandVars, regVars>>

(* Faulty variant: a failing call just returns. *)
FailsAtOnce(code) ==
  /\ status' = (IF call.op = "tx_buf" THEN code ELSE ERR_CMD)
  /\ pc' = "out" /\ CoreSame /\ UNCHANGED <<call, at, buffer>>

(* Nothing is aborted when a call fails before its START is written.  The  *)
(* receiving calls return false, whatever the code.                        *)
Fails(code) ==
  /\ status' = (IF call.op = "tx_buf" THEN code ELSE ERR_CMD)
  /\ pc' = (IF at = 1 /\ pc # "result" THEN "out" ELSE "abort")
  /\ CoreSame /\ UNCHANGED <<call, at, buffer>>

GiveUp == gave_up' = TRUE /\ Fails(ERR_CMD)

Advance ==
  /\ at' = at + 1 /\ pc' = "ready"
  /\ CoreSame /\ UNCHANGED <<call, status, gave_up>>

WaitReady ==
  /\ pc = "ready"
  /\ IF Ready THEN pc' = "clear" /\ CoreSame /\ CallSame ELSE GiveUp

Clear ==
  /\ pc = "clear" /\ ClearStatus /\ CallSame
  /\ pc' = (IF cmd = "WR" THEN "txdata" ELSE "launch")

TxData ==
  /\ pc = "txdata" /\ txdata' = at /\ pc' = "launch"
  /\ UNCHANGED <<commandVars, rxdata, sticky, wire>> /\ CallSame

Launch ==
  /\ pc = "launch"
  /\ IF Ready THEN Write(cmd) /\ pc' = "result" /\ CallSame
     ELSE Fails(ERR_CMD) /\ UNCHANGED gave_up

(* A START or RESTART that ends in an idle core has failed.                *)
StartResult ==
  /\ pc = "result" /\ cmd \in {"START", "RESTART"}
  /\ \/ phase = "hold" /\ Advance /\ UNCHANGED buffer
     \/ phase = "idle" /\ Fails(ERR_CMD) /\ UNCHANGED gave_up
     \/ ~Ready /\ GiveUp

ByteResult ==
  /\ pc = "result" /\ cmd \in {"WR", "RD"}
  /\ IF "cmd_illegal" \in sticky THEN Fails(ERR_CMD) /\ UNCHANGED gave_up
     ELSE IF "done" \in sticky THEN pc' = "check" /\ CoreSame /\ CallSame
     ELSE GiveUp

(* Faulty variant: any acknowledge slot will do. *)
CheckWriteValid ==
  /\ pc = "check" /\ cmd = "WR"
  /\ IF "ack_valid" \in sticky THEN Advance /\ UNCHANGED buffer
     ELSE Fails(ERR_CMD) /\ UNCHANGED gave_up

CheckWrite ==
  /\ pc = "check" /\ cmd = "WR"
  /\ LET result == IF "ack_valid" \notin sticky THEN ERR_CMD
                   ELSE IF "ack" \in sticky THEN nack_code(at) ELSE OK
     IN  IF result = OK THEN Advance /\ UNCHANGED buffer
         ELSE Fails(result) /\ UNCHANGED gave_up

CheckRead ==
  /\ pc = "check" /\ cmd = "RD"
  /\ IF "rd_data_valid" \in sticky
     THEN Advance /\ buffer' = Append(buffer, rxdata)
     ELSE Fails(ERR_CMD) /\ UNCHANGED gave_up

StopResult ==
  /\ pc = "result" /\ cmd = "STOP"
  /\ IF phase = "idle" THEN pc' = "out" /\ status' = OK /\ CoreSame
                              /\ UNCHANGED <<call, at, buffer, gave_up>>
     ELSE GiveUp

CallStep ==
  \/ NewCall \/ WaitReady \/ Clear \/ TxData \/ Launch \/ StartResult
  \/ ByteResult \/ CheckWrite \/ CheckRead \/ StopResult

Driver == InitStep \/ CallStep \/ AbortCore \/ RecoverCore

DriverNext == CoreStep \/ Driver

DriverSpec == DriverInit /\ [][DriverNext]_driverVars

----------------------------------------------------------------------------

(* Between calls the bus is not owned: the core is idle, or on its way     *)
(* there when a poll gave up.  The next START then begins a transaction.   *)
Released ==
  pc = "out" => phase = "idle" \/ (phase = "abort" /\ gave_up)

(* The driver never writes a command the core is not in the state for,     *)
(* after whatever failures, timeouts and recoveries.                       *)
NeverIllegal == pc # "init" => "cmd_illegal" \notin sticky

(* A call that returns success sent every byte in order and each was       *)
(* acknowledged, and the buffer holds the bytes read, in order.            *)
OkMeansDone ==
  pc = "out" /\ status = OK /\ call # InitCall =>
    /\ Len(wire) \in {Length(call) - 1, Length(call)}
    /\ \A i \in 1 .. Len(wire) :
         /\ wire[i].cmd = Command(call, i) /\ wire[i].ack
         /\ wire[i].cmd = "WR" => wire[i].byte = i
    /\ buffer =
         [k \in 1 .. call.rx |-> wire[Length(call) - call.rx - 1 + k].byte]

(* A NACK code names the byte that was refused, and nothing was sent after *)
(* it: the code of the byte at i is i, the address being at 2.             *)
StatusTellsByte ==
  pc = "out" /\ status >= ERR_ADDR_NACK =>
    /\ Len(wire) = status /\ ~wire[status].ack
    /\ \A i \in 2 .. status - 1 : wire[i].ack
=============================================================================
