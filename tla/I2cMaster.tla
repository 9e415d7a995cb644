----------------------------- MODULE I2cMaster ------------------------------
(***************************************************************************)
(* i2c_master_core.sv on an open-drain bus with one device: one step is    *)
(* one clock, in which the register block may launch a command or abort.   *)
(* A wire is high (TRUE) when nobody drives it low.  The device may keep   *)
(* SCL low, for any time, once the master has pulled it low; it drives SDA *)
(* as it likes, but in a byte it may disturb SDA once while SCL is high.   *)
(*                                                                         *)
(* scl_line and sda_line are the two synchroniser flops and the three      *)
(* samples of history behind them, the newest first.                       *)
(***************************************************************************)
EXTENDS Integers, Sequences

CONSTANTS
  BYTE_W,
  DIVISOR_W,               \* the counters are DIVISOR_W bits wide
  Divisors,                \* what software writes to DIVISOR
  MIN_DIVISOR,
  HIGH_WAIT_TIMEOUT_CLKS

ASSUME I2cAssumption ==
  /\ BYTE_W \in Nat \ {0}
  /\ DIVISOR_W \in Nat \ {0}
  /\ MIN_DIVISOR \in 1 .. 2 ^ DIVISOR_W - 1
  /\ Divisors \subseteq 0 .. 2 ^ DIVISOR_W - 1
  /\ HIGH_WAIT_TIMEOUT_CLKS \in Nat

VARIABLES
  state_reg, tick_cnt_reg, divisor_reg, cmd_reg, bit_idx_reg,
  tx_reg,                      \* bits, the one on the wire first
  rx_reg,                      \* bits, the last one sampled last
  sda_out_reg, scl_out_reg,    \* TRUE: released
  scl_line, sda_line, sda_filt_prev_reg,
  high_wait_cnt_reg,
  scl_held, sda_dev,           \* the device
  disturbed,                   \* whether it disturbed SDA in this byte
  loaded,                      \* history: what the byte loaded
  seen                         \* history: the wire at its SCL pulses

fsmVars  == <<state_reg, tick_cnt_reg, divisor_reg, cmd_reg, bit_idx_reg, tx_reg, rx_reg>>
lineVars == <<sda_out_reg, scl_out_reg, scl_line, sda_line, sda_filt_prev_reg,
              high_wait_cnt_reg>>
busVars  == <<scl_held, sda_dev, disturbed, loaded, seen>>
vars     == <<fsmVars, lineVars, busVars>>

Bits == BYTE_W + 1

DataPhases == {"S_DATA_1", "S_DATA_2", "S_DATA_3", "S_DATA_4"}
HalfPhases ==
  {"S_START_1", "S_RESTART", "S_STOP_1", "S_STOP_2", "S_ABORT_1", "S_ABORT_2"}
QuarterPhases == DataPhases \cup {"S_START_2", "S_DATA_END"}
ReadyStates == {"S_IDLE", "S_HOLD"}

TypeOK ==
  /\ state_reg \in ReadyStates \cup HalfPhases \cup QuarterPhases
  /\ tick_cnt_reg \in 0 .. 2 ^ DIVISOR_W - 1
  /\ divisor_reg \in MIN_DIVISOR .. 2 ^ DIVISOR_W - 1
  /\ cmd_reg \in {"START", "WR", "RD", "STOP", "RESTART"}
  /\ bit_idx_reg \in 0 .. BYTE_W
  /\ tx_reg \in [1 .. Bits -> BOOLEAN] /\ rx_reg \in [1 .. Bits -> BOOLEAN]
  /\ sda_out_reg \in BOOLEAN /\ scl_out_reg \in BOOLEAN
  /\ scl_line \in [1 .. 5 -> BOOLEAN] /\ sda_line \in [1 .. 5 -> BOOLEAN]
  /\ sda_filt_prev_reg \in BOOLEAN
  /\ high_wait_cnt_reg \in 0 .. HIGH_WAIT_TIMEOUT_CLKS
  /\ scl_held \in BOOLEAN /\ sda_dev \in BOOLEAN /\ disturbed \in BOOLEAN
  /\ loaded \in [1 .. Bits -> BOOLEAN]
  /\ seen \in UNION {[1 .. n -> BOOLEAN] : n \in 0 .. Bits}

Zeros == [i \in 1 .. Bits |-> FALSE]

Init ==
  /\ state_reg = "S_IDLE" /\ tick_cnt_reg = 0 /\ divisor_reg = MIN_DIVISOR
  /\ cmd_reg = "START" /\ bit_idx_reg = 0
  /\ tx_reg = Zeros /\ rx_reg = Zeros
  /\ sda_out_reg = TRUE /\ scl_out_reg = TRUE
  /\ scl_line = [i \in 1 .. 5 |-> TRUE] /\ sda_line = [i \in 1 .. 5 |-> TRUE]
  /\ sda_filt_prev_reg = TRUE /\ high_wait_cnt_reg = 0
  /\ scl_held = FALSE /\ sda_dev = TRUE /\ disturbed = FALSE
  /\ loaded = Zeros /\ seen = <<>>

----------------------------------------------------------------------------
(* The wires, as the pins of self_balancing_io.sv connect them.            *)

receiving ==
  /\ state_reg \in DataPhases
  /\ \/ cmd_reg = "RD" /\ bit_idx_reg < BYTE_W
     \/ cmd_reg = "WR" /\ bit_idx_reg = BYTE_W

scl == scl_out_reg /\ ~scl_held
sda_released == sda_out_reg \/ receiving
sda == sda_released /\ sda_dev

scl_high_qual == \A i \in 3 .. 5 : scl_line[i]

sda_filt == \E i, j \in 3 .. 5 : i # j /\ sda_line[i] /\ sda_line[j]

----------------------------------------------------------------------------
(* Phases.                                                                 *)

(* Faulty variant: the bit cell does not wait for SCL. *)
HighPhasesOfFrame == {"S_START_1", "S_RESTART", "S_STOP_1", "S_STOP_2"}

HighPhases == {"S_START_1", "S_RESTART", "S_STOP_1", "S_STOP_2", "S_DATA_2", "S_DATA_3"}

high_phase_ready == state_reg \in HighPhases => scl_high_qual

half_cnt == (2 * divisor_reg) % (2 ^ DIVISOR_W)

phase_end ==
  /\ \/ state_reg \in HalfPhases /\ tick_cnt_reg = half_cnt
     \/ state_reg \in QuarterPhases /\ tick_cnt_reg = divisor_reg
  /\ high_phase_ready

waiting_for_high_phase == ~high_phase_ready

(* Faulty variant: no watchdog. *)
scl_high_timeout_never == FALSE

scl_high_timeout_event ==
  waiting_for_high_phase /\ high_wait_cnt_reg = HIGH_WAIT_TIMEOUT_CLKS

protocol_fault_event ==
  state_reg = "S_DATA_3" /\ scl_high_qual /\ sda_filt # sda_filt_prev_reg

(* Faulty variant: also when there is nothing to abort. *)
abort_fire_always(abort) ==
  abort \/ protocol_fault_event \/ scl_high_timeout_event

abort_fire(abort) ==
  (abort \/ protocol_fault_event \/ scl_high_timeout_event) /\ state_reg # "S_IDLE"

(* The phase a command starts with, or none where it is illegal.           *)
FirstPhase(cmd) ==
  IF state_reg = "S_IDLE" /\ cmd = "START" THEN "S_START_1"
  ELSE IF state_reg = "S_HOLD" /\ cmd \in {"WR", "RD"} THEN "S_DATA_1"
  ELSE IF state_reg = "S_HOLD" /\ cmd = "STOP" THEN "S_STOP_1"
  ELSE IF state_reg = "S_HOLD" /\ cmd = "RESTART" THEN "S_RESTART"
  ELSE "none"

cmd_fire(cmd) == FirstPhase(cmd) # "none"

last_bit == bit_idx_reg = BYTE_W

(* The order of the phases. *)
Following ==
  { <<"S_START_1", "S_START_2">>, <<"S_START_2", "S_HOLD">>,
    <<"S_RESTART", "S_START_1">>,
    <<"S_STOP_1", "S_STOP_2">>, <<"S_STOP_2", "S_IDLE">>,
    <<"S_DATA_1", "S_DATA_2">>, <<"S_DATA_2", "S_DATA_3">>,
    <<"S_DATA_3", "S_DATA_4">>,
    <<"S_DATA_4", IF last_bit THEN "S_DATA_END" ELSE "S_DATA_1">>,
    <<"S_DATA_END", "S_HOLD">>,
    <<"S_ABORT_1", "S_ABORT_2">>, <<"S_ABORT_2", "S_IDLE">> }

done_tick == state_reg = "S_DATA_END" /\ phase_end

----------------------------------------------------------------------------
(* One clock.  cmd is launched by the register block, "none" in most       *)
(* clocks, and never together with an abort.                               *)

clamped(d) == IF d < MIN_DIVISOR THEN MIN_DIVISOR ELSE d

Fsm(cmd, abort) ==
  /\ IF abort_fire(abort) THEN state_reg' = "S_ABORT_1"
     ELSE IF cmd_fire(cmd) THEN state_reg' = FirstPhase(cmd)
     ELSE IF phase_end
     THEN \E step \in Following : state_reg = step[1] /\ state_reg' = step[2]
     ELSE UNCHANGED state_reg
  /\ tick_cnt_reg' = IF cmd_fire(cmd) \/ abort_fire(abort) \/ phase_end THEN 0
                     ELSE (tick_cnt_reg + 1) % (2 ^ DIVISOR_W)
  /\ cmd_reg' = IF cmd_fire(cmd) THEN cmd ELSE cmd_reg
  /\ IF state_reg = "S_IDLE" /\ cmd_fire(cmd)
     THEN \E d \in Divisors : divisor_reg' = clamped(d)
     ELSE UNCHANGED divisor_reg

(* What a byte command loads: the byte and a released acknowledge slot, or *)
(* zeros and rd_last.                                                      *)
Loads(cmd) ==
  {bits \in [1 .. Bits -> BOOLEAN] :
     IF cmd = "WR" THEN bits[Bits] ELSE \A i \in 1 .. BYTE_W : ~bits[i]}

(* Faulty variant: the last bit first. *)
ShiftedBack(bits, bit) == <<bit>> \o SubSeq(bits, 1, Bits - 1)

Shifted(bits, bit) == Append(Tail(bits), bit)

ByteRegs(cmd) ==
  LET begins   == cmd_fire(cmd) /\ cmd \in {"WR", "RD"}
      sample   == state_reg = "S_DATA_3" /\ phase_end
      bit_done == state_reg = "S_DATA_4" /\ phase_end /\ bit_idx_reg < BYTE_W
  IN  /\ bit_idx_reg' = IF begins THEN 0
                        ELSE IF bit_done THEN bit_idx_reg + 1 ELSE bit_idx_reg
      /\ IF begins THEN tx_reg' \in Loads(cmd)
         ELSE tx_reg' = IF bit_done THEN Shifted(tx_reg, FALSE) ELSE tx_reg
      /\ rx_reg' = IF begins THEN Zeros
                   ELSE IF sample THEN Shifted(rx_reg, sda_filt) ELSE rx_reg

SdaLowStates ==
  {"S_START_1", "S_START_2", "S_HOLD", "S_DATA_END", "S_STOP_1", "S_ABORT_1"}

(* Faulty variant: SCL stays high to the end of the bit. *)
SclLowStatesLate ==
  {"S_START_2", "S_HOLD", "S_DATA_1", "S_DATA_END", "S_ABORT_1"}

SclLowStates ==
  {"S_START_2", "S_HOLD", "S_DATA_1", "S_DATA_4", "S_DATA_END", "S_ABORT_1"}

Outputs ==
  /\ sda_out_reg' = IF state_reg \in DataPhases THEN tx_reg[1]
                    ELSE state_reg \notin SdaLowStates
  /\ scl_out_reg' = (state_reg \notin SclLowStates)

Pushed(line, wire) == [i \in 1 .. 5 |-> IF i = 1 THEN wire ELSE line[i - 1]]

Inputs ==
  /\ scl_line' = Pushed(scl_line, scl)
  /\ sda_line' = Pushed(sda_line, sda)
  /\ sda_filt_prev_reg' = sda_filt

Watchdog(abort) ==
  /\ high_wait_cnt_reg' =
       CASE abort_fire(abort) \/ ~waiting_for_high_phase -> 0
         [] OTHER -> IF high_wait_cnt_reg = HIGH_WAIT_TIMEOUT_CLKS
                     THEN high_wait_cnt_reg ELSE high_wait_cnt_reg + 1

settled == \A i, j \in 1 .. 5 : sda_line[i] = sda_line[j]

InByte == state_reg \in DataPhases \cup {"S_DATA_END"}

(* The device.  It leaves SDA long enough for the line to settle.          *)
Bus ==
  /\ scl_held' \in BOOLEAN /\ sda_dev' \in BOOLEAN
  /\ scl_held' => scl_held \/ (scl_out_reg /\ ~scl_out_reg')
  /\ sda_dev' # sda_dev => settled
  /\ LET disturbs == sda_dev' # sda_dev /\ (scl \/ scl')
     IN  /\ disturbs => ~disturbed
         /\ disturbed' = (InByte' /\ (disturbed \/ disturbs))

History ==
  /\ loaded' = IF ~InByte' THEN Zeros ELSE IF InByte THEN loaded ELSE tx_reg'
  /\ seen' = CASE ~InByte' -> <<>>
               [] InByte' /\ ~scl /\ scl' -> Append(seen, sda')
               [] OTHER -> seen

Clock(cmd, abort) ==
  /\ Fsm(cmd, abort) /\ ByteRegs(cmd) /\ Outputs /\ Inputs /\ Watchdog(abort)
  /\ Bus /\ History

Next ==
  \/ \E cmd \in {"none", "START", "WR", "RD", "STOP", "RESTART"} : Clock(cmd, FALSE)
  \/ Clock("none", TRUE)

Spec == Init /\ [][Next]_vars

FairSpec == Spec /\ WF_vars(Next)

----------------------------------------------------------------------------

(* While SCL is high the master moves SDA only to make a START or a STOP,  *)
(* or when it aborts: never inside a byte, however the released line, the  *)
(* registered outputs and the live receiving flag overlap.                 *)
QuietWhileHigh ==
  [][scl /\ scl' /\ sda_released # sda_released' =>
       \/ state_reg = "S_START_1" /\ ~sda_released'
       \/ state_reg = "S_STOP_2" /\ sda_released'
       \/ state_reg \in {"S_ABORT_1", "S_ABORT_2"} \/ state_reg' = "S_ABORT_1"]_vars

(* A byte that is done was clocked BYTE_W + 1 times, also when the device  *)
(* stretches the clock, and on a quiet bus rx_reg holds what was on the    *)
(* wire at each pulse: the synchronisers and filters keep step with SCL.   *)
(* Nor is stretching the clock ever taken for a fault of SDA.              *)
ByteExact ==
  /\ done_tick => Len(seen) = Bits /\ (~disturbed => rx_reg = seen)
  /\ ~disturbed => ~protocol_fault_event

(* While SCL is high in a bit, SDA carries the bit that was loaded for it, *)
(* or is left to the device where the device answers.                      *)
BitsOnWire ==
  state_reg \in {"S_DATA_2", "S_DATA_3"} /\ scl =>
    sda_released = (receiving \/ loaded[bit_idx_reg + 1])

Phase ==
  IF state_reg = "S_IDLE" THEN "idle"
  ELSE IF state_reg = "S_HOLD" THEN "hold"
  ELSE IF state_reg \in {"S_ABORT_1", "S_ABORT_2"} THEN "abort" ELSE "busy"

(* Every command ends, whatever the device does: the watchdog ends a wait  *)
(* for a device that holds SCL.                                            *)
CommandsEnd == Phase = "busy" ~> Phase # "busy"

Promise == INSTANCE I2cCommands WITH phase <- Phase, running <- cmd_reg

(* The core carries out commands as the register block relies on.          *)
ImplementsCommands == Promise!Commands
=============================================================================
