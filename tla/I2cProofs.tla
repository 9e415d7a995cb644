------------------------------ MODULE I2cProofs -----------------------------
(***************************************************************************)
(* The core, for every byte width, divisor and watchdog: it implements the *)
(* promise the register block and the driver rely on, its bytes are on the *)
(* wire and off it bit for bit, and it keeps SDA still while SCL is high.  *)
(*                                                                         *)
(* RegsInv says where the registered outputs and the shift register are,   *)
(* one clock behind the phase; ByteInv relates the wires and the samples   *)
(* behind them to what the byte has shown so far.                          *)
(*                                                                         *)
(* Over the promise, the driver: it leaves the bus released between calls  *)
(* and never writes an illegal command, for buffers of every length; and a *)
(* call reports what the wire carried, for every length whose codes fit    *)
(* the status byte.  IInv says where the core can be at each label;        *)
(* WireInv relates the commands carried out, a history, to the place in    *)
(* the call.                                                               *)
(***************************************************************************)
EXTENDS I2cMaster, I2cDriver, TLAPS

StopPhases == {"S_STOP_1", "S_STOP_2"}
BusyPhases ==
  {"S_START_1", "S_START_2", "S_RESTART", "S_DATA_1", "S_DATA_2", "S_DATA_3",
   "S_DATA_4", "S_DATA_END"}
AbortPhases == {"S_ABORT_1", "S_ABORT_2"}

(* The phases of a STOP are those of the command STOP.                     *)
PhaseOfCommand ==
  /\ state_reg \in ReadyStates \cup StopPhases \cup BusyPhases \cup AbortPhases
  /\ cmd_reg \in {"START", "WR", "RD", "STOP", "RESTART"}
  /\ state_reg \in StopPhases => cmd_reg = "STOP"
  /\ state_reg \in BusyPhases => cmd_reg # "STOP"

(* What one clock does to the phase and the command.                       *)
LEMMA ClockFsm ==
  ASSUME Next
  PROVE  \E given \in {"none", "START", "WR", "RD", "STOP", "RESTART"},
            abort \in BOOLEAN :
           Fsm(given, abort) /\ (abort => given = "none")
  BY DEF Next, Clock

(* Every step is a step of the promise, or none.                           *)
LEMMA StepMaps ==
  ASSUME PhaseOfCommand, [Next]_vars
  PROVE  PhaseOfCommand' /\ [Promise!CommandsNext]_(Promise!commandVars)
<1> USE DEF PhaseOfCommand, ReadyStates, StopPhases, BusyPhases, AbortPhases
<1>1. CASE UNCHANGED vars
  BY <1>1 DEF vars, fsmVars, Promise!commandVars, Phase
<1>2. CASE Next
  <2>1. PICK given \in {"none", "START", "WR", "RD", "STOP", "RESTART"},
             abort \in BOOLEAN : Fsm(given, abort) /\ (abort => given = "none")
    BY <1>2, ClockFsm
  <2>2. CASE abort_fire(abort)
    <3>1. state_reg # "S_IDLE" /\ state_reg' = "S_ABORT_1"
      BY <2>1, <2>2 DEF abort_fire, Fsm
    <3>2. state_reg = "S_HOLD" => abort
      BY <2>2 DEF abort_fire, protocol_fault_event, scl_high_timeout_event,
         waiting_for_high_phase, high_phase_ready, HighPhases
    <3>3. cmd_reg' = cmd_reg
      BY <2>1, <3>1, <3>2 DEF Fsm, cmd_fire, FirstPhase
    <3> QED
      BY <3>1, <3>2, <3>3 DEF Phase, Promise!commandVars, Promise!CommandsNext,
         Promise!Abort
  <2>3. CASE ~abort_fire(abort) /\ cmd_fire(given)
    BY <2>1, <2>3 DEF Fsm, cmd_fire, FirstPhase, Phase, Promise!commandVars,
       Promise!CommandsNext, Promise!Take, Promise!Legal, Promise!AfterStart
  <2>4. CASE ~abort_fire(abort) /\ ~cmd_fire(given) /\ phase_end
    BY <2>1, <2>4 DEF Fsm, phase_end, Following, HalfPhases, QuarterPhases, DataPhases,
       Phase, Promise!commandVars, Promise!CommandsNext, Promise!Finish, Promise!Recover
  <2>5. CASE ~abort_fire(abort) /\ ~cmd_fire(given) /\ ~phase_end
    BY <2>1, <2>5 DEF Fsm, Phase, Promise!commandVars
  <2> QED BY <2>2, <2>3, <2>4, <2>5
<1> QED
  BY <1>1, <1>2

(* The core implements I2cCommands: whatever the bus does, the phases the  *)
(* register block sees are those of the promise.                           *)
THEOREM Implements == Spec => ImplementsCommands
<1>1. Init => PhaseOfCommand /\ Promise!CommandsInit
  BY DEF Init, PhaseOfCommand, ReadyStates, StopPhases, BusyPhases, AbortPhases,
         Promise!CommandsInit, Phase
<1>2. PhaseOfCommand /\ [Next]_vars =>
        PhaseOfCommand' /\ [Promise!CommandsNext]_(Promise!commandVars)
  BY StepMaps
<1> QED
  BY <1>1, <1>2, PTL DEF Spec, ImplementsCommands, Promise!Commands
----------------------------------------------------------------------------
(* The byte on the wire.                                                   *)

BitString == [1 .. Bits -> BOOLEAN]

RegsTyped ==
  /\ state_reg \in ReadyStates \cup HalfPhases \cup QuarterPhases
  /\ divisor_reg # 0
  /\ bit_idx_reg \in 0 .. BYTE_W
  /\ tx_reg \in BitString /\ rx_reg \in BitString
  /\ sda_out_reg \in BOOLEAN /\ scl_out_reg \in BOOLEAN
  /\ loaded \in BitString

(* Where the registered outputs are, one clock behind the phase. *)
OutputInv ==
  /\ state_reg \in {"S_HOLD", "S_DATA_1", "S_DATA_END"} => ~scl_out_reg
  /\ state_reg = "S_DATA_3" => scl_out_reg
  /\ state_reg = "S_DATA_4" /\ tick_cnt_reg # 0 => ~scl_out_reg
  /\ state_reg = "S_IDLE" => sda_out_reg
  /\ state_reg = "S_STOP_1" => ~sda_out_reg
  /\ state_reg = "S_RESTART" /\ scl_out_reg => sda_out_reg
  /\ state_reg \in DataPhases \ {"S_DATA_1"} => sda_out_reg = tx_reg[1]

(* What is left of the byte stands at the front of tx_reg. *)
LoadedInv ==
  state_reg \in DataPhases =>
    \A i \in 1 .. Bits - bit_idx_reg : tx_reg[i] = loaded[bit_idx_reg + i]

RegsInv == RegsTyped /\ OutputInv /\ LoadedInv

LEMMA ShiftedIs ==
  ASSUME NEW f \in BitString, NEW b \in BOOLEAN
  PROVE  /\ Shifted(f, b) \in BitString
         /\ \A i \in 1 .. Bits - 1 : Shifted(f, b)[i] = f[i + 1]
         /\ Shifted(f, b)[Bits] = b
<1>1. Bits \in Nat /\ Bits > 1
  BY I2cAssumption DEF Bits
<1>2. f \in Seq(BOOLEAN) /\ Len(f) = Bits /\ f # <<>>
  BY <1>1 DEF BitString
<1>3. /\ Tail(f) \in Seq(BOOLEAN) /\ Len(Tail(f)) = Bits - 1
      /\ \A i \in 1 .. Bits - 1 : Tail(f)[i] = f[i + 1]
  BY <1>1, <1>2
<1>4. /\ Append(Tail(f), b) \in Seq(BOOLEAN) /\ Len(Append(Tail(f), b)) = Bits
      /\ \A i \in 1 .. Bits - 1 : Append(Tail(f), b)[i] = Tail(f)[i]
      /\ Append(Tail(f), b)[Bits] = b
  BY <1>1, <1>3
<1>5. \A s \in Seq(BOOLEAN) : Len(s) = Bits => s \in [1 .. Bits -> BOOLEAN]
  OBVIOUS
<1> QED
  BY <1>3, <1>4, <1>5 DEF Shifted, BitString

(* How a clock moves a byte along. *)
Begins ==
  /\ state_reg = "S_HOLD" /\ state_reg' = "S_DATA_1"
  /\ bit_idx_reg' = 0 /\ tx_reg' \in BitString /\ rx_reg' = Zeros
  /\ tick_cnt_reg' = 0

Keeps == UNCHANGED <<bit_idx_reg, tx_reg, cmd_reg>>

Stays ==
  /\ state_reg' = state_reg /\ ~phase_end /\ Keeps /\ rx_reg' = rx_reg

Advances ==
  /\ \/ state_reg = "S_DATA_1" /\ state_reg' = "S_DATA_2"
     \/ state_reg = "S_DATA_2" /\ state_reg' = "S_DATA_3"
  /\ phase_end /\ Keeps /\ rx_reg' = rx_reg

SamplesBit ==
  /\ state_reg = "S_DATA_3" /\ state_reg' = "S_DATA_4" /\ phase_end
  /\ tick_cnt_reg' = 0
  /\ Keeps /\ rx_reg' = Shifted(rx_reg, sda_filt)

NextBit ==
  /\ state_reg = "S_DATA_4" /\ state_reg' = "S_DATA_1" /\ phase_end
  /\ tick_cnt_reg' = 0
  /\ bit_idx_reg < BYTE_W /\ bit_idx_reg' = bit_idx_reg + 1
  /\ tx_reg' = Shifted(tx_reg, FALSE) /\ rx_reg' = rx_reg

LastBit ==
  /\ state_reg = "S_DATA_4" /\ state_reg' = "S_DATA_END" /\ phase_end
  /\ bit_idx_reg = BYTE_W /\ Keeps /\ rx_reg' = rx_reg

AllCommands == {"none", "START", "WR", "RD", "STOP", "RESTART"}

LEMMA ByteMoves ==
  ASSUME RegsTyped, NEW given \in AllCommands, NEW abort \in BOOLEAN,
         Clock(given, abort), InByte'
  PROVE  \/ Begins \/ (InByte /\ Stays) \/ Advances \/ SamplesBit \/ NextBit \/ LastBit
<1> USE DEF RegsTyped, ReadyStates, HalfPhases, QuarterPhases, DataPhases, Clock, InByte
<1>1. ~abort_fire(abort)
  BY DEF Fsm
<1>2. CASE cmd_fire(given)
  <2>1. state_reg = "S_HOLD" /\ state_reg' = "S_DATA_1" /\ given \in {"WR", "RD"}
    BY <1>1, <1>2 DEF Fsm, cmd_fire, FirstPhase
  <2> QED
    BY <1>2, <2>1 DEF Fsm, Begins, ByteRegs, Loads, BitString
<1>3. CASE ~cmd_fire(given) /\ phase_end
  <2>1. <<state_reg, state_reg'>> \in
          {<<"S_DATA_1", "S_DATA_2">>, <<"S_DATA_2", "S_DATA_3">>,
           <<"S_DATA_3", "S_DATA_4">>, <<"S_DATA_4", "S_DATA_END">>,
           <<"S_DATA_4", "S_DATA_1">>}
    BY <1>1, <1>3 DEF Fsm, Following, last_bit
  <2>2. /\ tick_cnt_reg' = 0 /\ cmd_reg' = cmd_reg
        /\ state_reg = "S_DATA_4" =>
             (state_reg' = "S_DATA_END" <=> bit_idx_reg = BYTE_W)
    BY <1>1, <1>3, <2>1 DEF Fsm, Following, last_bit
  <2>3. CASE state_reg \in {"S_DATA_1", "S_DATA_2"}
    BY <1>3, <2>1, <2>2, <2>3 DEF ByteRegs, Advances, Keeps
  <2>4. CASE state_reg = "S_DATA_3"
    BY <1>3, <2>1, <2>2, <2>4 DEF ByteRegs, SamplesBit, Keeps
  <2>5. CASE state_reg = "S_DATA_4" /\ bit_idx_reg = BYTE_W
    <3>1. state_reg' = "S_DATA_END" /\ ~(bit_idx_reg < BYTE_W)
      BY <2>2, <2>5, I2cAssumption
    <3> QED
      BY <1>3, <2>2, <2>5, <3>1 DEF ByteRegs, LastBit, Keeps
  <2>6. CASE state_reg = "S_DATA_4" /\ bit_idx_reg # BYTE_W
    <3>1. state_reg' = "S_DATA_1" /\ bit_idx_reg < BYTE_W
      BY <2>1, <2>2, <2>6, I2cAssumption
    <3> QED
      BY <1>3, <2>2, <2>6, <3>1 DEF ByteRegs, NextBit
  <2> QED
    BY <2>1, <2>3, <2>4, <2>5, <2>6
<1>4. CASE ~cmd_fire(given) /\ ~phase_end
  BY <1>1, <1>4 DEF Fsm, ByteRegs, Stays, Keeps
<1> QED
  BY <1>2, <1>3, <1>4

(* What can precede and follow the phases outside a byte. *)
LEMMA PhaseMoves ==
  ASSUME RegsTyped, NEW given \in AllCommands, NEW abort \in BOOLEAN, Fsm(given, abort)
  PROVE  /\ state_reg' \in ReadyStates \cup HalfPhases \cup QuarterPhases
         /\ state_reg' = "S_HOLD" => state_reg \in {"S_START_2", "S_DATA_END", "S_HOLD"}
         /\ state_reg' = "S_IDLE" => state_reg \in {"S_STOP_2", "S_ABORT_2", "S_IDLE"}
         /\ state_reg' = "S_STOP_1" => state_reg \in {"S_HOLD", "S_STOP_1"}
         /\ state_reg' = "S_RESTART" => state_reg \in {"S_HOLD", "S_RESTART"}
         /\ state_reg = "S_IDLE" => state_reg' \in {"S_IDLE", "S_START_1", "S_ABORT_1"}
         /\ state_reg = "S_START_1" => state_reg' \in {"S_START_1", "S_START_2", "S_ABORT_1"}
         /\ state_reg = "S_RESTART" => state_reg' \in {"S_RESTART", "S_START_1", "S_ABORT_1"}
         /\ state_reg = "S_STOP_1" => state_reg' \in {"S_STOP_1", "S_STOP_2", "S_ABORT_1"}
         /\ state_reg = "S_STOP_2" => state_reg' \in {"S_STOP_2", "S_IDLE", "S_ABORT_1"}
         /\ state_reg = "S_DATA_2" => state_reg' \in {"S_DATA_2", "S_DATA_3", "S_ABORT_1"}
         /\ state_reg = "S_DATA_3" => state_reg' \in {"S_DATA_3", "S_DATA_4", "S_ABORT_1"}
<1> USE DEF RegsTyped, ReadyStates, HalfPhases, QuarterPhases, DataPhases
<1>1. CASE abort_fire(abort)
  BY <1>1 DEF Fsm, abort_fire
<1>2. CASE ~abort_fire(abort) /\ cmd_fire(given)
  BY <1>2 DEF Fsm, cmd_fire, FirstPhase
<1>3. CASE ~abort_fire(abort) /\ ~cmd_fire(given) /\ phase_end
  BY <1>3 DEF Fsm, Following
<1>4. CASE ~abort_fire(abort) /\ ~cmd_fire(given) /\ ~phase_end
  BY <1>4 DEF Fsm
<1> QED
  BY <1>1, <1>2, <1>3, <1>4

LEMMA TypedKept ==
  ASSUME RegsTyped, NEW given \in AllCommands, NEW abort \in BOOLEAN, Clock(given, abort)
  PROVE  RegsTyped'
<1>1. state_reg' \in ReadyStates \cup HalfPhases \cup QuarterPhases
  BY PhaseMoves DEF Clock
<1>2. divisor_reg' # 0
  BY I2cAssumption DEF Clock, Fsm, clamped, RegsTyped
<1>3. bit_idx_reg' \in 0 .. BYTE_W
  BY I2cAssumption DEF Clock, ByteRegs, RegsTyped
<1>4. tx_reg' \in BitString
  <2>1. \A c : Loads(c) \subseteq BitString
    BY DEF Loads, BitString
  <2> QED
    BY <2>1, ShiftedIs DEF Clock, ByteRegs, RegsTyped
<1>5. rx_reg' \in BitString
  <2>1. Zeros \in BitString
    BY DEF Zeros, BitString
  <2>2. sda_filt \in BOOLEAN
    BY DEF sda_filt
  <2>3. Shifted(rx_reg, sda_filt) \in BitString
    BY <2>2, ShiftedIs DEF RegsTyped
  <2> QED
    BY <2>1, <2>3 DEF Clock, ByteRegs, RegsTyped
<1>6. scl_out_reg' \in BOOLEAN
  BY DEF Clock, Outputs
<1>7. sda_out_reg' \in BOOLEAN
  <2>1. 1 \in 1 .. Bits
    BY I2cAssumption DEF Bits
  <2>2. tx_reg[1] \in BOOLEAN
    BY <2>1 DEF RegsTyped, BitString
  <2> QED
    BY <2>2 DEF Clock, Outputs
<1>8. loaded' \in BitString
  <2>1. Zeros \in BitString
    BY DEF Zeros, BitString
  <2> QED
    BY <1>4, <2>1 DEF Clock, History, RegsTyped
<1> QED
  BY <1>1, <1>2, <1>3, <1>4, <1>5, <1>6, <1>7, <1>8 DEF RegsTyped

LEMMA OutputKept ==
  ASSUME RegsInv, NEW given \in AllCommands, NEW abort \in BOOLEAN, Clock(given, abort)
  PROVE  OutputInv'
<1> USE DEF RegsInv, Clock
<1>1. /\ state_reg' = "S_HOLD" => ~scl_out_reg'
      /\ state_reg' = "S_IDLE" => sda_out_reg'
      /\ state_reg' = "S_STOP_1" => ~sda_out_reg'
      /\ state_reg' = "S_RESTART" /\ scl_out_reg' => sda_out_reg'
  BY PhaseMoves DEF Outputs, SclLowStates, SdaLowStates, DataPhases
<1>2. CASE InByte'
  <2>1. Begins \/ (InByte /\ Stays) \/ Advances \/ SamplesBit \/ NextBit \/ LastBit
    BY <1>2, ByteMoves
  <2>2. CASE Begins \/ NextBit \/ LastBit
    BY <1>1, <2>2 DEF OutputInv, Begins, NextBit, LastBit, Outputs, SclLowStates, DataPhases
  <2>3. CASE Advances \/ SamplesBit
    BY <1>1, <2>3 DEF OutputInv, Advances, SamplesBit, Keeps, Outputs, SclLowStates, DataPhases
  <2>4. CASE InByte /\ Stays
    BY <1>1, <2>4 DEF OutputInv, InByte, Stays, Keeps, Outputs, SclLowStates, DataPhases
  <2> QED
    BY <2>1, <2>2, <2>3, <2>4
<1>3. CASE ~InByte'
  BY <1>1, <1>3 DEF OutputInv, InByte, DataPhases
<1> QED
  BY <1>2, <1>3

LEMMA LoadedKept ==
  ASSUME RegsInv, NEW given \in AllCommands, NEW abort \in BOOLEAN, Clock(given, abort)
  PROVE  LoadedInv'
<1> USE DEF RegsInv, Clock
<1> SUFFICES ASSUME (state_reg \in DataPhases)', NEW i \in 1 .. Bits - bit_idx_reg'
             PROVE  tx_reg'[i] = loaded'[bit_idx_reg' + i]
  BY DEF LoadedInv
<1>0. Bits \in Nat /\ Bits = BYTE_W + 1 /\ bit_idx_reg \in Nat
  BY I2cAssumption DEF Bits, RegsTyped
<1>1. Begins \/ (InByte /\ Stays) \/ Advances \/ SamplesBit \/ NextBit
  BY ByteMoves DEF InByte, LastBit, DataPhases
<1>2. loaded' = IF InByte THEN loaded ELSE tx_reg'
  BY DEF History, InByte
<1>3. CASE Begins
  BY <1>0, <1>2, <1>3 DEF Begins, InByte, DataPhases
<1>4. CASE (InByte /\ Stays) \/ Advances \/ SamplesBit
  <2>1. state_reg \in DataPhases /\ InByte /\ bit_idx_reg' = bit_idx_reg /\ tx_reg' = tx_reg
    BY <1>4 DEF Stays, Advances, SamplesBit, Keeps, InByte, DataPhases
  <2> QED
    BY <1>2, <2>1 DEF LoadedInv
<1>5. CASE NextBit
  <2>1. /\ state_reg \in DataPhases /\ InByte /\ bit_idx_reg' = bit_idx_reg + 1
        /\ tx_reg' = Shifted(tx_reg, FALSE)
    BY <1>5 DEF NextBit, InByte, DataPhases
  <2>2. i \in 1 .. Bits - 1 /\ i + 1 \in 1 .. Bits - bit_idx_reg
    BY <1>0, <2>1
  <2>3. tx_reg'[i] = tx_reg[i + 1]
    BY <2>1, <2>2, ShiftedIs DEF RegsTyped
  <2>4. tx_reg[i + 1] = loaded[bit_idx_reg + (i + 1)]
    BY <2>1, <2>2 DEF LoadedInv
  <2>5. bit_idx_reg + (i + 1) = bit_idx_reg' + i
    BY <1>0, <2>1
  <2> QED
    BY <1>2, <2>1, <2>3, <2>4, <2>5
<1> QED
  BY <1>1, <1>3, <1>4, <1>5

LEMMA RegsInductive == Spec => []RegsInv
<1>1. Init => RegsInv
  BY I2cAssumption DEF Init, RegsInv, RegsTyped, OutputInv, LoadedInv, Zeros, BitString,
     ReadyStates, DataPhases
<1>2. RegsInv /\ [Next]_vars => RegsInv'
  <2> SUFFICES ASSUME RegsInv, [Next]_vars PROVE RegsInv'
    OBVIOUS
  <2>1. CASE UNCHANGED vars
    BY <2>1 DEF vars, fsmVars, lineVars, busVars, RegsInv, RegsTyped, OutputInv, LoadedInv
  <2>2. CASE Next
    <3>1. PICK given \in AllCommands, abort \in BOOLEAN : Clock(given, abort)
      BY <2>2 DEF Next, AllCommands
    <3> QED
      BY <3>1, TypedKept, OutputKept, LoadedKept DEF RegsInv
  <2> QED
    BY <2>1, <2>2
<1> QED
  BY <1>1, <1>2, PTL DEF Spec

(* In a bit, while SCL is high, the wire carries the bit that was loaded   *)
(* for it or is left to the device, for every width of a byte and however  *)
(* the commands and aborts fall.                                           *)
THEOREM OnWire == Spec => []BitsOnWire
<1>1. RegsInv => BitsOnWire
  <2> SUFFICES ASSUME RegsInv, state_reg \in {"S_DATA_2", "S_DATA_3"}
               PROVE  sda_released = (receiving \/ loaded[bit_idx_reg + 1])
    BY DEF BitsOnWire
  <2>1. 1 \in 1 .. Bits - bit_idx_reg /\ bit_idx_reg + 1 \in 1 .. Bits
    BY I2cAssumption DEF RegsInv, RegsTyped, Bits
  <2>2. sda_out_reg = loaded[bit_idx_reg + 1]
    BY <2>1 DEF RegsInv, OutputInv, LoadedInv, DataPhases
  <2> QED
    BY <2>2 DEF sda_released
<1> QED
  BY <1>1, RegsInductive, PTL

(* While SCL is high the master moves SDA only for a START, a STOP or an   *)
(* abort, whatever the divisor, the stretching and the byte.               *)
THEOREM Quiet == Spec => QuietWhileHigh
<1>1. ASSUME RegsInv, [Next]_vars, scl, scl', sda_released # sda_released'
      PROVE  \/ state_reg = "S_START_1" /\ ~sda_released'
             \/ state_reg = "S_STOP_2" /\ sda_released'
             \/ state_reg \in {"S_ABORT_1", "S_ABORT_2"} \/ state_reg' = "S_ABORT_1"
  <2>0. Next
    BY <1>1 DEF vars, fsmVars, lineVars, busVars, sda_released, receiving
  <2>1. PICK given \in AllCommands, abort \in BOOLEAN : Clock(given, abort)
    BY <2>0 DEF Next, AllCommands
  <2>2. scl_out_reg /\ scl_out_reg'
    BY <1>1 DEF scl
  <2>3. state_reg \in {"S_IDLE", "S_START_1", "S_RESTART", "S_STOP_1", "S_STOP_2",
                       "S_DATA_2", "S_DATA_3", "S_ABORT_2"}
    BY <1>1, <2>1, <2>2 DEF Clock, Outputs, SclLowStates, RegsInv, RegsTyped, ReadyStates,
       HalfPhases, QuarterPhases, DataPhases
  <2>4. CASE state_reg \in {"S_IDLE", "S_START_1", "S_RESTART", "S_STOP_1", "S_STOP_2"}
    <3>1. state_reg \notin DataPhases /\ state_reg' \notin DataPhases
      BY <1>1, <2>1, <2>4, PhaseMoves DEF Clock, RegsInv, DataPhases
    <3>2. sda_released = sda_out_reg /\ sda_released' = sda_out_reg'
      BY <1>1, <2>1, <3>1, TypedKept DEF sda_released, receiving, RegsInv, RegsTyped
    <3>3. sda_out_reg' = (state_reg \notin SdaLowStates)
      BY <2>1, <3>1 DEF Clock, Outputs
    <3> QED
      BY <1>1, <2>2, <2>4, <3>2, <3>3 DEF RegsInv, RegsTyped, OutputInv, SdaLowStates
  <2>5. CASE state_reg \in {"S_DATA_2", "S_DATA_3"} /\ state_reg' # "S_ABORT_1"
    <3>1. InByte' /\ (state_reg \in DataPhases)'
      BY <1>1, <2>1, <2>5, PhaseMoves DEF Clock, RegsInv, InByte, DataPhases
    <3>2. Keeps
      BY <1>1, <2>1, <2>5, <3>1, ByteMoves DEF RegsInv, Begins, Stays, Advances, SamplesBit,
         NextBit, LastBit
    <3>3. receiving' = receiving
      BY <2>5, <3>1, <3>2 DEF receiving, Keeps, DataPhases
    <3>4. sda_out_reg' = sda_out_reg
      BY <1>1, <2>1, <2>5 DEF Clock, Outputs, RegsInv, OutputInv, DataPhases
    <3> QED
      BY <1>1, <3>3, <3>4 DEF sda_released
  <2> QED
    BY <2>3, <2>4, <2>5
<1> QED
  BY <1>1, RegsInductive, PTL DEF QuietWhileHigh, Spec

(* SCL as the device and the synchronisers see it. *)
BusTyped ==
  /\ scl_held \in BOOLEAN /\ sda_dev \in BOOLEAN /\ disturbed \in BOOLEAN
  /\ scl_line \in [1 .. 5 -> BOOLEAN] /\ sda_line \in [1 .. 5 -> BOOLEAN]
  /\ sda_filt_prev_reg \in BOOLEAN
  /\ seen \in Seq(BOOLEAN)

(* The low half of a bit is longer than the history of the line can hide:  *)
(* three low samples in a row stand before any high ones of the pulse      *)
(* before, so that a line that has been high for three has been high since *)
(* SCL rose in this bit.                                                   *)
SclInv ==
  /\ state_reg = "S_DATA_1" =>
       ~scl_line[1] /\ (tick_cnt_reg # 0 => ~scl_line[2])
  /\ state_reg = "S_DATA_2" =>
       /\ scl_line[1] => scl
       /\ scl_line[2] => scl_line[1]
       /\ scl_line[3] => scl_line[2]
       /\ scl_line[4] => scl_line[3] \/ (~scl_line[1] /\ ~scl_line[2])
       /\ scl_line[5] => scl_line[4] \/ (~scl_line[2] /\ ~scl_line[3])
  /\ state_reg = "S_DATA_3" => scl /\ \A i \in 1 .. 5 : scl_line[i]

(* One pulse of SCL for each bit. *)
SeenInv ==
  /\ ~InByte => seen = <<>>
  /\ state_reg = "S_DATA_1" => Len(seen) = bit_idx_reg
  /\ state_reg = "S_DATA_2" => Len(seen) = IF scl THEN bit_idx_reg + 1 ELSE bit_idx_reg
  /\ state_reg \in {"S_DATA_3", "S_DATA_4"} => Len(seen) = bit_idx_reg + 1
  /\ state_reg = "S_DATA_END" => Len(seen) = Bits

(* On a quiet bus SDA and its samples since SCL rose are the bit seen then. *)
HighFor(i) == \A j \in 1 .. i : scl_line[j]

SdaInv ==
  /\ sda_line[4] = sda_line[5] => sda_filt_prev_reg = sda_line[4]
  /\ state_reg \in {"S_DATA_2", "S_DATA_3"} /\ ~disturbed /\ scl =>
       /\ sda = seen[bit_idx_reg + 1]
       /\ \A i \in 1 .. 5 : HighFor(i) => sda_line[i] = seen[bit_idx_reg + 1]

(* What was sampled so far is what was seen. *)
Taken(k) == \A j \in 1 .. k : rx_reg[Bits - k + j] = seen[j]

TakenInv ==
  ~disturbed =>
    /\ state_reg \in {"S_DATA_1", "S_DATA_2", "S_DATA_3"} => Taken(bit_idx_reg)
    /\ state_reg = "S_DATA_4" => Taken(bit_idx_reg + 1)
    /\ state_reg = "S_DATA_END" => Taken(Bits)

ByteInv == BusTyped /\ SclInv /\ SeenInv /\ SdaInv /\ TakenInv

LEMMA LinesAre ==
  ASSUME BusTyped, Inputs
  PROVE  /\ scl_line' \in [1 .. 5 -> BOOLEAN] /\ sda_line' \in [1 .. 5 -> BOOLEAN]
         /\ sda_filt_prev_reg' \in BOOLEAN
         /\ scl_line'[1] = scl /\ sda_line'[1] = sda
         /\ scl_line'[2] = scl_line[1] /\ sda_line'[2] = sda_line[1]
         /\ scl_line'[3] = scl_line[2] /\ sda_line'[3] = sda_line[2]
         /\ scl_line'[4] = scl_line[3] /\ sda_line'[4] = sda_line[3]
         /\ scl_line'[5] = scl_line[4] /\ sda_line'[5] = sda_line[4]
<1>1. scl \in BOOLEAN /\ sda \in BOOLEAN /\ sda_filt \in BOOLEAN
  BY DEF scl, sda, sda_filt, sda_released
<1>2. ASSUME NEW line \in [1 .. 5 -> BOOLEAN], NEW level \in BOOLEAN
      PROVE  /\ Pushed(line, level) \in [1 .. 5 -> BOOLEAN]
             /\ Pushed(line, level)[1] = level
             /\ \A i \in 2 .. 5 : Pushed(line, level)[i] = line[i - 1]
  BY DEF Pushed
<1> QED
  BY <1>1, <1>2 DEF Inputs, BusTyped

(* The filter takes the majority of the three oldest samples. *)
LEMMA MajorityIs ==
  ASSUME BusTyped
  PROVE  /\ sda_line[3] = sda_line[4] => sda_filt = sda_line[3]
         /\ sda_line[4] = sda_line[5] => sda_filt = sda_line[4]
<1>1. \A i \in 3 .. 5 : i = 3 \/ i = 4 \/ i = 5
  OBVIOUS
<1>2. /\ sda_line[3] \in BOOLEAN /\ sda_line[4] \in BOOLEAN /\ sda_line[5] \in BOOLEAN
      /\ 3 \in 3 .. 5 /\ 4 \in 3 .. 5 /\ 5 \in 3 .. 5
      /\ 3 # 4 /\ 4 # 5 /\ 3 # 5
  BY DEF BusTyped
<1>3. CASE sda_line[4]
  <2>1. /\ sda_line[3] => sda_filt
        /\ sda_line[5] => sda_filt
    BY <1>2, <1>3 DEF sda_filt
  <2> QED
    BY <1>2, <1>3, <2>1 DEF sda_filt
<1>4. CASE ~sda_line[4]
  <2>1. /\ ~sda_line[3] => ~sda_filt
        /\ ~sda_line[5] => ~sda_filt
    BY <1>1, <1>4 DEF sda_filt
  <2> QED
    BY <1>2, <1>4, <2>1 DEF sda_filt
<1> QED
  BY <1>3, <1>4

LEMMA SeenIs ==
  ASSUME History
  PROVE  /\ ~InByte' => seen' = <<>>
         /\ InByte' /\ ~scl /\ scl' => seen' = Append(seen, sda')
         /\ InByte' /\ (scl \/ ~scl') => seen' = seen
<1>1. CASE ~InByte'
  BY <1>1 DEF History
<1>2. CASE InByte' /\ ~scl /\ scl'
  BY <1>2 DEF History
<1>3. CASE InByte' /\ (scl \/ ~scl')
  BY <1>3 DEF History
<1> QED
  BY <1>1, <1>2, <1>3

LEMMA AppendIs ==
  ASSUME NEW s \in Seq(BOOLEAN), NEW b \in BOOLEAN
  PROVE  /\ Append(s, b) \in Seq(BOOLEAN) /\ Len(Append(s, b)) = Len(s) + 1
         /\ Append(s, b)[Len(s) + 1] = b
         /\ \A i \in 1 .. Len(s) : Append(s, b)[i] = s[i]
         /\ Len(s) \in Nat
  OBVIOUS

LEMMA BusTypedKept ==
  ASSUME BusTyped, NEW given, NEW abort, Clock(given, abort)
  PROVE  BusTyped'
<1>1. scl_held' \in BOOLEAN /\ sda_dev' \in BOOLEAN /\ disturbed' \in BOOLEAN
  BY DEF Clock, Bus
<1>2. seen' \in Seq(BOOLEAN)
  <2>1. sda' \in BOOLEAN
    BY DEF sda, sda_released
  <2>2. <<>> \in Seq(BOOLEAN)
    OBVIOUS
  <2>3. Append(seen, sda') \in Seq(BOOLEAN) /\ seen \in Seq(BOOLEAN)
    BY <2>1, AppendIs DEF BusTyped
  <2> QED
    BY <2>2, <2>3, SeenIs DEF Clock
<1> QED
  BY <1>1, <1>2, LinesAre DEF Clock, BusTyped

(* Only in the high half of a bit does SCL rise, and there it stays high. *)
LEMMA SclMoves ==
  ASSUME RegsInv, ByteInv, NEW given \in AllCommands, NEW abort \in BOOLEAN,
         Clock(given, abort), InByte'
  PROVE  /\ state_reg' # "S_DATA_2" => scl \/ ~scl'
         /\ state_reg' = "S_DATA_1" => ~scl'
         /\ state_reg' = "S_DATA_2" /\ state_reg = "S_DATA_1" => ~scl /\ ~scl'
         /\ state_reg' \in {"S_DATA_2", "S_DATA_3"} /\ scl => scl'
         /\ state_reg = "S_DATA_1" => ~scl
         /\ state_reg = "S_DATA_4" /\ phase_end => ~scl
<1> USE DEF RegsInv, ByteInv, Clock
<1>1. Begins \/ (InByte /\ Stays) \/ Advances \/ SamplesBit \/ NextBit \/ LastBit
  BY ByteMoves
<1>2. scl' => scl_out_reg'
  BY DEF scl
<1>3. scl_out_reg' = (state_reg \notin SclLowStates)
  BY DEF Outputs
<1>4. /\ state_reg = "S_DATA_1" => ~scl
      /\ state_reg = "S_DATA_4" /\ phase_end => ~scl
  BY DEF scl, OutputInv, phase_end, HalfPhases, QuarterPhases, DataPhases, RegsTyped
<1>5. state_reg = "S_DATA_2" /\ phase_end => scl
  BY DEF phase_end, high_phase_ready, HighPhases, scl_high_qual, SclInv
<1>6. state_reg' \in {"S_DATA_2", "S_DATA_3"} /\ scl => scl'
  <2> SUFFICES ASSUME state_reg' \in {"S_DATA_2", "S_DATA_3"}, scl PROVE scl'
    OBVIOUS
  <2>1. state_reg \in {"S_DATA_2", "S_DATA_3"}
    BY <1>1, <1>4 DEF Begins, Stays, Advances, SamplesBit, NextBit, LastBit
  <2>2. scl_out_reg /\ ~scl_held /\ scl_out_reg'
    BY <2>1, <1>3 DEF scl, SclLowStates
  <2> QED
    BY <2>2 DEF scl, Bus
<1>7. state_reg' # "S_DATA_2" => scl \/ ~scl'
  <2>1. CASE state_reg \in SclLowStates
    BY <1>2, <1>3, <2>1
  <2>2. CASE state_reg \notin SclLowStates
    BY <1>1, <1>5, <2>2 DEF Begins, Stays, Advances, SamplesBit, NextBit, LastBit, InByte,
       DataPhases, SclLowStates, SclInv
  <2> QED
    BY <2>1, <2>2
<1>8. /\ state_reg' = "S_DATA_1" => ~scl'
      /\ state_reg' = "S_DATA_2" /\ state_reg = "S_DATA_1" => ~scl'
  BY <1>1, <1>2, <1>3 DEF Begins, Stays, Advances, SamplesBit, NextBit, LastBit, SclLowStates
<1> QED
  BY <1>4, <1>6, <1>7, <1>8

LEMMA SclKept ==
  ASSUME RegsInv, ByteInv, NEW given \in AllCommands, NEW abort \in BOOLEAN,
         Clock(given, abort)
  PROVE  SclInv'
<1> USE DEF RegsInv, ByteInv, Clock
<1>0. CASE ~InByte'
  BY <1>0 DEF SclInv, InByte, DataPhases
<1>1. CASE InByte'
  <2>1. Begins \/ (InByte /\ Stays) \/ Advances \/ SamplesBit \/ NextBit \/ LastBit
    BY <1>1, ByteMoves
  <2>2. CASE state_reg' = "S_DATA_1"
    <3>1. ~scl
      BY <1>1, <2>1, <2>2, SclMoves DEF Begins, Stays, Advances, SamplesBit, NextBit, LastBit,
         OutputInv, scl
    <3>2. tick_cnt_reg' # 0 => state_reg = "S_DATA_1"
      BY <2>1, <2>2 DEF Begins, Stays, Advances, SamplesBit, NextBit, LastBit
    <3> QED
      BY <2>2, <3>1, <3>2, LinesAre DEF SclInv
  <2>3. CASE state_reg' = "S_DATA_2" /\ state_reg = "S_DATA_1"
    <3>1. phase_end
      BY <2>1, <2>3 DEF Begins, Stays, Advances, SamplesBit, NextBit, LastBit
    <3>2. ~scl /\ ~scl_line[1] /\ ~scl_line[2]
      BY <1>1, <2>3, <3>1, SclMoves DEF SclInv, phase_end, HalfPhases, QuarterPhases,
         DataPhases, RegsTyped
    <3> QED
      BY <2>3, <3>2, LinesAre DEF SclInv
  <2>4. CASE state_reg' = "S_DATA_2" /\ state_reg # "S_DATA_1"
    <3>1. state_reg = "S_DATA_2"
      BY <2>1, <2>4 DEF Begins, Stays, Advances, SamplesBit, NextBit, LastBit
    <3>2. scl => scl'
      BY <1>1, <2>4, SclMoves
    <3> QED
      BY <2>4, <3>1, <3>2, LinesAre DEF SclInv
  <2>5. CASE state_reg' = "S_DATA_3"
    <3>1. state_reg = "S_DATA_3" \/ (state_reg = "S_DATA_2" /\ phase_end)
      BY <2>1, <2>5 DEF Begins, Stays, Advances, SamplesBit, NextBit, LastBit
    <3>2. scl /\ \A i \in 1 .. 5 : scl_line[i]
      BY <3>1 DEF SclInv, phase_end, high_phase_ready, HighPhases, scl_high_qual
    <3>3. scl'
      BY <1>1, <2>5, <3>2, SclMoves
    <3>4. \A i \in 1 .. 5 : i = 1 \/ i = 2 \/ i = 3 \/ i = 4 \/ i = 5
      OBVIOUS
    <3>5. \A i \in 1 .. 5 : scl_line'[i]
      <4>0. scl /\ scl_line[1] /\ scl_line[2] /\ scl_line[3] /\ scl_line[4]
        BY <3>2
      <4>1. scl_line'[1] /\ scl_line'[2] /\ scl_line'[3] /\ scl_line'[4] /\ scl_line'[5]
        BY <4>0, LinesAre
      <4> QED
        BY <3>4, <4>1
    <3> QED
      BY <2>5, <3>3, <3>5 DEF SclInv
  <2> QED
    BY <2>2, <2>3, <2>4, <2>5 DEF SclInv
<1> QED
  BY <1>0, <1>1

LEMMA SeenKept ==
  ASSUME RegsInv, ByteInv, NEW given \in AllCommands, NEW abort \in BOOLEAN,
         Clock(given, abort)
  PROVE  SeenInv'
<1> USE DEF RegsInv, ByteInv, Clock
<1>0. CASE ~InByte'
  BY <1>0, SeenIs DEF SeenInv, InByte, DataPhases
<1>1. CASE InByte'
  <2>0. /\ bit_idx_reg \in Nat /\ BYTE_W \in Nat /\ Bits = BYTE_W + 1
        /\ Len(seen) \in Nat /\ Len(<<>>) = 0
    BY I2cAssumption, AppendIs DEF RegsTyped, BusTyped, Bits
  <2>1. Begins \/ (InByte /\ Stays) \/ Advances \/ SamplesBit \/ NextBit \/ LastBit
    BY <1>1, ByteMoves
  <2>2. CASE state_reg' # "S_DATA_2"
    <3>1. seen' = seen
      BY <1>1, <2>2, SclMoves, SeenIs
    <3>2. state_reg = "S_DATA_2" => scl
      BY <2>1, <2>2 DEF Begins, Stays, Advances, SamplesBit, NextBit, LastBit,
         phase_end, high_phase_ready, HighPhases, scl_high_qual, SclInv
    <3>3. CASE Begins
      BY <1>1, <2>0, <3>1, <3>3 DEF Begins, SeenInv, InByte, DataPhases
    <3>4. CASE InByte /\ Stays
      BY <1>1, <2>0, <2>2, <3>1, <3>4 DEF Stays, Keeps, SeenInv
    <3>5. CASE Advances \/ SamplesBit \/ LastBit
      BY <1>1, <2>0, <2>2, <3>1, <3>2, <3>5
         DEF Advances, SamplesBit, LastBit, Keeps, SeenInv
    <3>6. CASE NextBit
      BY <1>1, <2>0, <3>1, <3>6 DEF NextBit, SeenInv
    <3> QED
      BY <2>1, <3>3, <3>4, <3>5, <3>6
  <2>3. CASE state_reg' = "S_DATA_2"
    <3>1. state_reg \in {"S_DATA_1", "S_DATA_2"} /\ bit_idx_reg' = bit_idx_reg
      BY <2>1, <2>3 DEF Begins, Stays, Advances, SamplesBit, NextBit, LastBit, Keeps
    <3>2. sda' \in BOOLEAN
      BY DEF sda, sda_released
    <3>3. Len(seen) = IF scl THEN bit_idx_reg + 1 ELSE bit_idx_reg
      BY <1>1, <2>3, <3>1, SclMoves DEF SeenInv
    <3>4. CASE ~scl /\ scl'
      BY <1>1, <2>0, <2>3, <3>1, <3>2, <3>3, <3>4, SeenIs, AppendIs DEF SeenInv, BusTyped
    <3>5. CASE scl \/ ~scl'
      <4>1. scl' <=> scl
        BY <1>1, <2>3, <3>5, SclMoves
      <4> QED
        BY <1>1, <2>3, <3>1, <3>3, <3>5, <4>1, SeenIs DEF SeenInv
    <3> QED
      BY <3>4, <3>5
  <2> QED
    BY <2>2, <2>3
<1> QED
  BY <1>0, <1>1

(* While SCL is high in a bit and the device lets SDA be, SDA rests. *)
LEMMA SdaRests ==
  ASSUME RegsInv, ByteInv, NEW given \in AllCommands, NEW abort \in BOOLEAN,
         Clock(given, abort), state_reg \in {"S_DATA_2", "S_DATA_3"}, InByte',
         scl, ~disturbed'
  PROVE  sda' = sda
<1> USE DEF RegsInv, ByteInv, Clock
<1>1. Keeps /\ (state_reg \in DataPhases)'
  BY ByteMoves DEF Begins, Stays, Advances, SamplesBit, NextBit, LastBit, DataPhases
<1>2. receiving' = receiving
  BY <1>1 DEF receiving, Keeps, DataPhases
<1>3. sda_out_reg' = sda_out_reg
  BY DEF Outputs, OutputInv, DataPhases
<1>4. sda_dev' = sda_dev
  BY DEF Bus
<1> QED
  BY <1>2, <1>3, <1>4 DEF sda, sda_released

LEMMA SdaKept ==
  ASSUME RegsInv, ByteInv, NEW given \in AllCommands, NEW abort \in BOOLEAN,
         Clock(given, abort)
  PROVE  SdaInv'
<1> USE DEF RegsInv, ByteInv, Clock
<1>1. sda_line'[4] = sda_line'[5] => sda_filt_prev_reg' = sda_line'[4]
  <2>1. sda_filt_prev_reg' = sda_filt
    BY DEF Inputs
  <2>2. sda_line[3] = sda_line[4] => sda_filt = sda_line[3]
    BY MajorityIs
  <2> QED
    BY <2>1, <2>2, LinesAre
<1>2. ASSUME state_reg' \in {"S_DATA_2", "S_DATA_3"}, ~disturbed', scl'
      PROVE  /\ sda' = seen'[bit_idx_reg' + 1]
             /\ \A i \in 1 .. 5 : HighFor(i)' => sda_line'[i] = seen'[bit_idx_reg' + 1]
  <2>0. InByte' /\ InByte /\ ~disturbed /\ bit_idx_reg' = bit_idx_reg
    <3>1. InByte'
      BY <1>2 DEF InByte, DataPhases
    <3> QED
      BY <1>2, <3>1, ByteMoves DEF Begins, Stays, Advances, SamplesBit, NextBit, LastBit,
         Keeps, InByte, DataPhases, Bus
  <2>1. scl_line'[1] = scl /\ sda_line'[1] = sda
    BY LinesAre
  <2>2. CASE ~scl
    <3>1. state_reg' = "S_DATA_2" /\ Len(seen) = bit_idx_reg
      <4>1. state_reg' = "S_DATA_2" /\ state_reg = "S_DATA_2"
        BY <1>2, <2>0, <2>2, SclMoves, ByteMoves DEF Begins, Stays, Advances, SamplesBit,
           NextBit, LastBit, InByte
      <4> QED
        BY <2>2, <4>1 DEF SeenInv
    <3>2. sda' \in BOOLEAN
      BY DEF sda, sda_released
    <3>3. seen'[bit_idx_reg + 1] = sda'
      BY <1>2, <2>0, <2>2, <3>1, <3>2, SeenIs, AppendIs DEF BusTyped
    <3>4. ~scl_line'[1]
      BY <2>1, <2>2
    <3>5. \A i \in 1 .. 5 : ~HighFor(i)'
      BY <3>4 DEF HighFor
    <3> QED
      BY <2>0, <3>3, <3>5
  <2>3. CASE scl
    <3>1. state_reg \in {"S_DATA_2", "S_DATA_3"}
      BY <1>2, <2>0, <2>3, ByteMoves, SclMoves
         DEF Begins, Stays, Advances, SamplesBit, NextBit, LastBit
    <3>2. seen' = seen /\ sda' = sda
      BY <2>0, <1>2, <2>3, <3>1, SeenIs, SdaRests
    <3>3. sda = seen[bit_idx_reg + 1]
      BY <2>0, <2>3, <3>1 DEF SdaInv
    <3>4. ASSUME NEW i \in 1 .. 5, HighFor(i)'
          PROVE  sda_line'[i] = seen[bit_idx_reg + 1]
      <4>1. CASE i = 1
        BY <2>1, <3>3, <4>1
      <4>2. CASE i # 1
        <5>1. i \in 2 .. 5 /\ i - 1 \in 1 .. 5
          BY <4>2
        <5>2. \A j \in 2 .. 5 : /\ scl_line'[j] = scl_line[j - 1]
                                /\ sda_line'[j] = sda_line[j - 1]
          BY DEF Inputs, Pushed
        <5>3. \A j \in 1 .. i - 1 : scl_line[j]
          <6>1. ASSUME NEW j \in 1 .. i - 1 PROVE scl_line[j]
            <7>1. j + 1 \in 2 .. 5 /\ j + 1 \in 1 .. i /\ (j + 1) - 1 = j
              BY <5>1
            <7> QED
              BY <3>4, <5>2, <7>1 DEF HighFor
          <6> QED
            BY <6>1
        <5>4. sda_line[i - 1] = seen[bit_idx_reg + 1]
          BY <2>0, <2>3, <3>1, <5>1, <5>3 DEF SdaInv, HighFor
        <5> QED
          BY <5>1, <5>2, <5>4
      <4> QED
        BY <4>1, <4>2
    <3> QED
      BY <2>0, <3>2, <3>3, <3>4
  <2> QED
    BY <2>2, <2>3
<1> QED
  BY <1>1, <1>2 DEF SdaInv

(* What the filter gives once SCL has been high for three samples. *)
LEMMA FiltIs ==
  ASSUME RegsInv, ByteInv, state_reg = "S_DATA_3", ~disturbed
  PROVE  sda_filt = seen[bit_idx_reg + 1] /\ sda_filt_prev_reg = sda_filt
<1> USE DEF RegsInv, ByteInv
<1>1. \A i \in 1 .. 5 : sda_line[i] = seen[bit_idx_reg + 1]
  BY DEF SclInv, SdaInv, HighFor
<1>2. /\ sda_line[3] = seen[bit_idx_reg + 1] /\ sda_line[4] = seen[bit_idx_reg + 1]
      /\ sda_line[5] = seen[bit_idx_reg + 1]
  BY <1>1
<1>3. sda_filt = seen[bit_idx_reg + 1]
  BY <1>2, MajorityIs
<1> QED
  BY <1>2, <1>3 DEF SdaInv

LEMMA TakenKept ==
  ASSUME RegsInv, ByteInv, NEW given \in AllCommands, NEW abort \in BOOLEAN,
         Clock(given, abort)
  PROVE  TakenInv'
<1> USE DEF RegsInv, ByteInv, Clock
<1> SUFFICES ASSUME InByte', ~disturbed'
             PROVE  /\ state_reg' \in {"S_DATA_1", "S_DATA_2", "S_DATA_3"} =>
                         Taken(bit_idx_reg)'
                    /\ state_reg' = "S_DATA_4" => Taken(bit_idx_reg + 1)'
                    /\ state_reg' = "S_DATA_END" => Taken(Bits)'
  BY DEF TakenInv, InByte, DataPhases
<1>0. /\ bit_idx_reg \in Nat /\ BYTE_W \in Nat /\ Bits = BYTE_W + 1
      /\ bit_idx_reg < Bits /\ Len(seen) \in Nat
  BY I2cAssumption, AppendIs DEF RegsTyped, BusTyped, Bits
<1>1. Begins \/ (InByte /\ Stays) \/ Advances \/ SamplesBit \/ NextBit \/ LastBit
  BY ByteMoves
<1>2. CASE Begins
  BY <1>0, <1>2 DEF Begins, Taken
<1>3. ASSUME InByte PROVE ~disturbed
  BY <1>3 DEF Bus
<1>4. ASSUME InByte PROVE \A j \in 1 .. Len(seen) : seen'[j] = seen[j]
  <2>1. sda' \in BOOLEAN
    BY DEF sda, sda_released
  <2>2. \A j \in 1 .. Len(seen) : Append(seen, sda')[j] = seen[j]
    BY <2>1, AppendIs DEF BusTyped
  <2>3. seen' = seen \/ seen' = Append(seen, sda')
    BY SeenIs
  <2> QED
    BY <2>2, <2>3
<1>5. CASE (InByte /\ Stays) \/ Advances
  <2>1. InByte /\ bit_idx_reg' = bit_idx_reg /\ rx_reg' = rx_reg
    BY <1>5 DEF Stays, Advances, Keeps, InByte, DataPhases
  <2>2. CASE state_reg \in {"S_DATA_1", "S_DATA_2", "S_DATA_3"}
    <3>1. state_reg' \in {"S_DATA_1", "S_DATA_2", "S_DATA_3"}
      BY <1>5, <2>2 DEF Stays, Advances
    <3>2. bit_idx_reg <= Len(seen)
      BY <1>0, <2>2 DEF SeenInv
    <3> QED
      BY <1>0, <1>3, <1>4, <2>1, <2>2, <3>1, <3>2 DEF TakenInv, Taken
  <2>3. CASE state_reg \in {"S_DATA_4", "S_DATA_END"}
    <3>1. state_reg' = state_reg
      BY <1>5, <2>3 DEF Stays, Advances
    <3>2. /\ state_reg = "S_DATA_4" => Len(seen) = bit_idx_reg + 1
          /\ state_reg = "S_DATA_END" => Len(seen) = Bits
      BY DEF SeenInv
    <3> QED
      BY <1>0, <1>3, <1>4, <2>1, <2>3, <3>1, <3>2 DEF TakenInv, Taken
  <2> QED
    BY <2>1, <2>2, <2>3 DEF InByte, DataPhases
<1>6. CASE SamplesBit
  <2>1. /\ InByte /\ bit_idx_reg' = bit_idx_reg /\ Len(seen) = bit_idx_reg + 1
        /\ rx_reg' = Shifted(rx_reg, sda_filt)
    BY <1>6 DEF SamplesBit, Keeps, InByte, DataPhases, SeenInv
  <2>2. sda_filt \in BOOLEAN /\ sda_filt = seen[bit_idx_reg + 1]
    BY <1>3, <1>6, <2>1, FiltIs DEF SamplesBit, sda_filt
  <2>3. Taken(bit_idx_reg)
    BY <1>3, <1>6, <2>1 DEF SamplesBit, TakenInv
  <2>4. ASSUME NEW j \in 1 .. bit_idx_reg + 1
        PROVE  rx_reg'[Bits - (bit_idx_reg + 1) + j] = seen'[j]
    <3>1. seen'[j] = seen[j]
      BY <1>4, <2>1
    <3>2. CASE j = bit_idx_reg + 1
      <4>1. Bits - (bit_idx_reg + 1) + j = Bits
        BY <1>0, <3>2
      <4> QED
        BY <2>1, <2>2, <3>1, <3>2, <4>1, ShiftedIs DEF RegsTyped
    <3>3. CASE j # bit_idx_reg + 1
      <4>1. /\ Bits - (bit_idx_reg + 1) + j \in 1 .. Bits - 1
            /\ (Bits - (bit_idx_reg + 1) + j) + 1 = Bits - bit_idx_reg + j
            /\ j \in 1 .. bit_idx_reg
        BY <1>0, <3>3
      <4>0. \A i \in 1 .. Bits - 1 : rx_reg'[i] = rx_reg[i + 1]
        BY <2>1, <2>2, ShiftedIs DEF RegsTyped
      <4>2. rx_reg'[Bits - (bit_idx_reg + 1) + j] = rx_reg[Bits - bit_idx_reg + j]
        BY <4>0, <4>1
      <4> QED
        BY <2>3, <3>1, <4>1, <4>2 DEF Taken
    <3> QED
      BY <3>2, <3>3
  <2> QED
    BY <1>6, <2>1, <2>4 DEF SamplesBit, Taken
<1>7. CASE NextBit \/ LastBit
  <2>1. /\ InByte /\ state_reg = "S_DATA_4" /\ rx_reg' = rx_reg
        /\ Len(seen) = bit_idx_reg + 1
        /\ state_reg' \in {"S_DATA_1", "S_DATA_END"}
        /\ state_reg' = "S_DATA_1" => bit_idx_reg' = bit_idx_reg + 1
        /\ state_reg' = "S_DATA_END" => bit_idx_reg = BYTE_W
    BY <1>7 DEF NextBit, LastBit, InByte, DataPhases, SeenInv
  <2>2. Taken(bit_idx_reg + 1)
    BY <1>3, <2>1 DEF TakenInv
  <2>3. \A j \in 1 .. bit_idx_reg + 1 : rx_reg'[Bits - (bit_idx_reg + 1) + j] = seen'[j]
    BY <1>4, <2>1, <2>2 DEF Taken
  <2>4. /\ state_reg' = "S_DATA_1" => Taken(bit_idx_reg)'
        /\ state_reg' = "S_DATA_END" => Taken(Bits)'
    BY <1>0, <2>1, <2>3 DEF Taken
  <2> QED
    BY <2>1, <2>4
<1> QED
  BY <1>1, <1>2, <1>5, <1>6, <1>7

LEMMA ByteInductive == Spec => [](RegsInv /\ ByteInv)
<1>1. Init => ByteInv
  <2>1. Init => BusTyped
    <3>1. <<>> \in Seq(BOOLEAN)
      OBVIOUS
    <3> QED
      BY <3>1 DEF Init, BusTyped
  <2>2. Init => SclInv /\ SeenInv /\ SdaInv /\ TakenInv
    BY DEF Init, SclInv, SeenInv, SdaInv, TakenInv, InByte, DataPhases
  <2> QED
    BY <2>1, <2>2 DEF ByteInv
<1>2. RegsInv /\ ByteInv /\ [Next]_vars => ByteInv'
  <2> SUFFICES ASSUME RegsInv, ByteInv, [Next]_vars PROVE ByteInv'
    OBVIOUS
  <2>1. CASE UNCHANGED vars
    BY <2>1 DEF vars, fsmVars, lineVars, busVars, ByteInv, BusTyped, SclInv, SeenInv,
       SdaInv, TakenInv, InByte, HighFor, Taken, scl, sda, sda_released, receiving
  <2>2. CASE Next
    <3>1. PICK given \in AllCommands, abort \in BOOLEAN : Clock(given, abort)
      BY <2>2 DEF Next, AllCommands
    <3>2. BusTyped'
      BY <3>1, BusTypedKept DEF ByteInv
    <3>3. SclInv' /\ SeenInv' /\ SdaInv' /\ TakenInv'
      BY <3>1, SclKept, SeenKept, SdaKept, TakenKept
    <3> QED
      BY <3>2, <3>3 DEF ByteInv
  <2> QED
    BY <2>1, <2>2
<1> QED
  BY <1>1, <1>2, RegsInductive, PTL DEF Spec

(* A byte that is done was clocked once for each bit and for its           *)
(* acknowledge, and on a quiet bus rx_reg holds what was on the wire at    *)
(* each pulse, and nothing is taken for a fault of SDA: for every width,   *)
(* every divisor from 1 up, and however the device stretches the clock.    *)
THEOREM Bytes == Spec => []ByteExact
<1>1. RegsInv /\ ByteInv => ByteExact
  <2> SUFFICES ASSUME RegsInv, ByteInv PROVE ByteExact
    OBVIOUS
  <2> USE DEF RegsInv, ByteInv
  <2>1. ASSUME done_tick PROVE Len(seen) = Bits /\ (~disturbed => rx_reg = seen)
    <3>1. state_reg = "S_DATA_END" /\ Len(seen) = Bits
      BY <2>1 DEF done_tick, SeenInv
    <3>2. ASSUME ~disturbed PROVE rx_reg = seen
      <4>1. Taken(Bits) /\ Bits \in Nat
        BY <3>1, <3>2, I2cAssumption DEF TakenInv, Bits
      <4>2. \A j \in 1 .. Bits : rx_reg[j] = seen[j]
        BY <4>1 DEF Taken
      <4>3. \A s \in Seq(BOOLEAN) : Len(s) = Bits => s \in [1 .. Bits -> BOOLEAN]
        OBVIOUS
      <4>4. seen \in [1 .. Bits -> BOOLEAN] /\ rx_reg \in [1 .. Bits -> BOOLEAN]
        BY <3>1, <4>3 DEF BusTyped, RegsTyped, BitString
      <4>5. /\ rx_reg = [j \in 1 .. Bits |-> rx_reg[j]]
            /\ seen = [j \in 1 .. Bits |-> seen[j]]
        BY <4>4
      <4>6. [j \in 1 .. Bits |-> rx_reg[j]] = [j \in 1 .. Bits |-> seen[j]]
        BY <4>2
      <4> QED
        BY <4>5, <4>6
    <3> QED
      BY <3>1, <3>2
  <2>2. ~disturbed => ~protocol_fault_event
    BY FiltIs DEF protocol_fault_event
  <2> QED
    BY <2>1, <2>2 DEF ByteExact
<1> QED
  BY <1>1, ByteInductive, PTL

----------------------------------------------------------------------------
(* The driver.                                                             *)

Typed ==
  /\ phase \in {"idle", "hold", "busy", "abort"}
  /\ pc \in InitLabels \cup CallLabels \cup {"out", "abort", "recover"}
  /\ call \in Calls \cup {InitCall} /\ at \in 1 .. Length(call)
  /\ gave_up \in BOOLEAN

(* Which call is under way at which label.                                 *)
CallAtLabel ==
  /\ pc \in InitLabels => call = InitCall
  /\ pc \in CallLabels => call \in Calls

(* Where the core can be at a label of force_idle or of the recovery.      *)
CoreInRecovery ==
  /\ pc = "stop" => phase = "hold"
  /\ pc \in {"recover", "forced"} => phase \in {"idle", "abort"}
  /\ pc = "cleanup" => phase = "idle" \/ (phase = "abort" /\ gave_up)

(* Where the core can be at a label of a call.                             *)
CoreInCall ==
  /\ pc = "ready" => phase \in (IF at = 1 THEN {"idle", "abort"} ELSE {"hold"})
  /\ pc \in {"clear", "txdata", "launch"} =>
       phase = (IF at = 1 THEN "idle" ELSE "hold")
  /\ pc = "result" =>
       /\ phase = "busy" => running = cmd
       /\ phase = "hold" => cmd # "STOP"
       /\ "done" \in sticky => phase = "hold"
  /\ pc = "check" => phase = "hold" /\ at # 1 /\ cmd # "STOP"

IInv ==
  /\ Typed /\ CallAtLabel /\ CoreInRecovery /\ CoreInCall
  /\ Released /\ NeverIllegal

----------------------------------------------------------------------------

(* A call begins with its only START and ends with its only STOP.          *)
LEMMA CommandFacts ==
  ASSUME NEW c \in Calls \cup {InitCall}, NEW i \in 1 .. Length(c)
  PROVE  /\ Length(c) \in Nat /\ Length(c) >= 3
         /\ Command(c, i) \in {"START"} \cup AfterStart
         /\ Command(c, i) = "START" <=> i = 1
         /\ Command(c, i) = "STOP" <=> i = Length(c)
<1>1. c.tx \in Nat /\ c.rx \in Nat
  BY DriverAssumption DEF Calls, TxCalls, RxCalls, TxRxCalls, InitCall
<1>2. Length(c) \in Nat /\ Length(c) >= 3
  BY <1>1 DEF Length
<1>3. Restarts(c) => Length(c) = 5 + c.tx + c.rx
  BY <1>1 DEF Length
<1> QED
  BY <1>1, <1>2, <1>3 DEF Command, AfterStart

(* The initial states satisfy the invariant.                               *)
LEMMA InitInv == DriverInit => IInv
<1> SUFFICES ASSUME DriverInit PROVE IInv
  OBVIOUS
<1>1. Length(InitCall) = 3 /\ 1 \in 1 .. 3
  BY DEF Length, Restarts, InitCall
<1>2. Typed
  BY <1>1 DEF DriverInit, Typed, InitLabels
<1> QED
  BY <1>2 DEF DriverInit, IInv, CallAtLabel, CoreInRecovery, CoreInCall, Released,
              NeverIllegal, CallLabels

(* A step of the core keeps the invariant, wherever the driver is.         *)
LEMMA CoreKeeps == ASSUME IInv, CoreStep PROVE IInv'
<1>1. UNCHANGED <<pc, call, at, gave_up>> /\ cmd' = cmd
  BY DEF CoreStep, FinishStep, CallSame, cmd
<1>2. CASE FinishStep
  <2>1. /\ phase = "busy" /\ phase' = (IF running = "STOP" THEN "idle" ELSE "hold")
        /\ running' = running /\ \E ack \in BOOLEAN : sticky' = Latched(ack)
    BY <1>2 DEF FinishStep, Finish, Result
  <2>2. "cmd_illegal" \in sticky' => "cmd_illegal" \in sticky
    BY <2>1 DEF Latched
  <2>3. "done" \in sticky' => "done" \in sticky \/ running \in {"WR", "RD"}
    BY <2>1 DEF Latched
  <2> QED
    BY <1>1, <2>1, <2>2, <2>3
    DEF IInv, Typed, CallAtLabel, CoreInRecovery, CoreInCall, Released, NeverIllegal
<1>3. CASE (Fail \/ Recover) /\ UNCHANGED regVars
  BY <1>1, <1>3
  DEF Fail, Recover, regVars, IInv, Typed, CallAtLabel, CoreInRecovery, CoreInCall,
      Released, NeverIllegal
<1> QED
  BY <1>2, <1>3 DEF CoreStep, regVars

(* A step of i2c_init or of the recovery keeps the invariant.              *)
LEMMA InitKeeps == ASSUME IInv, InitStep PROVE IInv'
<1>1. UNCHANGED <<call, at>>
  BY DEF InitStep, Begin, ForceIdle, ForceStop, Stop, StopWait, Stopped, Forced,
         Cleanup, PollTo, CallSame
<1> USE DEF IInv, Typed, CallAtLabel, CoreInRecovery, CoreInCall, Released, NeverIllegal,
            InitLabels, CallLabels, CoreSame, CallSame, commandVars, regVars
<1>2. CASE Begin
  BY <1>1, <1>2 DEF Begin, ClearStatus
<1>3. CASE ForceIdle
  BY <1>1, <1>3 DEF ForceIdle
<1>4. CASE ForceStop
  BY <1>1, <1>4 DEF ForceStop, ClearStatus
<1>5. CASE Stop
  BY <1>1, <1>5 DEF Stop, Write, Legal, Take, AfterStart
<1>6. CASE StopWait
  BY <1>1, <1>6 DEF StopWait, PollTo
<1>7. CASE Stopped
  BY <1>1, <1>7 DEF Stopped
<1>8. CASE Forced
  BY <1>1, <1>8 DEF Forced, PollTo
<1>9. CASE Cleanup
  BY <1>1, <1>9 DEF Cleanup, ClearStatus
<1> QED
  BY <1>2, <1>3, <1>4, <1>5, <1>6, <1>7, <1>8, <1>9 DEF InitStep

LEMMA RecoveryKeeps == ASSUME IInv, AbortCore \/ RecoverCore PROVE IInv'
<1> USE DEF IInv, Typed, CallAtLabel, CoreInRecovery, CoreInCall, Released, NeverIllegal,
            InitLabels, CallLabels, CoreSame, CallSame, commandVars, regVars
<1>1. CASE AbortCore
  BY <1>1 DEF AbortCore, WriteAbort, Abort, Result, Latched
<1>2. CASE RecoverCore
  BY <1>2 DEF RecoverCore, PollTo
<1> QED
  BY <1>1, <1>2

(* A step of a call keeps the invariant.                                   *)
LEMMA CallKeeps == ASSUME IInv, CallStep PROVE IInv'
<1>1. /\ Length(call) \in Nat /\ Length(call) >= 3 /\ at \in 1 .. Length(call)
      /\ cmd \in {"START"} \cup AfterStart
      /\ cmd = "START" <=> at = 1
      /\ cmd = "STOP" <=> at = Length(call)
  BY CommandFacts DEF IInv, Typed, cmd
<1>2. ASSUME call' = call, at' = at PROVE cmd' = cmd /\ Length(call)' = Length(call)
  BY <1>2 DEF cmd, Length
<1> USE DEF IInv, Typed, CallAtLabel, CoreInRecovery, CoreInCall, Released, NeverIllegal,
            InitLabels, CallLabels, CoreSame, CallSame, commandVars, regVars
<1>3. CASE NewCall
  <2>1. 1 \in 1 .. Length(call')
    BY <1>3, DriverAssumption
    DEF NewCall, Calls, TxCalls, RxCalls, TxRxCalls, Length
  <2> QED BY <1>3, <2>1 DEF NewCall
<1>4. CASE WaitReady
  BY <1>1, <1>2, <1>4 DEF WaitReady, Ready, GiveUp, Fails
<1>5. CASE Clear
  BY <1>1, <1>2, <1>5 DEF Clear, ClearStatus
<1>6. CASE TxData
  BY <1>1, <1>2, <1>6 DEF TxData
<1>7. CASE Launch
  BY <1>1, <1>2, <1>7 DEF Launch, Ready, Write, Legal, Take, AfterStart
<1>8. CASE StartResult
  <2>1. CASE phase = "hold" /\ Advance
    <3>1. at + 1 \in 1 .. Length(call) /\ at + 1 # 1
      BY <1>1, <1>8 DEF StartResult
    <3>2. /\ at' = at + 1 /\ pc' = "ready" /\ Length(call)' = Length(call)
          /\ UNCHANGED <<phase, running, sticky, call, gave_up>>
      BY <2>1 DEF Advance, Length
    <3> QED BY <1>8, <2>1, <3>1, <3>2 DEF StartResult
  <2>2. CASE phase = "idle" /\ Fails(ERR_CMD) /\ UNCHANGED gave_up
    BY <1>1, <1>2, <1>8, <2>2 DEF StartResult, Fails
  <2>3. CASE ~Ready /\ GiveUp
    BY <1>1, <1>2, <1>8, <2>3 DEF StartResult, Ready, GiveUp, Fails
  <2> QED BY <1>8, <2>1, <2>2, <2>3 DEF StartResult
<1>9. CASE ByteResult
  BY <1>1, <1>2, <1>9 DEF ByteResult, GiveUp, Fails
<1>10. CASE CheckWrite \/ CheckRead
  BY <1>1, <1>2, <1>10 DEF CheckWrite, CheckRead, Fails, Advance
<1>11. CASE StopResult
  BY <1>1, <1>2, <1>11 DEF StopResult, GiveUp, Fails
<1> QED
  BY <1>3, <1>4, <1>5, <1>6, <1>7, <1>8, <1>9, <1>10, <1>11 DEF CallStep

LEMMA NextInv == IInv /\ [DriverNext]_driverVars => IInv'
<1>1. ASSUME IInv, UNCHANGED driverVars PROVE IInv'
  BY <1>1 DEF driverVars, commandVars, regVars, IInv, Typed, CallAtLabel, CoreInRecovery,
              CoreInCall, Released, NeverIllegal, cmd
<1> QED
  BY <1>1, CoreKeeps, InitKeeps, RecoveryKeeps, CallKeeps DEF DriverNext, Driver

THEOREM Inductive == DriverSpec => []IInv
  BY InitInv, NextInv, PTL DEF DriverSpec

(* The bus is not owned between calls: every path of force_idle and of the *)
(* calls, whatever fails in it, ends with the core idle or recovering.     *)
THEOREM BusReleased == DriverSpec => []Released
<1>1. IInv => Released
  BY DEF IInv
<1> QED BY <1>1, Inductive, PTL

(* No command is written in a state the core refuses it in.                *)
THEOREM CommandsLegal == DriverSpec => []NeverIllegal
<1>1. IInv => NeverIllegal
  BY DEF IInv
<1> QED BY <1>1, Inductive, PTL
----------------------------------------------------------------------------
(* What the calls have done.  wire holds one entry per command carried out *)
(* since the call began; those of i2c_init are of no interest.             *)

Entry == [cmd : {"START"} \cup AfterStart, ack : BOOLEAN, byte : RxBytes \cup Nat]

WireTyped ==
  /\ running \in {"START"} \cup AfterStart
  /\ txdata \in Nat /\ rxdata \in RxBytes /\ status \in Nat
  /\ wire \in Seq(Entry) /\ buffer \in Seq(RxBytes)

(* The first n commands of the call, and no more, with the right bytes.    *)
Carried(n) ==
  /\ Len(wire) = n
  /\ \A i \in 1 .. n : /\ wire[i].cmd = Command(call, i)
                       /\ wire[i].cmd = "WR" => wire[i].byte = i

Acked(n) == \A i \in 1 .. n : wire[i].ack

(* What the registers say of the command just carried out.                 *)
Latest ==
  /\ cmd # "WR" => wire[at].ack
  /\ cmd = "WR" /\ "ack_valid" \in sticky => (wire[at].ack <=> "ack" \notin sticky)
  /\ cmd = "RD" => wire[at].byte = rxdata

SentInv ==
  /\ pc \in {"ready", "clear", "txdata", "launch"} => Carried(at - 1)
  /\ pc \in CallLabels => Acked(at - 1)
  /\ pc = "result" =>
       IF phase = "hold" THEN Carried(at) /\ Latest
       ELSE \/ Carried(at - 1)
            \/ phase = "idle" /\ cmd = "STOP" /\ Carried(at) /\ Acked(at)
  /\ pc = "check" => Carried(at) /\ Latest
  /\ pc \in {"launch", "result"} /\ cmd = "WR" => txdata = at

(* The reads come last before the STOP, after `first' other commands.      *)
first == Length(call) - call.rx - 1
BytesRead == IF at > first THEN at - 1 - first ELSE 0

BufferInv ==
  pc \in CallLabels =>
    /\ Len(buffer) = BytesRead
    /\ \A k \in 1 .. BytesRead : buffer[k] = wire[first + k].byte

(* A refused byte ends the call: the core carries nothing out after it.    *)
Refused ==
  /\ phase # "busy" /\ Len(wire) = status /\ ~wire[status].ack
  /\ \A i \in 2 .. status - 1 : wire[i].ack

ResultInv ==
  /\ pc \in InitLabels \cup CallLabels \/ call = InitCall => status = OK
  /\ pc \in {"abort", "recover"} /\ call # InitCall => status # OK
  /\ pc \in {"abort", "recover", "out"} /\ status >= ERR_ADDR_NACK => Refused
  /\ OkMeansDone

WireInv == WireTyped /\ SentInv /\ BufferInv /\ ResultInv

LEMMA AppendFacts ==
  ASSUME NEW S, NEW s \in Seq(S), NEW e \in S
  PROVE  /\ Append(s, e) \in Seq(S) /\ Len(Append(s, e)) = Len(s) + 1
         /\ \A i \in 1 .. Len(s) : Append(s, e)[i] = s[i]
         /\ Append(s, e)[Len(s) + 1] = e
OBVIOUS

(* Which commands of a call read a byte.                                   *)
LEMMA ReadFacts ==
  ASSUME Typed
  PROVE  /\ at \in Nat \ {0} /\ first \in Nat /\ call.rx \in Nat
         /\ Length(call) = first + call.rx + 1 /\ at <= Length(call)
         /\ BytesRead \in Nat
         /\ \A k \in 1 .. BytesRead : first + k \in 1 .. at - 1
         /\ cmd = "RD" => at > first /\ at < Length(call)
         /\ cmd # "RD" => at <= first \/ at = Length(call)
<1>1. call.tx \in Nat /\ call.rx \in Nat
  BY DriverAssumption DEF Typed, Calls, TxCalls, RxCalls, TxRxCalls, InitCall
<1>2. Length(call) \in Nat /\ Length(call) >= 3 + call.rx
      /\ at \in 1 .. Length(call)
  BY <1>1 DEF Typed, Length
<1>3. first \in Nat /\ Length(call) = first + call.rx + 1
  BY <1>1, <1>2 DEF first
<1>4. BytesRead = IF at > first THEN at - 1 - first ELSE 0
  BY DEF BytesRead
<1>5. Restarts(call) => 3 + call.tx <= first
  BY <1>1 DEF Length, first
<1>6. /\ cmd = "RD" => at > first /\ at < Length(call)
      /\ cmd # "RD" => at <= first \/ at = Length(call)
  BY <1>1, <1>2, <1>3, <1>5 DEF cmd, Command
<1> QED
  BY <1>1, <1>2, <1>3, <1>4, <1>6

LEMMA InitWire == DriverInit => WireInv
BY DriverAssumption
DEF DriverInit, WireInv, WireTyped, SentInv, BufferInv, ResultInv, OkMeansDone, CallLabels,
    OK, ERR_ADDR_NACK

(* A step that leaves the call, its results and the core alone, but for    *)
(* the end of a recovery.                                                  *)
LEMMA RecoveryWire ==
  ASSUME IInv, WireInv, CoreStep, ~FinishStep
  PROVE  WireInv'
<1>1. /\ UNCHANGED <<running, txdata, rxdata, sticky, wire, pc, call, at, buffer, status,
                     gave_up>>
      /\ \/ phase = "busy" /\ phase' = "abort"
         \/ phase = "abort" /\ phase' = "idle"
  BY DEF CoreStep, Fail, Recover, CallSame, regVars
<1>2. WireTyped' /\ BufferInv'
  BY <1>1 DEF WireInv, WireTyped, BufferInv, BytesRead, first, Length
<1>3. SentInv'
  BY <1>1 DEF WireInv, SentInv, Carried, Acked, Latest, cmd, IInv, CoreInCall
<1>4. ResultInv'
  BY <1>1 DEF WireInv, ResultInv, Refused, OkMeansDone, Length
<1> QED
  BY <1>2, <1>3, <1>4 DEF WireInv

(* A command has been carried out.                                         *)
LEMMA FinishWire ==
  ASSUME IInv, WireInv, FinishStep
  PROVE  WireInv'
<1>1. /\ phase = "busy" /\ phase' = IF running = "STOP" THEN "idle" ELSE "hold"
      /\ UNCHANGED <<running, txdata, pc, call, at, buffer, status, gave_up>>
  BY DEF FinishStep, Finish, CallSame
<1>2. PICK ack \in BOOLEAN, byte \in RxBytes :
        /\ Result(ack, byte)
        /\ wire' = Append(wire, [cmd |-> running, ack |-> ack,
                                 byte |-> IF running = "WR" THEN txdata ELSE byte])
  BY DEF FinishStep
<1> DEFINE e == [cmd |-> running, ack |-> ack,
                 byte |-> IF running = "WR" THEN txdata ELSE byte]
<1>3. e \in Entry /\ wire' = Append(wire, e) /\ wire \in Seq(Entry)
  BY <1>2 DEF WireInv, WireTyped, Entry
<1>4. e.cmd = running /\ e.ack = ack /\ (running = "WR" => e.byte = txdata)
      /\ (running # "WR" => e.byte = byte)
  OBVIOUS
<1> HIDE DEF e
<1>5. /\ wire' \in Seq(Entry) /\ Len(wire') = Len(wire) + 1
      /\ \A i \in 1 .. Len(wire) : wire'[i] = wire[i]
      /\ wire'[Len(wire) + 1] = e /\ Len(wire) \in Nat
  BY <1>3, AppendFacts
<1>6. WireTyped'
  BY <1>1, <1>2, <1>5 DEF WireInv, WireTyped, Result
<1>7. pc \in {"result", "abort"} \cup InitLabels
  BY <1>1 DEF IInv, Typed, CoreInCall, CoreInRecovery, Released, CallLabels
<1>8. CASE pc = "result"
  <2>1. /\ Carried(at - 1) /\ Acked(at - 1) /\ running = cmd
        /\ cmd = "WR" => txdata = at
        /\ at \in Nat \ {0}
    BY <1>1, <1>8, ReadFacts
    DEF WireInv, SentInv, CallLabels, IInv, CoreInCall
  <2>2. wire'[at] = e /\ \A i \in 1 .. at - 1 : wire'[i] = wire[i]
    BY <1>5, <2>1 DEF Carried
  <2>3. Carried(at)' /\ Acked(at - 1)'
    BY <1>1, <1>4, <1>5, <2>1, <2>2 DEF Carried, Acked, cmd
  <2>4. Latest'
    BY <1>1, <1>2, <1>4, <2>1, <2>2 DEF Latest, Result, Latched, cmd
  <2>5. SentInv'
    <3>1. cmd' = cmd /\ (phase' = "hold" \/ (phase' = "idle" /\ cmd = "STOP"))
      BY <1>1, <2>1 DEF cmd
    <3>2. cmd = "STOP" => Acked(at)'
      <4>1. cmd = "STOP" => wire'[at].ack
        BY <1>2, <1>4, <2>1, <2>2 DEF Result
      <4>2. \A i \in 1 .. at - 1 : wire'[i].ack
        BY <1>1, <2>3 DEF Acked
      <4>3. \A i \in 1 .. at : i = at \/ i \in 1 .. at - 1
        BY <2>1
      <4> QED
        BY <1>1, <4>1, <4>2, <4>3 DEF Acked
    <3> QED
      BY <1>1, <1>8, <2>1, <2>3, <2>4, <3>1, <3>2 DEF SentInv
  <2>6. BufferInv'
    <3>1. UNCHANGED <<first, BytesRead>>
      BY <1>1 DEF first, BytesRead, Length
    <3>2. \A k \in 1 .. BytesRead : wire'[first + k] = wire[first + k]
      BY <2>2, ReadFacts DEF IInv
    <3> QED
      BY <1>1, <1>8, <3>1, <3>2 DEF WireInv, BufferInv, CallLabels
  <2>7. ResultInv'
    BY <1>1, <1>8 DEF WireInv, ResultInv, OkMeansDone
  <2> QED
    BY <1>6, <2>5, <2>6, <2>7 DEF WireInv
<1>9. CASE pc \in {"abort"} \cup InitLabels
  BY <1>1, <1>6, <1>9
  DEF WireInv, SentInv, BufferInv, ResultInv, Refused, OkMeansDone, InitLabels,
      CallLabels
<1> QED
  BY <1>7, <1>8, <1>9

(* Nothing is carried out by a step of the driver: the entries stay.       *)
LEMMA SameWire ==
  ASSUME UNCHANGED <<wire, call, at, buffer>>, NEW n
  PROVE  /\ Carried(n)' <=> Carried(n)
         /\ Acked(n)' <=> Acked(n)
         /\ cmd' = cmd /\ first' = first /\ BytesRead' = BytesRead
         /\ Length(call)' = Length(call)
BY DEF Carried, Acked, cmd, first, BytesRead, Length

(* i2c_init and the recovery.                                              *)
LEMMA InitStepWire ==
  ASSUME IInv, WireInv, InitStep
  PROVE  WireInv'
<1>1. /\ UNCHANGED <<wire, call, at, buffer, status, txdata, rxdata>>
      /\ running' = running \/ running' = "STOP"
      /\ pc' \in InitLabels \cup {"abort", "out"} /\ call = InitCall
  BY DEF InitStep, Begin, ForceIdle, ForceStop, Stop, StopWait, Stopped, Forced,
         Cleanup, PollTo, CallSame, CoreSame, ClearStatus, Write, Take, InitLabels,
         commandVars, regVars, IInv, CallAtLabel
<1>2. WireTyped'
  BY <1>1 DEF WireInv, WireTyped, AfterStart
<1>3. pc' \notin CallLabels
  BY <1>1 DEF InitLabels, CallLabels
<1>4. ResultInv'
  BY <1>1, <1>3
  DEF WireInv, ResultInv, OkMeansDone, InitLabels, CallLabels, OK, ERR_ADDR_NACK
<1> QED
  BY <1>2, <1>3, <1>4 DEF WireInv, SentInv, BufferInv, CallLabels

LEMMA RecoverWire ==
  ASSUME IInv, WireInv, AbortCore \/ RecoverCore
  PROVE  WireInv'
<1>1. /\ UNCHANGED <<wire, call, at, buffer, status, txdata, running>>
      /\ rxdata' \in RxBytes
      /\ phase' = "busy" => phase = "busy"
      /\ \/ pc = "abort" /\ pc' = "recover"
         \/ pc = "recover" /\ pc' \in {"forced", "out"}
      /\ pc' = "forced" => call = InitCall
      /\ pc' = "out" => call # InitCall
  BY DEF AbortCore, RecoverCore, WriteAbort, Abort, Result, PollTo, CallSame, CoreSame,
         commandVars, regVars, WireInv, WireTyped
<1>2. WireTyped'
  BY <1>1 DEF WireInv, WireTyped
<1>3. pc' \notin CallLabels
  BY <1>1 DEF CallLabels
<1>4. ResultInv'
  BY <1>1, <1>3
  DEF WireInv, ResultInv, Refused, OkMeansDone, InitLabels
<1> QED
  BY <1>2, <1>3, <1>4 DEF WireInv, SentInv, BufferInv, CallLabels

(* A call fails: it has a code to return, and if that names a byte, the    *)
(* byte was refused.                                                       *)
LEMMA FailsWire ==
  ASSUME IInv, WireInv, NEW code \in Nat \ {OK}, Fails(code), pc \in CallLabels,
         code >= ERR_ADDR_NACK /\ call.op = "tx_buf" =>
           /\ phase = "hold" /\ Len(wire) = code /\ ~wire[code].ack
           /\ \A i \in 2 .. code - 1 : wire[i].ack
  PROVE  WireInv'
<1>1. /\ UNCHANGED <<wire, call, at, buffer, phase, running, txdata, rxdata>>
      /\ status' = (IF call.op = "tx_buf" THEN code ELSE ERR_CMD)
      /\ pc' \in {"out", "abort"} /\ call # InitCall
  BY DEF Fails, CoreSame, commandVars, regVars, IInv, CallAtLabel, Calls, TxCalls,
         RxCalls, TxRxCalls, InitCall
<1>2. WireTyped'
  BY <1>1 DEF WireInv, WireTyped, ERR_CMD
<1>3. pc' \notin CallLabels \cup InitLabels
  BY <1>1 DEF CallLabels, InitLabels
<1>4. ResultInv'
  BY <1>1, <1>3 DEF ResultInv, Refused, OkMeansDone, OK, ERR_CMD, ERR_ADDR_NACK
<1> QED
  BY <1>2, <1>3, <1>4 DEF WireInv, SentInv, BufferInv, CallLabels

LEMMA FailsCmd ==
  ASSUME IInv, WireInv, Fails(ERR_CMD), pc \in CallLabels
  PROVE  WireInv'
<1>1. ERR_CMD \in Nat \ {OK} /\ ~(ERR_CMD >= ERR_ADDR_NACK)
  BY DEF ERR_CMD, OK, ERR_ADDR_NACK
<1> QED
  BY <1>1, FailsWire

(* The steps of a call that succeed.                                       *)
LEMMA NewCallWire == ASSUME WireInv, NewCall PROVE WireInv'
<1>1. /\ pc' = "ready" /\ call' \in Calls /\ at' = 1 /\ buffer' = <<>> /\ wire' = <<>>
      /\ status' = OK /\ UNCHANGED <<running, txdata, rxdata>>
  BY DEF NewCall, commandVars, regVars
<1>2. WireTyped'
  BY <1>1 DEF WireInv, WireTyped, OK
<1>3. Carried(0)' /\ Acked(0)' /\ at' - 1 = 0
  BY <1>1 DEF Carried, Acked
<1>4. SentInv'
  BY <1>1, <1>3 DEF SentInv
<1>5. BytesRead' = 0
  <2>1. call'.tx \in Nat /\ call'.rx \in Nat
    BY <1>1, DriverAssumption DEF Calls, TxCalls, RxCalls, TxRxCalls
  <2> QED
    BY <1>1, <2>1 DEF BytesRead, first, Length
<1>6. BufferInv'
  BY <1>1, <1>5 DEF BufferInv
<1>7. ResultInv'
  BY <1>1 DEF ResultInv, OkMeansDone, Calls, InitCall
<1> QED
  BY <1>2, <1>4, <1>6, <1>7 DEF WireInv

(* From "ready" to the write of the command.                               *)
LEMMA LaunchWire ==
  ASSUME IInv, WireInv,
         Clear \/ TxData \/ (WaitReady /\ pc' = "clear") \/ (Launch /\ pc' = "result")
  PROVE  WireInv'
<1>1. /\ UNCHANGED <<wire, call, at, buffer, status, rxdata>>
      /\ \/ /\ \/ pc = "ready" /\ pc' = "clear"
               \/ pc = "clear" /\ pc' = (IF cmd = "WR" THEN "txdata" ELSE "launch")
            /\ UNCHANGED <<txdata, running>>
         \/ pc = "txdata" /\ pc' = "launch" /\ txdata' = at /\ UNCHANGED running
         \/ pc = "launch" /\ pc' = "result" /\ UNCHANGED txdata
              /\ phase' = "busy" /\ running' = cmd
  <2>1. CASE Clear
    BY <2>1 DEF Clear, CallSame, ClearStatus, commandVars
  <2>2. CASE TxData
    BY <2>2 DEF TxData, CallSame, commandVars
  <2>3. CASE WaitReady /\ pc' = "clear"
    BY <2>3 DEF WaitReady, GiveUp, Fails, CallSame, CoreSame, commandVars, regVars
  <2>4. CASE Launch /\ pc' = "result"
    <3>1. pc = "launch" /\ Write(cmd) /\ CallSame
      BY <2>4 DEF Launch, Fails
    <3>2. Legal(cmd)
      BY <3>1, CommandFacts DEF IInv, Typed, CoreInCall, Legal, cmd
    <3> QED
      BY <2>4, <3>1, <3>2 DEF Write, Take, CallSame
  <2> QED
    BY <2>1, <2>2, <2>3, <2>4
<1>2. pc' = "result" => phase' = "busy" /\ running' = cmd
  BY <1>1
<1>3. /\ running' = running \/ running' = cmd
      /\ txdata' = txdata \/ txdata' = at
  BY <1>1
<1>4. at \in Nat /\ cmd \in {"START"} \cup AfterStart
  BY CommandFacts DEF IInv, Typed, cmd
<1>5. WireTyped'
  BY <1>1, <1>3, <1>4 DEF WireInv, WireTyped
<1>6. /\ Carried(at - 1) /\ Acked(at - 1)
      /\ pc = "launch" /\ cmd = "WR" => txdata = at
  BY <1>1 DEF WireInv, SentInv, CallLabels
<1>7. /\ Carried(at - 1)' /\ Acked(at - 1)' /\ cmd' = cmd
      /\ UNCHANGED <<first, BytesRead>>
  BY <1>1, <1>6 DEF Carried, Acked, cmd, first, BytesRead, Length
<1>8. SentInv'
  BY <1>1, <1>2, <1>6, <1>7 DEF SentInv
<1>9. BufferInv'
  BY <1>1, <1>7 DEF WireInv, BufferInv, CallLabels
<1>10. ResultInv'
  BY <1>1 DEF WireInv, ResultInv, OkMeansDone, CallLabels, InitLabels, Length
<1> QED
  BY <1>5, <1>8, <1>9, <1>10 DEF WireInv

(* On to the next command, the byte read appended if there is one.         *)
LEMMA AdvanceWire ==
  ASSUME IInv, WireInv, Advance, pc \in {"result", "check"}, phase = "hold",
         Carried(at), Acked(at), cmd # "STOP",
         buffer' = IF cmd = "RD" THEN Append(buffer, wire[at].byte) ELSE buffer,
         cmd = "RD" => wire[at].byte \in RxBytes
  PROVE  WireInv'
<1>1. /\ UNCHANGED <<wire, call, status, running, txdata, rxdata, phase>>
      /\ at' = at + 1 /\ pc' = "ready"
  BY DEF Advance, CoreSame, commandVars, regVars
<1>2. at \in Nat \ {0}
  BY ReadFacts DEF IInv
<1>3. Carried(at - 1)' /\ Acked(at - 1)'
  BY <1>1, <1>2 DEF Carried, Acked
<1>4. SentInv'
  BY <1>1, <1>3 DEF SentInv
<1>5. /\ first' = first
      /\ BytesRead' = IF cmd = "RD" THEN BytesRead + 1 ELSE BytesRead
      /\ cmd = "RD" => first + BytesRead + 1 = at
  <2>1. at # Length(call)
    BY CommandFacts DEF IInv, Typed, cmd
  <2> QED
    BY <1>1, <1>2, <2>1, ReadFacts DEF IInv, first, BytesRead, Length
<1>6. /\ Len(buffer) = BytesRead /\ BytesRead \in Nat /\ buffer \in Seq(RxBytes)
      /\ \A k \in 1 .. BytesRead : buffer[k] = wire[first + k].byte
  BY ReadFacts DEF WireInv, WireTyped, BufferInv, CallLabels, IInv
<1>7. WireTyped' /\ BufferInv'
  <2>1. CASE cmd = "RD"
    <3>1. /\ buffer' \in Seq(RxBytes) /\ Len(buffer') = BytesRead + 1
          /\ \A i \in 1 .. BytesRead : buffer'[i] = buffer[i]
          /\ buffer'[BytesRead + 1] = wire[at].byte
      BY <1>6, <2>1, AppendFacts
    <3>2. \A k \in 1 .. BytesRead + 1 : k = BytesRead + 1 \/ k \in 1 .. BytesRead
      BY <1>6
    <3>3. \A k \in 1 .. BytesRead + 1 : buffer'[k] = wire[first + k].byte
      <4>1. first + (BytesRead + 1) = at
        BY <1>5, <1>6, <2>1, ReadFacts DEF IInv
      <4> QED
        BY <1>6, <3>1, <3>2, <4>1
    <3>4. BufferInv'
      BY <1>1, <1>5, <2>1, <3>1, <3>3 DEF BufferInv
    <3> QED
      BY <1>1, <3>1, <3>4 DEF WireInv, WireTyped
  <2>2. CASE cmd # "RD"
    BY <1>1, <1>5, <1>6, <2>2 DEF WireInv, WireTyped, BufferInv
  <2> QED
    BY <2>1, <2>2
<1>8. ResultInv'
  BY <1>1 DEF WireInv, ResultInv, OkMeansDone, CallLabels, InitLabels
<1> QED
  BY <1>4, <1>7, <1>8 DEF WireInv

(* A code names one byte as long as no buffer is so long that the code     *)
(* wraps: a refused byte at 256 would even be taken for a success.         *)
LEMMA NackCode ==
  ASSUME MaxTx + 2 < StatusValues, Typed, call \in Calls, cmd = "WR"
  PROVE  /\ nack_code(at) \in Nat \ {OK}
         /\ call.op = "tx_buf" => nack_code(at) = at
<1>1. /\ call.tx \in 0 .. MaxTx /\ call.rx \in Nat
      /\ call.op = "tx_buf" => call.rx = 0 /\ ~Restarts(call)
  BY DriverAssumption DEF Calls, TxCalls, RxCalls, TxRxCalls, Restarts
<1>2. at \in Nat /\ at >= 2 /\ at <= Length(call) /\ at # Length(call)
      /\ Length(call) \in Nat
  BY CommandFacts DEF Typed, cmd
<1>3. at <= 2 + call.tx \/ (at = 4 + call.tx /\ Restarts(call))
  BY <1>1, <1>2 DEF cmd, Command, Length
<1>4. CASE at = 2 \/ Command(call, at - 1) = "RESTART"
  <2>1. call.op = "tx_buf" => Command(call, at - 1) # "RESTART"
    BY <1>1 DEF Command
  <2> QED
    BY <1>4, <2>1 DEF nack_code, ERR_ADDR_NACK, OK
<1>5. CASE at # 2 /\ Command(call, at - 1) # "RESTART"
  <2>1. ~(at = 4 + call.tx /\ Restarts(call))
    <3> SUFFICES ASSUME at = 4 + call.tx, Restarts(call)
                 PROVE  Command(call, at - 1) = "RESTART"
      BY <1>5
    <3>1. at - 1 = 3 + call.tx /\ at - 1 # 1 /\ at - 1 # Length(call)
      BY <1>1, <1>2
    <3> QED
      BY <3>1 DEF Command
  <2>2. 3 <= at /\ at < StatusValues
    BY <1>1, <1>2, <1>3, <1>5, <2>1, DriverAssumption
  <2>3. data_nack_flag(at) = at
    BY <1>2, <2>2, DriverAssumption DEF data_nack_flag, DATA_NACK_BASE
  <2> QED
    BY <1>2, <1>5, <2>2, <2>3 DEF nack_code, OK
<1> QED
  BY <1>4, <1>5

(* The ends of a command, as the driver takes them.                        *)
LEMMA ResultWire ==
  ASSUME IInv, WireInv, StartResult \/ ByteResult \/ StopResult
  PROVE  WireInv'
<1>1. pc = "result" /\ pc \in CallLabels /\ at \in Nat \ {0}
  BY ReadFacts DEF StartResult, ByteResult, StopResult, CallLabels, IInv
<1>2. CASE Fails(ERR_CMD)
  BY <1>1, <1>2, FailsCmd
<1>3. CASE StartResult /\ phase = "hold" /\ Advance /\ UNCHANGED buffer
  <2>1. Carried(at) /\ Latest /\ Acked(at - 1)
    BY <1>1, <1>3 DEF WireInv, SentInv
  <2>2. Acked(at)
    <3>1. wire[at].ack
      BY <1>3, <2>1 DEF Latest, StartResult
    <3> QED
      BY <1>1, <2>1, <3>1 DEF Acked
  <2> QED
    BY <1>1, <1>3, <2>1, <2>2, AdvanceWire DEF StartResult
<1>4. CASE ByteResult /\ "done" \in sticky /\ pc' = "check" /\ CoreSame /\ CallSame
  <2>1. phase = "hold"
    BY <1>1, <1>4 DEF IInv, CoreInCall
  <2>2. Carried(at) /\ Latest /\ Acked(at - 1)
    BY <1>1, <2>1 DEF WireInv, SentInv
  <2>3. UNCHANGED <<phase, running, txdata, rxdata, sticky, wire, call, at, buffer,
                    status>>
    BY <1>4 DEF CoreSame, CallSame, commandVars, regVars
  <2>4. Carried(at)' /\ Latest' /\ Acked(at - 1)'
    BY <2>2, <2>3 DEF Carried, Latest, Acked, cmd
  <2>5. UNCHANGED <<first, BytesRead>>
    BY <2>3 DEF first, BytesRead, Length
  <2>6. WireTyped' /\ BufferInv'
    BY <1>1, <1>4, <2>3, <2>5 DEF WireInv, WireTyped, BufferInv
  <2>7. SentInv'
    BY <1>4, <2>4 DEF SentInv
  <2>8. ResultInv'
    BY <1>1, <1>4, <2>3 DEF WireInv, ResultInv, OkMeansDone
  <2> QED
    BY <2>6, <2>7, <2>8 DEF WireInv
<1>5. CASE StopResult /\ phase = "idle" /\ pc' = "out" /\ status' = OK /\ CoreSame
           /\ UNCHANGED <<call, at, buffer, gave_up>>
  <2>1. cmd = "STOP" /\ at = Length(call)
    BY <1>5, CommandFacts DEF StopResult, IInv, Typed, cmd
  <2>2. /\ UNCHANGED <<running, txdata, rxdata, wire, call, at, buffer>>
    BY <1>5 DEF CoreSame, commandVars, regVars
  <2>3. \E n \in {at - 1, at} : Carried(n) /\ Acked(n)
    BY <1>1, <1>5, <2>1 DEF WireInv, SentInv
  <2>4. /\ Len(buffer) = call.rx /\ call.rx \in Nat
        /\ \A k \in 1 .. call.rx : buffer[k] = wire[Length(call) - call.rx - 1 + k].byte
    <3>1. BytesRead = call.rx
      BY <2>1, ReadFacts DEF BytesRead, IInv
    <3> QED
      BY <1>1, <3>1, ReadFacts DEF WireInv, BufferInv, first, IInv
  <2>5. buffer = [k \in 1 .. call.rx |-> wire[Length(call) - call.rx - 1 + k].byte]
    <3>1. buffer \in Seq(RxBytes)
      BY DEF WireInv, WireTyped
    <3> QED
      BY <2>4, <3>1
  <2>6. OkMeansDone'
    <3>1. /\ Len(wire) \in {at - 1, at}
          /\ \A i \in 1 .. Len(wire) :
               /\ wire[i].cmd = Command(call, i) /\ wire[i].ack
               /\ wire[i].cmd = "WR" => wire[i].byte = i
      BY <2>3 DEF Carried, Acked
    <3> QED
      BY <2>1, <2>2, <2>5, <3>1 DEF OkMeansDone
  <2>7. ResultInv'
    BY <1>5, <2>6 DEF ResultInv, OK, ERR_ADDR_NACK
  <2> QED
    BY <1>5, <2>2, <2>7
    DEF WireInv, WireTyped, SentInv, BufferInv, CallLabels, OK
<1> QED
  BY <1>2, <1>3, <1>4, <1>5 DEF StartResult, ByteResult, StopResult, GiveUp

LEMMA CheckWire ==
  ASSUME MaxTx + 2 < StatusValues, IInv, WireInv, CheckWrite \/ CheckRead
  PROVE  WireInv'
<1>1. /\ pc = "check" /\ pc \in CallLabels /\ at \in Nat \ {0} /\ phase = "hold"
      /\ cmd \in {"WR", "RD"} /\ call \in Calls
  BY ReadFacts DEF CheckWrite, CheckRead, CallLabels, IInv, CoreInCall, CallAtLabel
<1>2. Carried(at) /\ Latest /\ Acked(at - 1)
  BY <1>1 DEF WireInv, SentInv
<1>3. CASE Fails(ERR_CMD)
  BY <1>1, <1>3, FailsCmd
<1>4. ASSUME Advance, wire[at].ack,
             buffer' = IF cmd = "RD" THEN Append(buffer, rxdata) ELSE buffer
      PROVE  WireInv'
  <2>1. Acked(at)
    BY <1>1, <1>2, <1>4 DEF Acked
  <2>2. cmd = "RD" => wire[at].byte = rxdata /\ rxdata \in RxBytes
    BY <1>2 DEF Latest, WireInv, WireTyped
  <2> QED
    BY <1>1, <1>2, <1>4, <2>1, <2>2, AdvanceWire
<1>5. CASE CheckWrite
  <2>1. nack_code(at) \in Nat \ {OK} /\ (call.op = "tx_buf" => nack_code(at) = at)
    BY <1>1, <1>5, NackCode DEF CheckWrite, IInv
  <2>2. CASE "ack_valid" \in sticky /\ "ack" \in sticky
    <3>1. Fails(nack_code(at))
      BY <1>5, <2>1, <2>2 DEF CheckWrite
    <3>2. call.op = "tx_buf" =>
            /\ Len(wire) = nack_code(at) /\ ~wire[nack_code(at)].ack
            /\ \A i \in 2 .. nack_code(at) - 1 : wire[i].ack
      BY <1>1, <1>2, <1>5, <2>1, <2>2 DEF CheckWrite, Carried, Latest, Acked
    <3> QED
      BY <1>1, <2>1, <3>1, <3>2, FailsWire
  <2>3. CASE "ack_valid" \in sticky /\ "ack" \notin sticky
    <3>1. Advance /\ UNCHANGED buffer /\ cmd = "WR"
      BY <1>5, <2>3 DEF CheckWrite
    <3> QED
      BY <1>2, <1>4, <2>3, <3>1 DEF Latest
  <2>4. CASE "ack_valid" \notin sticky
    <3>1. Fails(ERR_CMD)
      BY <1>5, <2>4 DEF CheckWrite, ERR_CMD, OK
    <3> QED
      BY <1>3, <3>1
  <2> QED
    BY <2>2, <2>3, <2>4
<1>6. CASE CheckRead
  BY <1>2, <1>3, <1>4, <1>6 DEF CheckRead, Latest
<1> QED
  BY <1>5, <1>6

LEMMA CallWire ==
  ASSUME MaxTx + 2 < StatusValues, IInv, WireInv, CallStep
  PROVE  WireInv'
<1>1. {"ready", "launch"} \subseteq CallLabels
  BY DEF CallLabels
<1>2. CASE WaitReady
  <2>1. CASE Ready
    BY <1>2, <2>1, LaunchWire DEF WaitReady
  <2>2. CASE ~Ready
    <3>1. Fails(ERR_CMD) /\ pc \in CallLabels
      BY <1>1, <1>2, <2>2 DEF WaitReady, GiveUp
    <3> QED
      BY <3>1, FailsCmd
  <2> QED
    BY <2>1, <2>2
<1>3. CASE Launch
  <2>1. CASE Ready
    BY <1>3, <2>1, LaunchWire DEF Launch
  <2>2. CASE ~Ready
    <3>1. Fails(ERR_CMD) /\ pc \in CallLabels
      BY <1>1, <1>3, <2>2 DEF Launch
    <3> QED
      BY <3>1, FailsCmd
  <2> QED
    BY <2>1, <2>2
<1> QED
  BY <1>2, <1>3, NewCallWire, LaunchWire, ResultWire, CheckWire DEF CallStep

LEMMA NextWire ==
  ASSUME MaxTx + 2 < StatusValues, IInv, WireInv, [DriverNext]_driverVars
  PROVE  WireInv'
<1>1. CASE UNCHANGED driverVars
  BY <1>1
  DEF driverVars, commandVars, regVars, WireInv, WireTyped, SentInv, BufferInv, ResultInv,
      Refused, OkMeansDone, Carried, Acked, Latest, first, BytesRead, cmd, Length
<1> QED
  BY <1>1, RecoveryWire, FinishWire, InitStepWire, CallWire, RecoverWire
  DEF DriverNext, CoreStep, Driver

LEMMA WireInductive ==
  MaxTx + 2 < StatusValues => (DriverSpec => [](IInv /\ WireInv))
<1> SUFFICES ASSUME MaxTx + 2 < StatusValues PROVE DriverSpec => [](IInv /\ WireInv)
  OBVIOUS
<1>1. DriverInit => IInv /\ WireInv
  BY InitInv, InitWire
<1>2. IInv /\ WireInv /\ [DriverNext]_driverVars => (IInv /\ WireInv)'
  BY NextInv, NextWire
<1> QED
  BY <1>1, <1>2, PTL DEF DriverSpec

(* A call that reports success sent every byte in order, all acknowledged, *)
(* and read every byte it returns, whatever failed in the calls before it, *)
(* for every length up to the 253 bytes whose codes fit the uint8_t        *)
(* (i2c_regs.c:461).                                                       *)
THEOREM OkIsDone == MaxTx + 2 < StatusValues => (DriverSpec => []OkMeansDone)
<1> SUFFICES ASSUME MaxTx + 2 < StatusValues PROVE DriverSpec => []OkMeansDone
  OBVIOUS
<1>1. WireInv => OkMeansDone
  BY DEF WireInv, ResultInv
<1> QED
  BY <1>1, WireInductive, PTL

(* A NACK code names the byte that was refused, and nothing was sent after *)
(* it, for the same lengths.                                               *)
THEOREM NackTells == MaxTx + 2 < StatusValues => (DriverSpec => []StatusTellsByte)
<1> SUFFICES ASSUME MaxTx + 2 < StatusValues PROVE DriverSpec => []StatusTellsByte
  OBVIOUS
<1>1. WireInv => StatusTellsByte
  BY DEF WireInv, ResultInv, Refused, StatusTellsByte
<1> QED
  BY <1>1, WireInductive, PTL
=============================================================================
