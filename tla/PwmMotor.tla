------------------------------ MODULE PwmMotor ------------------------------
(***************************************************************************)
(* pwm_subsystem_motor.sv: the shadow and active registers of              *)
(* pwm_regs_common.sv and pwm_regs_hbridge_ext.sv, the counter of          *)
(* pwm_timebase.sv, the comparators of pwm_core_ip.sv and the output of    *)
(* pwm_hbridge_adapter.sv.  A step is one clock, in which the wrapper may  *)
(* make one MMIO request.                                                  *)
(*                                                                         *)
(* Masks are sets of channels.  A write stores any value a register may    *)
(* take, which covers the byte strobes; read data is left out, and a write *)
(* to an unmapped address is an access that only gets a response.          *)
(***************************************************************************)
EXTENDS Integers

CONSTANTS
  Channels,
  DEFAULT_PERIOD_CYCLES,  \* of the core, for an active period of 0
  Periods, Duties,        \* what software writes to PERIOD and DUTY[i]
  BridgeRegs,             \* the H-bridge masks software writes
  APPLY_ON_PERIOD_END,
  PeriodFirst   \* software writes PERIOD before it applies an enable (main.c)

ASSUME PwmAssumption ==
  /\ DEFAULT_PERIOD_CYCLES \in Nat
  /\ Periods \subseteq Nat
  /\ Duties \subseteq Nat
  /\ BridgeRegs \subseteq {"dir", "brake", "coast"}
  /\ APPLY_ON_PERIOD_END \in BOOLEAN
  /\ PeriodFirst \in BOOLEAN

VARIABLES
  shadow, active,        \* pwm_regs_common: CTRL[0], PERIOD, CH_ENABLE, DUTY[]
  hb_shadow, hb_active,  \* pwm_regs_hbridge_ext: the three masks
  apply_pending,
  cnt,                   \* pwm_timebase
  pending_common, common_rsp_valid, ext_rsp_valid,
  applied,               \* history: the registers as the last APPLY found them
  undisturbed,           \* history: and none was written before it committed
  high                   \* history: high clocks of each channel, this period

config == <<shadow, active, hb_shadow, hb_active>>
vars == <<config, apply_pending, cnt, pending_common, common_rsp_valid,
          ext_rsp_valid, applied, undisturbed, high>>

CommonRegs ==
  [enable : BOOLEAN, period : Nat, ch_enable : SUBSET Channels,
   duty : [Channels -> Nat]]

BridgeMasks == [{"dir", "brake", "coast"} -> SUBSET Channels]

TypeOK ==
  /\ shadow \in CommonRegs /\ active \in CommonRegs
  /\ hb_shadow \in BridgeMasks /\ hb_active \in BridgeMasks
  /\ apply_pending \in BOOLEAN /\ cnt \in Nat
  /\ pending_common \in BOOLEAN /\ common_rsp_valid \in BOOLEAN
  /\ ext_rsp_valid \in BOOLEAN
  /\ applied \in CommonRegs \X BridgeMasks /\ undisturbed \in BOOLEAN
  /\ high \in [Channels -> Nat]

ResetCommon ==
  [enable |-> FALSE, period |-> 0, ch_enable |-> {},
   duty |-> [c \in Channels |-> 0]]

ResetMasks == [m \in {"dir", "brake", "coast"} |-> {}]

Init ==
  /\ shadow = ResetCommon /\ active = ResetCommon
  /\ hb_shadow = ResetMasks /\ hb_active = ResetMasks
  /\ apply_pending = FALSE /\ cnt = 0
  /\ pending_common = FALSE /\ common_rsp_valid = FALSE
  /\ ext_rsp_valid = FALSE
  /\ applied = <<ResetCommon, ResetMasks>> /\ undisturbed = TRUE
  /\ high = [c \in Channels |-> 0]

----------------------------------------------------------------------------
(* The core: counter, comparators and bridge outputs.                      *)

Smaller(a, b) == IF a < b THEN a ELSE b

period_cycles_candidate ==
  IF active.period = 0 THEN DEFAULT_PERIOD_CYCLES ELSE active.period

period_cycles_eff ==
  IF period_cycles_candidate < 2 THEN 2 ELSE period_cycles_candidate

(* Faulty variant: off by one at the end of the period. *)
period_end_late == active.enable /\ cnt = period_cycles_eff

period_end == active.enable /\ cnt = period_cycles_eff - 1

duty_eff(c) == Smaller(active.duty[c], period_cycles_eff)

pwm_raw(c) == active.enable /\ c \in active.ch_enable /\ cnt < duty_eff(c)

Timebase ==
  cnt' = IF active.enable /\ cnt < period_cycles_eff - 1 THEN cnt + 1 ELSE 0

bridge(c) ==
  CASE c \in hb_active["brake"] -> [pwm |-> TRUE, in1 |-> TRUE, in2 |-> TRUE]
    [] c \in hb_active["coast"] \ hb_active["brake"] ->
         [pwm |-> TRUE, in1 |-> FALSE, in2 |-> FALSE]
    [] OTHER ->
         [pwm |-> pwm_raw(c), in1 |-> c \in hb_active["dir"],
          in2 |-> c \notin hb_active["dir"]]

----------------------------------------------------------------------------
(* APPLY: at once, or, while the PWM runs, at the end of the period.       *)

safe_to_delay_apply == active.enable /\ active.period # 0

(* Faulty variants: commit at once; commit in the first clock of a period. *)
commit_at_once(apply_pulse) == apply_pulse
commit_at_start(apply_pulse) ==
  (apply_pulse \/ apply_pending) /\ (safe_to_delay_apply => cnt = 0)

apply_commit_now(apply_pulse) ==
  IF APPLY_ON_PERIOD_END
  THEN (apply_pulse \/ apply_pending) /\ (safe_to_delay_apply => period_end)
  ELSE apply_pulse

(* Faulty variants: the extension commits on the APPLY write itself; the   *)
(* duty bank is left out.                                                  *)
CommitBridgeAtOnce(apply_pulse) ==
  LET now == apply_commit_now(apply_pulse)
  IN  /\ active' = IF now THEN shadow ELSE active
      /\ hb_active' = IF apply_pulse THEN hb_shadow ELSE hb_active
      /\ apply_pending' =
           (~now /\ (apply_pending \/ (apply_pulse /\ safe_to_delay_apply)))
CommitWithoutDuty(apply_pulse) ==
  LET now == apply_commit_now(apply_pulse)
  IN  /\ active' = IF now THEN [shadow EXCEPT !.duty = active.duty] ELSE active
      /\ hb_active' = IF now THEN hb_shadow ELSE hb_active
      /\ apply_pending' =
           (~now /\ (apply_pending \/ (apply_pulse /\ safe_to_delay_apply)))

Commit(apply_pulse) ==
  LET now == apply_commit_now(apply_pulse)
  IN  /\ active' = IF now THEN shadow ELSE active
      /\ hb_active' = IF now THEN hb_shadow ELSE hb_active
      /\ apply_pending' =
           (~now /\ (apply_pending \/ (apply_pulse /\ APPLY_ON_PERIOD_END
                                        /\ safe_to_delay_apply)))

History(apply_pulse) ==
  /\ applied' = IF apply_pulse THEN <<shadow, hb_shadow>> ELSE applied
  /\ undisturbed' =
       (apply_pulse \/ (undisturbed
                        /\ (apply_pending => UNCHANGED <<shadow, hb_shadow>>)))
  /\ high' = [c \in Channels |->
                IF cnt' # 0 /\ pwm_raw(c) THEN high[c] + 1
                ELSE IF cnt' # 0 THEN high[c] ELSE 0]

(* What every clock does besides the request it accepts.                   *)
Advance(apply_pulse) == Commit(apply_pulse) /\ Timebase /\ History(apply_pulse)

----------------------------------------------------------------------------
(* The MMIO channel: one request outstanding, answered by the block that   *)
(* owns the address.                                                       *)

idle == ~pending_common /\ ~ext_rsp_valid
common_rsp_fire(rsp_ready) == common_rsp_valid /\ pending_common /\ rsp_ready
common_req_ready(rsp_ready) == ~common_rsp_valid \/ common_rsp_fire(rsp_ready)
to_common(rsp_ready) == idle /\ common_req_ready(rsp_ready)

(* Faulty variant: the extension response waits for a common access. *)
RespondStuck(common_fire, ext_fire, rsp_ready) ==
  /\ common_rsp_valid' =
       (common_fire \/ (common_rsp_valid /\ ~common_rsp_fire(rsp_ready)))
  /\ pending_common' =
       (common_fire
        \/ (pending_common /\ ~(common_rsp_valid /\ rsp_ready)))
  /\ ext_rsp_valid' =
       (ext_fire \/ (ext_rsp_valid /\ ~(rsp_ready /\ pending_common)))

Respond(common_fire, ext_fire, rsp_ready) ==
  /\ common_rsp_valid' =
       (common_fire \/ (common_rsp_valid /\ ~common_rsp_fire(rsp_ready)))
  /\ pending_common' =
       (common_fire
        \/ (pending_common /\ ~(common_rsp_valid /\ rsp_ready)))
  /\ ext_rsp_valid' =
       (ext_fire \/ (ext_rsp_valid /\ ~(rsp_ready /\ ~pending_common)))

NoRequest(rsp_ready) ==
  /\ Respond(FALSE, FALSE, rsp_ready)
  /\ UNCHANGED <<shadow, hb_shadow>>
  /\ Advance(FALSE)

(* A read, or a write to an address nothing decodes.                       *)
Access(rsp_ready) ==
  /\ \/ to_common(rsp_ready) /\ Respond(TRUE, FALSE, rsp_ready)
     \/ idle /\ Respond(FALSE, TRUE, rsp_ready)
  /\ UNCHANGED <<shadow, hb_shadow>>
  /\ Advance(FALSE)

WriteCommon(rsp_ready) ==
  /\ to_common(rsp_ready)
  /\ \/ \E e \in BOOLEAN : shadow' = [shadow EXCEPT !.enable = e]
     \/ \E p \in Periods : shadow' = [shadow EXCEPT !.period = p]
     \/ \E s \in SUBSET Channels : shadow' = [shadow EXCEPT !.ch_enable = s]
     \/ \E c \in Channels, d \in Duties :
          shadow' = [shadow EXCEPT !.duty = [@ EXCEPT ![c] = d]]
  /\ Respond(TRUE, FALSE, rsp_ready)
  /\ UNCHANGED hb_shadow
  /\ Advance(FALSE)

WriteBridge(rsp_ready) ==
  /\ idle
  /\ \E m \in BridgeRegs, s \in SUBSET Channels :
       hb_shadow' = [hb_shadow EXCEPT ![m] = s]
  /\ Respond(FALSE, TRUE, rsp_ready)
  /\ UNCHANGED shadow
  /\ Advance(FALSE)

Apply(rsp_ready) ==
  /\ to_common(rsp_ready)
  /\ PeriodFirst /\ shadow.enable => shadow.period # 0
  /\ Respond(TRUE, FALSE, rsp_ready)
  /\ UNCHANGED <<shadow, hb_shadow>>
  /\ Advance(TRUE)

Clock(rsp_ready) ==
  \/ NoRequest(rsp_ready) \/ Access(rsp_ready)
  \/ WriteCommon(rsp_ready) \/ WriteBridge(rsp_ready) \/ Apply(rsp_ready)

Next == \E rsp_ready \in BOOLEAN : Clock(rsp_ready)

(* The clock runs for ever, and the wrapper eventually takes a response.   *)
Fairness == WF_vars(Next) /\ WF_vars(Clock(TRUE))

Spec == Init /\ [][Next]_vars

FairSpec == Spec /\ Fairness

----------------------------------------------------------------------------

(* The precondition of pwm_compare.sv:7: the counter stays within the      *)
(* period in force, also when a commit has just shortened that period.     *)
CounterInPeriod == cnt < period_cycles_eff

(* A period drives each enabled channel high for exactly its saturated     *)
(* duty, in one configuration from the first clock to the last, however    *)
(* software's writes and APPLYs fall (the glitch-free update of            *)
(* pwm_regs_common.sv:48-49).                                              *)
WholePulses ==
  period_end =>
    \A c \in Channels :
      high[c] + (IF pwm_raw(c) THEN 1 ELSE 0)
        = IF c \in active.ch_enable THEN duty_eff(c) ELSE 0

(* What runs once an APPLY has taken effect is what software had written   *)
(* when it wrote APPLY, common and H-bridge registers together             *)
(* (ENG_NOTEBOOK_PWM.md:1034), if it starts no new update meanwhile.       *)
RunsAsApplied == ~apply_pending /\ undisturbed => <<active, hb_active>> = applied

(* The legs of a bridge switch only between two periods, also when the     *)
(* direction, brake and coast masks were written one by one.               *)
LegsSwitchAtBoundary ==
  [][cnt' # 0 => \A c \in Channels : /\ bridge(c).in1' = bridge(c).in1
                                     /\ bridge(c).in2' = bridge(c).in2]_vars

(* To software this is the PWM of PwmPromise: common and H-bridge          *)
(* registers take effect together, as they are at that moment, only after  *)
(* an APPLY and after every APPLY (the deadlock of                         *)
(* ENG_NOTEBOOK_PWM.md:296 would leave one waiting).                       *)
PWM ==
  INSTANCE PwmPromise WITH
    Registers <- CommonRegs \X BridgeMasks,
    written <- <<shadow, hb_shadow>>,
    running <- <<active, hb_active>>,
    waiting <- apply_pending

ImplementsPromise == PWM!PromiseSpec

(* Every accepted request is answered and the channel is free again.       *)
RequestsAnswered == (pending_common \/ ext_rsp_valid) ~> idle
=============================================================================
