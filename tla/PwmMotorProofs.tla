--------------------------- MODULE PwmMotorProofs ---------------------------
(***************************************************************************)
(* Proofs about PwmMotor, for the deferred mode and a software that writes *)
(* a nonzero PERIOD before it enables the PWM, as main.c does: the counter *)
(* never leaves the period in force, and every period drives each channel  *)
(* for exactly its duty.  For every mode and software, that the steps keep *)
(* the promise of PwmPromise.                                              *)
(***************************************************************************)
EXTENDS PwmMotor, TLAPS

Disciplined == APPLY_ON_PERIOD_END /\ PeriodFirst /\ 0 \notin Periods

(* A running PWM has a period of its own, software can only replace it by  *)
(* another one, and only a running PWM leaves an APPLY pending.            *)
PeriodInv ==
  /\ active.enable => active.period # 0
  /\ active.period # 0 => shadow.period # 0
  /\ apply_pending => safe_to_delay_apply

(* A stopped counter is at 0, a running one within the period.             *)
CounterInv == CounterInPeriod /\ (~active.enable => cnt = 0)

(* So far in this period, a channel was high for the clocks before its     *)
(* duty ran out.                                                           *)
PulseInv ==
  \A c \in Channels :
    high[c] = IF c \in active.ch_enable THEN Smaller(cnt, duty_eff(c)) ELSE 0

IInv == TypeOK /\ PeriodInv /\ CounterInv /\ PulseInv

(* Every step is one Advance; software changes PERIOD only to a value of   *)
(* Periods and applies an enable only with a period.                       *)
StepShape(pulse) ==
  /\ Advance(pulse)
  /\ pulse /\ PeriodFirst /\ shadow.enable => shadow.period # 0
  /\ shadow'.period = shadow.period \/ shadow'.period \in Periods
  /\ pulse => UNCHANGED <<shadow, hb_shadow>>

(* What an undisturbed APPLY asked for is in force, or still waits in the  *)
(* shadow registers.                                                       *)
AppliedInv ==
  /\ apply_pending /\ undisturbed => <<shadow, hb_shadow>> = applied
  /\ ~apply_pending /\ undisturbed => <<active, hb_active>> = applied

----------------------------------------------------------------------------

LEMMA InitIInv == Init => IInv
<1> SUFFICES ASSUME Init PROVE IInv
  OBVIOUS
<1>1. ResetCommon \in CommonRegs /\ ResetMasks \in BridgeMasks
  BY DEF ResetCommon, CommonRegs, ResetMasks, BridgeMasks
<1>2. TypeOK
  BY <1>1 DEF Init, TypeOK
<1>3. PeriodInv
  BY DEF Init, PeriodInv, ResetCommon
<1>4. ~active.enable /\ active.ch_enable = {} /\ active.period = 0
  BY DEF Init, ResetCommon
<1>5. period_cycles_eff >= 2 /\ period_cycles_eff \in Nat
  BY <1>4, PwmAssumption DEF period_cycles_eff, period_cycles_candidate
<1>6. CounterInv
  BY <1>5 DEF Init, CounterInv, CounterInPeriod
<1>7. PulseInv
  BY <1>4 DEF Init, PulseInv
<1> QED
  BY <1>2, <1>3, <1>6, <1>7 DEF IInv

LEMMA EffIsPeriod ==
  ASSUME TypeOK
  PROVE  period_cycles_eff \in Nat /\ period_cycles_eff >= 2
BY PwmAssumption
   DEF TypeOK, CommonRegs, period_cycles_eff, period_cycles_candidate

LEMMA SoftwareTypeOK ==
  ASSUME TypeOK, Next
  PROVE  /\ shadow' \in CommonRegs /\ hb_shadow' \in BridgeMasks
         /\ pending_common' \in BOOLEAN /\ common_rsp_valid' \in BOOLEAN
         /\ ext_rsp_valid' \in BOOLEAN
         /\ \E pulse \in BOOLEAN : StepShape(pulse)
<1>1. PICK rsp_ready \in BOOLEAN : Clock(rsp_ready)
  BY DEF Next
<1>2. CASE NoRequest(rsp_ready) \/ Access(rsp_ready) \/ Apply(rsp_ready)
  <2>1. \E pulse \in BOOLEAN : StepShape(pulse)
    BY <1>2 DEF NoRequest, Access, Apply, StepShape, TypeOK
  <2>2. \E f, g \in BOOLEAN : Respond(f, g, rsp_ready)
    BY <1>2 DEF NoRequest, Access, Apply
  <2> QED
    BY <1>2, <2>1, <2>2
       DEF NoRequest, Access, Apply, Respond, TypeOK
<1>3. CASE WriteBridge(rsp_ready)
  <2>1. StepShape(FALSE)
    BY <1>3 DEF WriteBridge, StepShape
  <2>2. hb_shadow' \in BridgeMasks
    BY <1>3, PwmAssumption DEF WriteBridge, TypeOK, BridgeMasks
  <2> QED
    BY <1>3, <2>1, <2>2 DEF WriteBridge, Respond, TypeOK
<1>4. CASE WriteCommon(rsp_ready)
  <2> DEFINE Good == /\ shadow' \in CommonRegs
                     /\ shadow'.period = shadow.period \/ shadow'.period \in Periods
  <2> shadow \in CommonRegs
    BY DEF TypeOK
  <2>1. ASSUME NEW e \in BOOLEAN, shadow' = [shadow EXCEPT !.enable = e]
        PROVE  Good
    BY <2>1 DEF CommonRegs
  <2>2. ASSUME NEW p \in Periods, shadow' = [shadow EXCEPT !.period = p]
        PROVE  Good
    BY <2>2, PwmAssumption DEF CommonRegs
  <2>3. ASSUME NEW s \in SUBSET Channels, shadow' = [shadow EXCEPT !.ch_enable = s]
        PROVE  Good
    BY <2>3 DEF CommonRegs
  <2>4. ASSUME NEW c \in Channels, NEW d \in Duties,
               shadow' = [shadow EXCEPT !.duty = [@ EXCEPT ![c] = d]]
        PROVE  Good
    BY <2>4, PwmAssumption DEF CommonRegs
  <2>5. Good
    BY <1>4, <2>1, <2>2, <2>3, <2>4 DEF WriteCommon
  <2>6. StepShape(FALSE)
    BY <1>4, <2>5 DEF WriteCommon, StepShape
  <2> QED
    BY <1>4, <2>5, <2>6 DEF WriteCommon, Respond, TypeOK
<1> QED
  BY <1>1, <1>2, <1>3, <1>4 DEF Clock

LEMMA StepTypeOK ==
  ASSUME TypeOK, Next
  PROVE  TypeOK'
<1>1. PICK pulse \in BOOLEAN : StepShape(pulse)
  BY SoftwareTypeOK
<1>2. active' \in CommonRegs /\ hb_active' \in BridgeMasks
  BY <1>1 DEF StepShape, Advance, Commit, TypeOK
<1>3. apply_pending' \in BOOLEAN
  BY <1>1 DEF StepShape, Advance, Commit
<1>4. cnt' \in Nat
  BY <1>1, EffIsPeriod DEF StepShape, Advance, Timebase, TypeOK
<1>5. applied' \in CommonRegs \X BridgeMasks /\ undisturbed' \in BOOLEAN
  BY <1>1 DEF StepShape, Advance, History, TypeOK
<1>6. high' \in [Channels -> Nat]
  BY <1>1 DEF StepShape, Advance, History, TypeOK
<1> QED
  BY <1>2, <1>3, <1>4, <1>5, <1>6, SoftwareTypeOK DEF TypeOK

(* While the PWM runs, the registers in force change only on the clock     *)
(* that restarts the counter.                                              *)
LEMMA CommitRestarts ==
  ASSUME Disciplined, IInv, NEW pulse \in BOOLEAN, StepShape(pulse)
  PROVE  /\ apply_commit_now(pulse) => cnt' = 0
         /\ ~apply_commit_now(pulse) => UNCHANGED <<active, hb_active>>
<1>1. CASE apply_commit_now(pulse) /\ active.enable
  BY <1>1, EffIsPeriod
     DEF IInv, PeriodInv, Disciplined, apply_commit_now, safe_to_delay_apply,
         period_end, StepShape, Advance, Timebase, TypeOK
<1>2. CASE apply_commit_now(pulse) /\ ~active.enable
  BY <1>2 DEF StepShape, Advance, Timebase
<1>3. CASE ~apply_commit_now(pulse)
  BY <1>3 DEF StepShape, Advance, Commit
<1> QED
  BY <1>1, <1>2, <1>3

LEMMA StepPeriodInv ==
  ASSUME Disciplined, IInv, NEW pulse \in BOOLEAN, StepShape(pulse)
  PROVE  PeriodInv'
<1>1. CASE apply_commit_now(pulse)
  <2>1. active' = shadow /\ ~apply_pending'
    BY <1>1 DEF StepShape, Advance, Commit
  <2>2. shadow.enable => shadow.period # 0
    BY <1>1 DEF IInv, PeriodInv, Disciplined, apply_commit_now,
                safe_to_delay_apply, StepShape
  <2>3. shadow.period # 0 => shadow'.period # 0
    BY DEF StepShape, Disciplined
  <2> QED
    BY <2>1, <2>2, <2>3 DEF PeriodInv
<1>2. CASE ~apply_commit_now(pulse)
  <2>1. active' = active
    BY <1>2 DEF StepShape, Advance, Commit
  <2>2. apply_pending' => safe_to_delay_apply
    BY <1>2 DEF StepShape, Advance, Commit, IInv, PeriodInv
  <2>3. shadow.period # 0 => shadow'.period # 0
    BY DEF StepShape, Disciplined
  <2> QED
    BY <2>1, <2>2, <2>3 DEF IInv, PeriodInv, safe_to_delay_apply
<1> QED
  BY <1>1, <1>2

LEMMA StepCounterInv ==
  ASSUME Disciplined, IInv, TypeOK', NEW pulse \in BOOLEAN, StepShape(pulse)
  PROVE  CounterInv'
<1>1. (period_cycles_eff >= 2 /\ period_cycles_eff \in Nat)'
  BY PwmAssumption
     DEF TypeOK, CommonRegs, period_cycles_eff, period_cycles_candidate
<1>2. CASE apply_commit_now(pulse)
  BY <1>1, <1>2, CommitRestarts DEF CounterInv, CounterInPeriod
<1>3. CASE ~apply_commit_now(pulse)
  <2>1. active' = active
    BY <1>3, CommitRestarts
  <2>2. period_cycles_eff' = period_cycles_eff
    BY <2>1 DEF period_cycles_eff, period_cycles_candidate
  <2>3. cnt' = IF active.enable /\ cnt < period_cycles_eff - 1
               THEN cnt + 1 ELSE 0
    BY DEF StepShape, Advance, Timebase
  <2>4. cnt \in Nat
    BY DEF IInv, TypeOK
  <2> QED
    BY <1>1, <2>1, <2>2, <2>3, <2>4 DEF CounterInv, CounterInPeriod
<1> QED
  BY <1>2, <1>3

LEMMA StepPulseInv ==
  ASSUME Disciplined, IInv, TypeOK', NEW pulse \in BOOLEAN, StepShape(pulse)
  PROVE  PulseInv'
<1> SUFFICES ASSUME NEW c \in Channels
             PROVE  high'[c] = IF c \in active'.ch_enable
                               THEN Smaller(cnt', duty_eff(c)') ELSE 0
  BY DEF PulseInv
<1>1. high'[c] = IF cnt' # 0 /\ pwm_raw(c) THEN high[c] + 1
                 ELSE IF cnt' # 0 THEN high[c] ELSE 0
  BY DEF StepShape, Advance, History
<1>2. active.duty[c] \in Nat /\ active'.duty[c] \in Nat /\ high[c] \in Nat
  BY DEF IInv, TypeOK, CommonRegs
<1>3. CASE cnt' = 0
  <2>1. duty_eff(c)' \in Nat
    <3>1. (period_cycles_eff \in Nat)'
      BY PwmAssumption
         DEF TypeOK, CommonRegs, period_cycles_eff, period_cycles_candidate
    <3> QED
      BY <1>2, <3>1 DEF duty_eff, Smaller
  <2> QED
    BY <1>1, <1>3, <2>1 DEF Smaller
<1>4. CASE cnt' # 0
  <2>1. active' = active
    BY <1>4, CommitRestarts
  <2>2. duty_eff(c)' = duty_eff(c)
    BY <2>1 DEF duty_eff, period_cycles_eff, period_cycles_candidate
  <2>3. cnt' = cnt + 1 /\ active.enable
    BY <1>4 DEF StepShape, Advance, Timebase
  <2>4. duty_eff(c) \in Nat /\ cnt \in Nat
    BY <1>2, EffIsPeriod DEF duty_eff, Smaller, IInv, TypeOK
  <2>5. high[c] = IF c \in active.ch_enable THEN Smaller(cnt, duty_eff(c)) ELSE 0
    BY DEF IInv, PulseInv
  <2> QED
    BY <1>1, <1>4, <2>1, <2>2, <2>3, <2>4, <2>5 DEF pwm_raw, Smaller
<1> QED
  BY <1>3, <1>4

LEMMA Inductive ==
  ASSUME Disciplined, IInv, [Next]_vars
  PROVE  IInv'
<1>1. CASE Next
  <2>1. TypeOK'
    BY <1>1, StepTypeOK DEF IInv
  <2>2. PICK pulse \in BOOLEAN : StepShape(pulse)
    BY <1>1, SoftwareTypeOK DEF IInv
  <2>3. PeriodInv'
    BY <2>2, StepPeriodInv
  <2>4. CounterInv'
    BY <2>1, <2>2, StepCounterInv
  <2>5. PulseInv'
    BY <2>1, <2>2, StepPulseInv
  <2> QED
    BY <2>1, <2>3, <2>4, <2>5 DEF IInv
<1>2. CASE UNCHANGED vars
  BY <1>2
     DEF vars, config, IInv, TypeOK, PeriodInv, CounterInv, PulseInv,
         CounterInPeriod, duty_eff, period_cycles_eff,
         period_cycles_candidate, safe_to_delay_apply
<1> QED
  BY <1>1, <1>2

LEMMA PulsesAreWhole ==
  ASSUME IInv
  PROVE  WholePulses
<1> SUFFICES ASSUME period_end, NEW c \in Channels
             PROVE  high[c] + (IF pwm_raw(c) THEN 1 ELSE 0)
                      = IF c \in active.ch_enable THEN duty_eff(c) ELSE 0
  BY DEF WholePulses
<1>1. /\ duty_eff(c) \in Nat /\ duty_eff(c) <= period_cycles_eff
      /\ period_cycles_eff \in Nat
  BY EffIsPeriod DEF duty_eff, Smaller, IInv, TypeOK, CommonRegs
<1>2. cnt = period_cycles_eff - 1 /\ active.enable
  BY DEF period_end
<1>3. high[c] = IF c \in active.ch_enable THEN Smaller(cnt, duty_eff(c)) ELSE 0
  BY DEF IInv, PulseInv
<1> QED
  BY <1>1, <1>2, <1>3 DEF pwm_raw, Smaller

THEOREM Invariant == Disciplined /\ Spec => []IInv
<1> SUFFICES ASSUME Disciplined PROVE Spec => []IInv
  OBVIOUS
<1>1. IInv /\ [Next]_vars => IInv'
  BY Inductive
<1> QED
  BY InitIInv, <1>1, PTL DEF Spec

(* The comparators never see a counter outside the period in force, also   *)
(* when a commit has just shortened it (the precondition of                *)
(* pwm_compare.sv:7): for any periods, whatever software writes meanwhile. *)
THEOREM CounterStays == Disciplined /\ Spec => []CounterInPeriod
<1>1. IInv => CounterInPeriod
  BY DEF IInv, CounterInv
<1> QED
  BY <1>1, Invariant, PTL

(* Of every period the PWM completes, each enabled channel is high for     *)
(* exactly its saturated duty: for any number of channels, periods and     *)
(* duties, and whatever software writes meanwhile.                         *)
THEOREM Whole == Disciplined /\ Spec => [](TypeOK /\ WholePulses)
<1>1. IInv => TypeOK /\ WholePulses
  BY PulsesAreWhole DEF IInv
<1> QED
  BY <1>1, Invariant, PTL

(* The legs of a bridge switch only as the counter restarts.               *)
THEOREM LegsSwitch == Disciplined /\ Spec => LegsSwitchAtBoundary
<1> SUFFICES ASSUME Disciplined
             PROVE  Spec => LegsSwitchAtBoundary
  OBVIOUS
<1>1. IInv /\ [Next]_vars =>
        [cnt' # 0 => \A c \in Channels : /\ bridge(c).in1' = bridge(c).in1
                                         /\ bridge(c).in2' = bridge(c).in2]_vars
  <2> SUFFICES ASSUME IInv, Next, cnt' # 0, NEW c \in Channels
               PROVE  /\ bridge(c).in1' = bridge(c).in1
                      /\ bridge(c).in2' = bridge(c).in2
    OBVIOUS
  <2>1. hb_active' = hb_active
    BY SoftwareTypeOK, CommitRestarts DEF IInv
  <2> QED
    BY <2>1 DEF bridge
<1>2. IInv /\ [Next]_vars => IInv'
  BY Inductive
<1> QED
  BY InitIInv, <1>1, <1>2, PTL DEF Spec, LegsSwitchAtBoundary

LEMMA StepAppliedInv ==
  ASSUME APPLY_ON_PERIOD_END, TypeOK, AppliedInv, [Next]_vars
  PROVE  AppliedInv'
<1>1. CASE UNCHANGED vars
  BY <1>1 DEF vars, config, AppliedInv
<1>2. CASE Next
  <2>1. PICK pulse \in BOOLEAN : StepShape(pulse)
    BY <1>2, SoftwareTypeOK
  <2>2. /\ applied' = IF pulse THEN <<shadow, hb_shadow>> ELSE applied
        /\ undisturbed' => \/ pulse
                           \/ undisturbed /\ ~apply_pending
                           \/ undisturbed /\ UNCHANGED <<shadow, hb_shadow>>
        /\ pulse => UNCHANGED <<shadow, hb_shadow>>
    BY <2>1 DEF StepShape, Advance, History
  <2>3. CASE apply_commit_now(pulse)
    <3>1. ~apply_pending' /\ active' = shadow /\ hb_active' = hb_shadow
      BY <2>1, <2>3 DEF StepShape, Advance, Commit
    <3>2. undisturbed' => <<shadow, hb_shadow>> = applied'
      BY <2>2, <2>3 DEF apply_commit_now, AppliedInv
    <3> QED
      BY <3>1, <3>2 DEF AppliedInv
  <2>4. CASE ~apply_commit_now(pulse)
    <3>1. UNCHANGED <<active, hb_active>>
      BY <2>1, <2>4 DEF StepShape, Advance, Commit
    <3>2. apply_pending' <=> apply_pending \/ pulse
      BY <2>1, <2>4 DEF StepShape, Advance, Commit, apply_commit_now
    <3>3. CASE pulse
      BY <2>2, <3>2, <3>3 DEF AppliedInv
    <3>4. CASE ~pulse /\ apply_pending
      BY <2>2, <3>2, <3>4 DEF AppliedInv
    <3>5. CASE ~pulse /\ ~apply_pending
      BY <2>2, <3>1, <3>2, <3>5 DEF AppliedInv
    <3> QED
      BY <3>3, <3>4, <3>5
  <2> QED
    BY <2>3, <2>4
<1> QED
  BY <1>1, <1>2

(* Once no APPLY is pending, the registers in force, common and H-bridge,  *)
(* are those of the last APPLY, if no register was written while it was    *)
(* pending.                                                                *)
THEOREM AsApplied == APPLY_ON_PERIOD_END /\ Spec => []RunsAsApplied
<1> SUFFICES ASSUME APPLY_ON_PERIOD_END
             PROVE  Spec => []RunsAsApplied
  OBVIOUS
<1>1. Init => TypeOK /\ AppliedInv
  BY InitIInv DEF IInv, Init, AppliedInv
<1>2. TypeOK /\ AppliedInv /\ [Next]_vars => TypeOK' /\ AppliedInv'
  <2>1. ASSUME TypeOK, [Next]_vars PROVE TypeOK'
    BY <2>1, StepTypeOK DEF vars, config, TypeOK
  <2> QED
    BY <2>1, StepAppliedInv
<1>3. AppliedInv => RunsAsApplied
  BY DEF AppliedInv, RunsAsApplied
<1> QED
  BY <1>1, <1>2, <1>3, PTL DEF Spec

LEMMA StepKeepsPromise ==
  ASSUME TypeOK, Next
  PROVE  PWM!PromiseNext
<1>1. PICK pulse \in BOOLEAN : StepShape(pulse)
  BY SoftwareTypeOK
<1>2. PWM!Progress(pulse)
  <2>1. CASE apply_commit_now(pulse)
    <3>1. apply_pending \/ pulse
      BY <2>1 DEF apply_commit_now
    <3> QED
      BY <1>1, <2>1, <3>1
         DEF StepShape, Advance, Commit, PWM!Progress, PWM!TakeEffect
  <2>2. CASE ~apply_commit_now(pulse)
    <3>1. apply_pending' = (apply_pending \/ pulse)
      BY <1>1, <2>2 DEF StepShape, Advance, Commit, apply_commit_now, TypeOK
    <3> QED
      BY <1>1, <2>2, <3>1
         DEF StepShape, Advance, Commit, PWM!Progress, PWM!Defer
  <2> QED
    BY <2>1, <2>2
<1>3. <<shadow, hb_shadow>>' \in CommonRegs \X BridgeMasks
  BY SoftwareTypeOK
<1>4. CASE pulse
  <2>1. UNCHANGED <<shadow, hb_shadow>>
    BY <1>1, <1>4 DEF StepShape
  <2> QED
    BY <1>2, <1>4, <2>1 DEF PWM!PromiseNext, PWM!WriteApply
<1>5. CASE ~pulse
  BY <1>2, <1>3, <1>5 DEF PWM!PromiseNext, PWM!WriteRegister
<1> QED
  BY <1>4, <1>5

(* The subsystem implements what PwmPromise promises to software, but for  *)
(* the promise that every APPLY takes effect in the end: for any number of *)
(* channels, any values, and both settings of APPLY_ON_PERIOD_END.         *)
THEOREM KeepsPromise == Spec => PWM!PromiseSafety
<1>1. Init => TypeOK /\ PWM!PromiseInit
  BY InitIInv DEF IInv, TypeOK, Init, PWM!PromiseInit
<1>2. TypeOK /\ [Next]_vars => TypeOK'
  BY StepTypeOK DEF vars, config, TypeOK
<1>3. TypeOK /\ [Next]_vars => [PWM!PromiseNext]_(PWM!promiseVars)
  <2>1. ASSUME UNCHANGED vars PROVE UNCHANGED (PWM!promiseVars)
    BY <2>1 DEF vars, config, PWM!promiseVars
  <2> QED
    BY <2>1, StepKeepsPromise
<1> QED
  BY <1>1, <1>2, <1>3, PTL DEF Spec, PWM!PromiseSafety
=============================================================================
