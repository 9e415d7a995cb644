--------------------------- MODULE MotorAppProofs ---------------------------
(***************************************************************************)
(* Proofs that the motor application never drives a mix of two settings,   *)
(* and that its display tells the duty in force between two updates, for   *)
(* any duty positions in use, any number of restarts, and whenever the PWM *)
(* takes an APPLY into effect.                                             *)
(***************************************************************************)
EXTENDS MotorApp, TLAPS

Types ==
  /\ switches \in SwitchWords
  /\ sw \in SwitchWords \cup {NoSwitches}
  /\ written \in MotorRegs /\ running \in MotorRegs /\ waiting \in BOOLEAN

Good(regs) == Drives(regs) => \E s \in SwitchWords : regs = Setting(s)

(* What may take effect is good: the registers once APPLY is written, and, *)
(* while an earlier APPLY still waits, after every single write.           *)
WaitingInv == waiting => Good(written)

(* An update begins with no APPLY waiting, or with the PWM disabled by the *)
(* APPLY that waits: its half-written registers drive nothing.             *)
StartInv ==
  pc \in {"poll", "period", "duty0", "duty1", "dir", "ch_enable", "enable"} =>
    (waiting => ~written.enable)

OffInv ==
  /\ pc \in {"off_ctrl", "off_apply"} => written.ch_enable = {}
  /\ pc = "off_apply" => ~written.enable

(* The registers an update has written so far.                             *)
UpdateInv ==
  /\ pc \in {"period", "duty0", "duty1", "dir", "ch_enable", "enable", "apply"}
       => sw \in SwitchWords
  /\ pc \in {"duty0", "duty1", "dir", "ch_enable", "enable", "apply"}
       => written.period = Setting(sw).period
  /\ pc \in {"duty1", "dir", "ch_enable", "enable", "apply"}
       => written.duty[0] = Setting(sw).duty[0]
  /\ pc \in {"dir", "ch_enable", "enable", "apply"}
       => written.duty[1] = Setting(sw).duty[1]
  /\ pc \in {"ch_enable", "enable", "apply"} => written.dir = Setting(sw).dir
  /\ pc \in {"enable", "apply"} => written.ch_enable = Setting(sw).ch_enable
  /\ pc = "apply" => written.enable = Setting(sw).enable

IInv ==
  Types /\ Good(running) /\ WaitingInv /\ StartInv /\ OffInv /\ UpdateInv

----------------------------------------------------------------------------

LEMMA DutyType ==
  ASSUME NEW s \in SwitchWords
  PROVE  duty_from_sel[s.sel] \in Nat
<1>1. s.sel \in 0..7
  BY MotorAppAssumption DEF SwitchWords
<1> QED
  BY <1>1 DEF duty_from_sel

LEMMA SettingType ==
  ASSUME NEW s \in SwitchWords
  PROVE  Setting(s) \in MotorRegs
<1>2. duty_from_sel[s.sel] \in Nat
  BY DutyType
<1>3. s.enable \in BOOLEAN /\ s.motor \in Motors
  BY DEF SwitchWords
<1> QED
  BY <1>2, <1>3 DEF Setting, MotorRegs, MOTOR_TEST_PERIOD

LEMMA ResetIsOff == ResetRegs \in MotorRegs /\ ~Drives(ResetRegs)
BY DEF ResetRegs, MotorRegs, Drives

LEMMA InitIInv == Init => IInv
<1> SUFFICES ASSUME Init PROVE IInv
  OBVIOUS
<1>1. Types
  BY ResetIsOff DEF Init, Types, PWM!PromiseInit
<1>2. Good(running) /\ WaitingInv
  BY ResetIsOff DEF Init, Good, WaitingInv, PWM!PromiseInit
<1> QED
  BY <1>1, <1>2 DEF Init, IInv, StartInv, OffInv, UpdateInv

(* A step that leaves the PWM alone and, of the program, at most changes   *)
(* the label to one no invariant speaks of.                                *)
LEMMA Elsewhere ==
  ASSUME IInv, Types', UNCHANGED pwm,
         pc' \notin {"poll", "period", "duty0", "duty1", "dir", "ch_enable",
                     "enable", "apply", "off_ctrl", "off_apply"}
  PROVE  IInv'
BY DEF IInv, pwm, Good, WaitingInv, StartInv, OffInv, UpdateInv, Drives

LEMMA SetupStep ==
  ASSUME IInv, Setup
  PROVE  IInv'
<1>1. UNCHANGED <<pwm, sw, switches>>
  BY DEF Setup, At, Show
<1>2. pc' \in {"sw_value", "dp_n", "blank", "ctrl", "show0"}
  BY DEF Setup, At
<1>3. Types'
  BY <1>1 DEF IInv, Types, pwm
<1> QED
  BY <1>1, <1>2, <1>3, Elsewhere

LEMMA ShowStep ==
  ASSUME IInv, NEW a, NEW b, NEW c, NEW d, NEW duty,
         {b, c, d} \subseteq
           {"show0_mode", "show0_value", "off_ch", "show_mode", "show_value",
            "remember"},
         seg7_show_duty_decimal(a, b, c, d, duty)
  PROVE  IInv'
<1>1. UNCHANGED <<pwm, sw, switches>>
  BY DEF seg7_show_duty_decimal, At, Show
<1>2. pc' \in {b, c, d}
  BY DEF seg7_show_duty_decimal, At
<1>3. Types'
  BY <1>1 DEF IInv, Types, pwm
<1> QED
  BY <1>1, <1>2, <1>3, Elsewhere

(* Any single write leaves what runs alone.                                *)
LEMMA WriteStep ==
  ASSUME IInv, NEW regs \in MotorRegs, Write(regs), UNCHANGED switches
  PROVE  /\ Types' /\ Good(running)'
         /\ written' = regs /\ waiting' = waiting /\ sw' = sw
<1>1. /\ written' = regs /\ running' = running /\ waiting' = waiting
      /\ sw' = sw
  BY DEF Write, PWM!Defer, IInv, Types
<1> QED
  BY <1>1 DEF IInv, Types, Good, Drives

LEMMA ApplyStep ==
  ASSUME IInv, Good(written), pwm_apply, UNCHANGED switches
  PROVE  /\ Types' /\ Good(running)' /\ WaitingInv'
         /\ UNCHANGED <<written, sw>>
<1>1. UNCHANGED <<written, sw>>
  BY DEF pwm_apply
<1>2. running' = written \/ running' = running
  BY DEF pwm_apply, PWM!Progress, PWM!TakeEffect, PWM!Defer
<1>3. waiting' \in BOOLEAN
  BY DEF pwm_apply, PWM!Progress, PWM!TakeEffect, PWM!Defer, IInv, Types
<1> QED
  BY <1>1, <1>2, <1>3 DEF IInv, Types, Good, Drives, WaitingInv

LEMMA DisableStep ==
  ASSUME IInv, motor_disable_all
  PROVE  IInv'
<1>1. CASE At("off_ch", "off_ctrl") /\ Write([written EXCEPT !.ch_enable = {}])
  <2> DEFINE regs == [written EXCEPT !.ch_enable = {}]
  <2>1. regs \in MotorRegs /\ regs.ch_enable = {}
    BY DEF IInv, Types, MotorRegs
  <2> HIDE DEF regs
  <2>2. Types' /\ Good(running)' /\ written' = regs
    BY <1>1, <2>1, WriteStep DEF At, regs
  <2>3. Good(written)' /\ pc' = "off_ctrl"
    BY <1>1, <2>1, <2>2 DEF Good, Drives, At
  <2> QED
    BY <2>1, <2>2, <2>3 DEF IInv, WaitingInv, StartInv, OffInv, UpdateInv
<1>2. CASE At("off_ctrl", "off_apply") /\ Write([written EXCEPT !.enable = FALSE])
  <2> DEFINE regs == [written EXCEPT !.enable = FALSE]
  <2>1. regs \in MotorRegs /\ regs.ch_enable = {} /\ ~regs.enable
    BY <1>2 DEF IInv, Types, MotorRegs, OffInv, At
  <2> HIDE DEF regs
  <2>2. Types' /\ Good(running)' /\ written' = regs
    BY <1>2, <2>1, WriteStep DEF At, regs
  <2>3. Good(written)' /\ pc' = "off_apply"
    BY <1>2, <2>1, <2>2 DEF Good, Drives, At
  <2> QED
    BY <2>1, <2>2, <2>3 DEF IInv, WaitingInv, StartInv, OffInv, UpdateInv
<1>3. CASE At("off_apply", "poll") /\ pwm_apply
  <2>1. ~written.enable
    BY <1>3 DEF IInv, OffInv, At
  <2>2. Types' /\ Good(running)' /\ WaitingInv' /\ written' = written
    BY <1>3, <2>1, ApplyStep DEF Good, Drives, At
  <2> QED
    BY <1>3, <2>1, <2>2 DEF IInv, StartInv, OffInv, UpdateInv, At
<1> QED
  BY <1>1, <1>2, <1>3 DEF motor_disable_all

LEMMA PollStep ==
  ASSUME IInv, get_switches
  PROVE  IInv'
BY DEF IInv, get_switches, pwm, Types, Good, Drives, WaitingInv, StartInv, OffInv,
       UpdateInv

(* The label after which an update has written everything.                 *)
LEMMA Complete ==
  ASSUME IInv, pc = "apply"
  PROVE  sw \in SwitchWords /\ written = Setting(sw) /\ Good(written)
<1>1. sw \in SwitchWords /\ Setting(sw) \in MotorRegs
  BY SettingType DEF IInv, UpdateInv
<1>2. /\ written.period = Setting(sw).period
      /\ written.duty[0] = Setting(sw).duty[0]
      /\ written.duty[1] = Setting(sw).duty[1]
      /\ written.dir = Setting(sw).dir
      /\ written.ch_enable = Setting(sw).ch_enable
      /\ written.enable = Setting(sw).enable
  BY DEF IInv, UpdateInv
<1>3. written.duty = Setting(sw).duty
  BY <1>1, <1>2 DEF IInv, Types, MotorRegs, Motors
<1>4. written = Setting(sw)
  BY <1>1, <1>2, <1>3 DEF IInv, Types, MotorRegs
<1> QED
  BY <1>1, <1>4 DEF Good

LEMMA UpdateStep ==
  ASSUME IInv, motor_apply_switch_control
  PROVE  IInv'
<1> DEFINE new == Setting(sw)
<1>0. CASE At("apply", "show") /\ pwm_apply
  <2>1. Types' /\ Good(running)' /\ WaitingInv' /\ pc' = "show"
    BY <1>0, Complete, ApplyStep DEF At
  <2> QED
    BY <2>1 DEF IInv, StartInv, OffInv, UpdateInv
<1>1. CASE At("period", "duty0") /\ Write([written EXCEPT !.period = new.period])
  <2> DEFINE regs == [written EXCEPT !.period = new.period]
  <2>1. /\ sw \in SwitchWords /\ new \in MotorRegs
        /\ waiting => ~written.enable
    BY <1>1, SettingType DEF IInv, UpdateInv, StartInv, At
  <2>2. /\ regs \in MotorRegs /\ regs.period = new.period
        /\ regs.enable = written.enable
    BY <2>1 DEF IInv, Types, MotorRegs
  <2> HIDE DEF regs
  <2>3. /\ Types' /\ Good(running)' /\ written' = regs /\ waiting' = waiting
        /\ sw' = sw /\ pc' = "duty0"
    BY <1>1, <2>2, WriteStep DEF At, regs
  <2> HIDE DEF new
  <2> QED
    BY <2>1, <2>2, <2>3
       DEF IInv, WaitingInv, StartInv, OffInv, UpdateInv, Good, Drives, new
<1>2. CASE WriteDuties(new.duty)
  <2>1. \/ /\ At("duty0", "duty1")
           /\ Write([written EXCEPT !.duty = [@ EXCEPT ![0] = new.duty[0]]])
        \/ /\ At("duty1", "dir")
           /\ Write([written EXCEPT !.duty = [@ EXCEPT ![1] = new.duty[1]]])
    BY <1>2 DEF WriteDuties
  <2>2. /\ sw \in SwitchWords /\ new \in MotorRegs
        /\ waiting => ~written.enable
        /\ written.period = new.period
        /\ pc = "duty1" => written.duty[0] = new.duty[0]
    BY <2>1, SettingType DEF IInv, UpdateInv, StartInv, At
  <2>3. PICK i \in Motors :
          /\ Write([written EXCEPT !.duty = [@ EXCEPT ![i] = new.duty[i]]])
          /\ i = 0 => At("duty0", "duty1")
          /\ i = 1 => At("duty1", "dir")
    BY <2>1 DEF Motors
  <2> DEFINE regs == [written EXCEPT !.duty = [@ EXCEPT ![i] = new.duty[i]]]
  <2>4. /\ regs \in MotorRegs /\ regs.period = new.period
        /\ regs.enable = written.enable
        /\ regs.duty[i] = new.duty[i]
        /\ i = 1 => regs.duty[0] = written.duty[0]
    BY <2>2 DEF IInv, Types, MotorRegs, Motors
  <2> HIDE DEF regs
  <2>5. /\ Types' /\ Good(running)' /\ written' = regs /\ waiting' = waiting
        /\ sw' = sw
    BY <2>3, <2>4, WriteStep DEF At, regs, Motors
  <2>6. CASE i = 0
    BY <2>2, <2>3, <2>4, <2>5, <2>6
       DEF IInv, WaitingInv, StartInv, OffInv, UpdateInv, Good, Drives, At
  <2>7. CASE i = 1
    BY <2>2, <2>3, <2>4, <2>5, <2>7
       DEF IInv, WaitingInv, StartInv, OffInv, UpdateInv, Good, Drives, At
  <2> QED
    BY <2>6, <2>7 DEF Motors
<1>3. CASE At("dir", "ch_enable") /\ Write([written EXCEPT !.dir = new.dir])
  <2> DEFINE regs == [written EXCEPT !.dir = new.dir]
  <2>1. /\ sw \in SwitchWords /\ new \in MotorRegs
        /\ waiting => ~written.enable
    BY <1>3, SettingType DEF IInv, UpdateInv, StartInv, At
  <2>2. /\ regs \in MotorRegs /\ regs.dir = new.dir
        /\ regs.enable = written.enable /\ regs.period = written.period
        /\ regs.duty = written.duty
    BY <2>1 DEF IInv, Types, MotorRegs
  <2> HIDE DEF regs
  <2>3. /\ Types' /\ Good(running)' /\ written' = regs /\ waiting' = waiting
        /\ sw' = sw /\ pc = "dir" /\ pc' = "ch_enable"
    BY <1>3, <2>2, WriteStep DEF At, regs
  <2> QED
    BY <2>1, <2>2, <2>3
       DEF IInv, WaitingInv, StartInv, OffInv, UpdateInv, Good, Drives
<1>4. CASE /\ At("ch_enable", "enable")
           /\ Write([written EXCEPT !.ch_enable = new.ch_enable])
  <2> DEFINE regs == [written EXCEPT !.ch_enable = new.ch_enable]
  <2>1. /\ sw \in SwitchWords /\ new \in MotorRegs
        /\ waiting => ~written.enable
    BY <1>4, SettingType DEF IInv, UpdateInv, StartInv, At
  <2>2. /\ regs \in MotorRegs /\ regs.ch_enable = new.ch_enable
        /\ regs.enable = written.enable /\ regs.period = written.period
        /\ regs.duty = written.duty /\ regs.dir = written.dir
    BY <2>1 DEF IInv, Types, MotorRegs
  <2> HIDE DEF regs
  <2>3. /\ Types' /\ Good(running)' /\ written' = regs /\ waiting' = waiting
        /\ sw' = sw /\ pc = "ch_enable" /\ pc' = "enable"
    BY <1>4, <2>2, WriteStep DEF At, regs
  <2> QED
    BY <2>1, <2>2, <2>3
       DEF IInv, WaitingInv, StartInv, OffInv, UpdateInv, Good, Drives
<1>5. CASE At("enable", "apply") /\ Write([written EXCEPT !.enable = new.enable])
  <2> DEFINE regs == [written EXCEPT !.enable = new.enable]
  <2>1. sw \in SwitchWords /\ new \in MotorRegs
    BY <1>5, SettingType DEF IInv, UpdateInv, At
  <2>2. /\ regs \in MotorRegs /\ regs.enable = new.enable
        /\ regs.ch_enable = written.ch_enable /\ regs.period = written.period
        /\ regs.duty = written.duty /\ regs.dir = written.dir
    BY <2>1 DEF IInv, Types, MotorRegs
  <2> HIDE DEF regs
  <2>3. /\ Types' /\ Good(running)' /\ written' = regs /\ waiting' = waiting
        /\ sw' = sw /\ pc = "enable" /\ pc' = "apply"
    BY <1>5, <2>2, WriteStep DEF At, regs
  <2>4. UpdateInv'
    BY <2>1, <2>2, <2>3 DEF IInv, UpdateInv
  <2>5. regs = new
    <3>1. /\ regs.period = new.period /\ regs.dir = new.dir
          /\ regs.ch_enable = new.ch_enable
          /\ regs.duty[0] = new.duty[0] /\ regs.duty[1] = new.duty[1]
      BY <2>2, <2>3 DEF IInv, UpdateInv
    <3>2. regs.duty = new.duty
      BY <2>1, <2>2, <3>1 DEF MotorRegs, Motors
    <3> HIDE DEF new
    <3> QED
      BY <2>1, <2>2, <3>1, <3>2 DEF MotorRegs
  <2>6. Good(written)'
    BY <2>1, <2>3, <2>5 DEF Good
  <2> QED
    BY <2>3, <2>4, <2>6 DEF IInv, WaitingInv, StartInv, OffInv
<1> QED
  BY <1>0, <1>1, <1>2, <1>3, <1>4, <1>5 DEF motor_apply_switch_control

LEMMA OtherSteps ==
  ASSUME IInv, Remember \/ usleep \/ FlipSwitch \/ Start
  PROVE  IInv'
<1>1. CASE Remember \/ Start
  <2>1. pc' \in {"sleep", "tris"} /\ UNCHANGED pwm
    BY <1>1 DEF Remember, Start, At
  <2>2. Types'
    BY <1>1 DEF Remember, Start, At, IInv, Types, pwm
  <2> QED
    BY <2>1, <2>2, Elsewhere
<1>2. CASE usleep
  <2>1. UNCHANGED <<pwm, sw, switches>> /\ ~waiting /\ pc' = "poll"
    BY <1>2 DEF usleep, At
  <2> QED
    BY <2>1
       DEF pwm, IInv, Types, Good, Drives, WaitingInv, StartInv, OffInv, UpdateInv
<1>3. CASE FlipSwitch
  <2>1. UNCHANGED <<pwm, pc, sw>> /\ switches' \in SwitchWords
    BY <1>3 DEF FlipSwitch, program
  <2> QED
    BY <2>1
       DEF pwm, IInv, Types, Good, Drives, WaitingInv, StartInv, OffInv, UpdateInv
<1> QED
  BY <1>1, <1>2, <1>3

LEMMA PeriodStep ==
  ASSUME IInv, PeriodEnds
  PROVE  IInv'
<1>1. /\ waiting /\ running' = written /\ ~waiting'
      /\ UNCHANGED <<written, pc, sw, switches>>
  BY DEF PeriodEnds, PWM!TakeEffect, program
<1>2. waiting' \in BOOLEAN
  BY DEF PeriodEnds, PWM!TakeEffect
<1> QED
  BY <1>1, <1>2
     DEF IInv, Types, Good, Drives, WaitingInv, StartInv, OffInv, UpdateInv

LEMMA NextIInv == IInv /\ [Next]_vars => IInv'
<1> SUFFICES ASSUME IInv, [Next]_vars PROVE IInv'
  OBVIOUS
<1>1. CASE Program
  <2>1. CASE seg7_show_duty_decimal("show0", "show0_mode", "show0_value",
                                    "off_ch", 0)
    BY <2>1, ShowStep
  <2>2. CASE seg7_show_duty_decimal("show", "show_mode", "show_value",
                                    "remember", duty_from_sel[sw.sel])
    BY <2>2, ShowStep
  <2> QED
    BY <1>1, <2>1, <2>2, SetupStep, DisableStep, PollStep, UpdateStep, OtherSteps
       DEF Program
<1>2. CASE UNCHANGED vars
  BY <1>2
     DEF vars, program, pwm, IInv, Types, Good, Drives, WaitingInv, StartInv,
         OffInv, UpdateInv
<1> QED
  BY <1>1, <1>2, PeriodStep, OtherSteps DEF Next

(* What drives a motor is at all times the setting of one position of the  *)
(* switches, whole.                                                        *)
THEOREM Whole == Spec => []WholeSetting
<1>1. IInv => WholeSetting
  BY DEF IInv, Good, WholeSetting
<1> QED
  BY InitIInv, NextIInv, <1>1, PTL DEF Spec

----------------------------------------------------------------------------
(* The display.                                                            *)

SetupLabels ==
  {"tris", "sw_value", "dp_n", "blank", "ctrl", "show0", "show0_mode",
   "show0_value", "off_ch", "off_ctrl", "off_apply"}

(* The registers of the display.  It shows what it is given: that the      *)
(* digits of a duty fit its value is not needed.                           *)
Shown == {Display!Zero} \cup {pack_decimal_6digits(duty) : duty \in Nat}

DisplayRegs ==
  [enable : BOOLEAN, mode : Display!Modes, software : BOOLEAN, sw_value : Shown,
   dp_n : SUBSET Display!Digits, blank : SUBSET Display!Digits]

(* How far the display has been configured.                                *)
ConfiguredInv ==
  /\ pc \notin {"tris", "sw_value", "dp_n"} => seg7.dp_n = Display!Digits
  /\ pc \notin {"tris", "sw_value", "dp_n", "blank"} => seg7.blank = {}
  /\ pc \notin {"tris", "sw_value", "dp_n", "blank", "ctrl"} => seg7.enable
  /\ pc \notin {"tris", "sw_value", "dp_n", "blank", "ctrl", "show0"}
       => seg7.software
  /\ pc \notin {"tris", "sw_value", "dp_n", "blank", "ctrl", "show0", "show0_mode"}
       => seg7.mode = "full6"

(* The registers are those of the position s, and run if none waits.       *)
Applied(s) ==
  /\ s \in SwitchWords /\ written = Setting(s)
  /\ waiting \/ running = written

Duty(s) == duty_from_sel[s.sel]

(* Which position the PWM and the display follow.                          *)
FollowInv ==
  /\ pc \in SetupLabels => last_sw = NoSwitches
  /\ pc = "sleep" => last_sw # NoSwitches
  /\ pc \in {"show", "show_mode", "show_value", "remember"} => Applied(sw)
  /\ pc = "remember" => seg7.sw_value = pack_decimal_6digits(Duty(sw))
  /\ pc \in {"sleep", "poll"} /\ last_sw # NoSwitches =>
       Applied(last_sw) /\ seg7.sw_value = pack_decimal_6digits(Duty(last_sw))
  /\ pc = "poll" /\ last_sw # NoSwitches => ~waiting

DisplayInv == seg7 \in DisplayRegs /\ ConfiguredInv /\ FollowInv

LEMMA NoSwitchesIsNone == NoSwitches \notin SwitchWords
BY MotorAppAssumption DEF NoSwitches, SwitchWords

LEMMA InitDisplayInv == Init => DisplayInv
<1> SUFFICES ASSUME Init PROVE DisplayInv
  OBVIOUS
<1>1. seg7 \in DisplayRegs
  BY DEF Init, DisplayRegs, Shown, Display!Reset, Display!Modes, Display!Digits
<1> QED
  BY <1>1 DEF Init, DisplayInv, ConfiguredInv, FollowInv, SetupLabels

(* What the functions of the display's driver do to its registers.         *)
LEMMA DisplayDriver ==
  ASSUME NEW regs \in DisplayRegs
  PROVE  /\ \A value \in Shown :
              /\ Display!SetSwValue(regs, value) \in DisplayRegs
              /\ Display!SetSwValue(regs, value).sw_value = value
              /\ Display!SetSwValue(regs, value).enable = regs.enable
              /\ Display!SetSwValue(regs, value).mode = regs.mode
              /\ Display!SetSwValue(regs, value).software = regs.software
              /\ Display!SetSwValue(regs, value).dp_n = regs.dp_n
              /\ Display!SetSwValue(regs, value).blank = regs.blank
         /\ Display!SetDpN(regs, Display!Digits) \in DisplayRegs
         /\ Display!SetDpN(regs, Display!Digits).dp_n = Display!Digits
         /\ Display!SetBlank(regs, {}) \in DisplayRegs
         /\ Display!SetBlank(regs, {}).dp_n = regs.dp_n
         /\ Display!SetBlank(regs, {}).blank = {}
         /\ Display!InitCtrl(regs) \in DisplayRegs
         /\ Display!InitCtrl(regs).dp_n = regs.dp_n
         /\ Display!InitCtrl(regs).blank = regs.blank
         /\ Display!InitCtrl(regs).enable
         /\ Display!SelectSoftware(regs) \in DisplayRegs
         /\ Display!SelectSoftware(regs).dp_n = regs.dp_n
         /\ Display!SelectSoftware(regs).blank = regs.blank
         /\ Display!SelectSoftware(regs).enable = regs.enable
         /\ Display!SelectSoftware(regs).software
      /\ Display!SelectSoftware(regs).mode = regs.mode
         /\ Display!SelectSoftware(regs).mode = regs.mode
         /\ Display!SetMode(regs, "full6") \in DisplayRegs
         /\ Display!SetMode(regs, "full6").dp_n = regs.dp_n
         /\ Display!SetMode(regs, "full6").blank = regs.blank
         /\ Display!SetMode(regs, "full6").enable = regs.enable
         /\ Display!SetMode(regs, "full6").software = regs.software
         /\ Display!SetMode(regs, "full6").mode = "full6"
<1> USE DEF DisplayRegs
<1>1. \A value \in Shown :
        /\ Display!SetSwValue(regs, value) \in DisplayRegs
        /\ Display!SetSwValue(regs, value).sw_value = value
        /\ Display!SetSwValue(regs, value).enable = regs.enable
        /\ Display!SetSwValue(regs, value).mode = regs.mode
        /\ Display!SetSwValue(regs, value).software = regs.software
        /\ Display!SetSwValue(regs, value).dp_n = regs.dp_n
        /\ Display!SetSwValue(regs, value).blank = regs.blank
  BY DEF Display!SetSwValue
<1>2. /\ Display!SetDpN(regs, Display!Digits) \in DisplayRegs
      /\ Display!SetDpN(regs, Display!Digits).dp_n = Display!Digits
  BY DEF Display!SetDpN
<1>3. /\ Display!SetBlank(regs, {}) \in DisplayRegs
      /\ Display!SetBlank(regs, {}).dp_n = regs.dp_n
      /\ Display!SetBlank(regs, {}).blank = {}
  BY DEF Display!SetBlank
<1>4. /\ Display!InitCtrl(regs) \in DisplayRegs
      /\ Display!InitCtrl(regs).dp_n = regs.dp_n
      /\ Display!InitCtrl(regs).blank = regs.blank
      /\ Display!InitCtrl(regs).enable
  BY DEF Display!InitCtrl, Display!Modes
<1>5. /\ Display!SelectSoftware(regs) \in DisplayRegs
      /\ Display!SelectSoftware(regs).dp_n = regs.dp_n
      /\ Display!SelectSoftware(regs).blank = regs.blank
      /\ Display!SelectSoftware(regs).enable = regs.enable
      /\ Display!SelectSoftware(regs).software
      /\ Display!SelectSoftware(regs).mode = regs.mode
  BY DEF Display!SelectSoftware
<1>6. /\ Display!SetMode(regs, "full6") \in DisplayRegs
      /\ Display!SetMode(regs, "full6").dp_n = regs.dp_n
      /\ Display!SetMode(regs, "full6").blank = regs.blank
      /\ Display!SetMode(regs, "full6").enable = regs.enable
      /\ Display!SetMode(regs, "full6").software = regs.software
      /\ Display!SetMode(regs, "full6").mode = "full6"
  BY DEF Display!SetMode, Display!Modes
<1> QED
  BY <1>1, <1>2, <1>3, <1>4, <1>5, <1>6

LEMMA SetupDisplays ==
  ASSUME DisplayInv, Setup
  PROVE  DisplayInv'
<1>1. /\ seg7' \in DisplayRegs
      /\ pc' = "dp_n" \/ pc' = "sw_value" \/ pc' = "blank" \/ pc' = "ctrl" \/ pc' = "show0"
      /\ pc' \in {"blank", "ctrl", "show0"} => seg7'.dp_n = Display!Digits
      /\ pc' \in {"ctrl", "show0"} => seg7'.blank = {}
      /\ pc' = "show0" => seg7'.enable
  BY DisplayDriver DEF Setup, At, Show, DisplayInv, ConfiguredInv, Shown
<1>2. last_sw' = NoSwitches
  BY DEF Setup, At, Show, DisplayInv, FollowInv, SetupLabels
<1> QED
  BY <1>1, <1>2 DEF DisplayInv, ConfiguredInv, FollowInv

LEMMA ShowDisplays ==
  ASSUME DisplayInv, NEW a, NEW b, NEW c, NEW d, NEW duty \in Nat,
         seg7_show_duty_decimal(a, b, c, d, duty),
         \/ a = "show0" /\ b = "show0_mode" /\ c = "show0_value" /\ d = "off_ch"
         \/ a = "show" /\ b = "show_mode" /\ c = "show_value" /\ d = "remember"
  PROVE  /\ seg7' \in DisplayRegs /\ pc' \in {b, c, d}
         /\ seg7'.dp_n = Display!Digits /\ seg7'.blank = {}
         /\ seg7'.enable /\ seg7'.software
         /\ pc' \in {c, d} \/ seg7.mode = "full6" => seg7'.mode = "full6"
         /\ pc' = d => seg7'.sw_value = pack_decimal_6digits(duty)
         /\ pc \in {a, b, c} /\ UNCHANGED <<sw, last_sw, pwm>>
<1>1. pack_decimal_6digits(duty) \in Shown
  BY DEF Shown
<1>2. UNCHANGED <<sw, last_sw, pwm>> /\ pc \in {a, b, c}
  BY DEF seg7_show_duty_decimal, At, Show
<1>3. /\ seg7 \in DisplayRegs
      /\ seg7.dp_n = Display!Digits /\ seg7.blank = {} /\ seg7.enable
      /\ pc \in {b, c} => seg7.software
      /\ pc = c => seg7.mode = "full6"
  BY <1>2 DEF DisplayInv, ConfiguredInv
<1>4. CASE At(a, b) /\ Show(Display!SelectSoftware(seg7))
  <2>1. pc' = b /\ seg7' = Display!SelectSoftware(seg7)
    BY <1>4 DEF At, Show
  <2> QED BY <1>2, <1>3, <2>1, DisplayDriver
<1>5. CASE At(b, c) /\ Show(Display!SetMode(seg7, "full6"))
  <2>1. pc = b /\ pc' = c /\ seg7' = Display!SetMode(seg7, "full6")
    BY <1>5 DEF At, Show
  <2> QED BY <1>2, <1>3, <2>1, DisplayDriver
<1>6. CASE /\ At(c, d)
           /\ Show(Display!SetSwValue(seg7, pack_decimal_6digits(duty)))
  <2> DEFINE value == pack_decimal_6digits(duty)
  <2>1. pc = c /\ pc' = d /\ seg7' = Display!SetSwValue(seg7, value)
    BY <1>6 DEF At, Show
  <2> HIDE DEF value
  <2>2. /\ Display!SetSwValue(seg7, value) \in DisplayRegs
        /\ Display!SetSwValue(seg7, value).sw_value = value
        /\ Display!SetSwValue(seg7, value).enable = seg7.enable
        /\ Display!SetSwValue(seg7, value).mode = seg7.mode
        /\ Display!SetSwValue(seg7, value).software = seg7.software
        /\ Display!SetSwValue(seg7, value).dp_n = seg7.dp_n
        /\ Display!SetSwValue(seg7, value).blank = seg7.blank
    BY <1>1, <1>3, DisplayDriver DEF value
  <2>3. seg7'.sw_value = pack_decimal_6digits(duty)
    BY <2>1, <2>2 DEF value
  <2> QED BY <1>2, <1>3, <2>1, <2>2, <2>3
<1> QED
  BY <1>4, <1>5, <1>6 DEF seg7_show_duty_decimal

LEMMA ShowZeroDisplays ==
  ASSUME DisplayInv,
         seg7_show_duty_decimal("show0", "show0_mode", "show0_value", "off_ch", 0)
  PROVE  DisplayInv'
<1>1. /\ seg7' \in DisplayRegs /\ pc' \in {"show0_mode", "show0_value", "off_ch"}
      /\ seg7'.dp_n = Display!Digits /\ seg7'.blank = {}
      /\ seg7'.enable /\ seg7'.software
      /\ pc' \in {"show0_value", "off_ch"} => seg7'.mode = "full6"
      /\ pc \in SetupLabels /\ last_sw' = last_sw
  BY ShowDisplays DEF SetupLabels
<1> QED
  BY <1>1 DEF DisplayInv, ConfiguredInv, FollowInv

LEMMA ShowDutyDisplays ==
  ASSUME IInv, DisplayInv,
         seg7_show_duty_decimal("show", "show_mode", "show_value", "remember",
                                duty_from_sel[sw.sel])
  PROVE  DisplayInv'
<1>1. pc \in {"show", "show_mode", "show_value"}
  BY DEF seg7_show_duty_decimal, At
<1>2. Applied(sw)
  BY <1>1 DEF DisplayInv, FollowInv
<1>3. duty_from_sel[sw.sel] \in Nat
  BY <1>2, DutyType DEF Applied
<1>0. seg7.mode = "full6"
  BY <1>1 DEF DisplayInv, ConfiguredInv
<1>4. /\ seg7' \in DisplayRegs /\ pc' \in {"show_mode", "show_value", "remember"}
      /\ seg7'.dp_n = Display!Digits /\ seg7'.blank = {}
      /\ seg7'.enable /\ seg7'.software
      /\ seg7'.mode = "full6"
      /\ pc' = "remember" =>
           seg7'.sw_value = pack_decimal_6digits(duty_from_sel[sw.sel])
      /\ UNCHANGED <<sw, last_sw, written, running, waiting>>
  BY <1>0, <1>3, ShowDisplays DEF pwm
<1>5. ConfiguredInv'
  BY <1>4 DEF ConfiguredInv
<1>6. Applied(sw)'
  BY <1>2, <1>4 DEF Applied
<1>7. FollowInv'
  BY <1>1, <1>4, <1>6 DEF FollowInv, SetupLabels, Duty
<1> QED
  BY <1>4, <1>5, <1>7 DEF DisplayInv

LEMMA PollDisplays ==
  ASSUME IInv, DisplayInv, get_switches
  PROVE  DisplayInv'
<1>1. /\ pc = "poll" /\ UNCHANGED <<last_sw, written, running, waiting, seg7>>
      /\ pc' \in {"period", "sleep"} /\ (pc' = "sleep" => switches = last_sw)
  BY DEF get_switches, pwm
<1>2. pc' = "sleep" => last_sw # NoSwitches
  BY <1>1, NoSwitchesIsNone DEF IInv, Types
<1>3. ConfiguredInv'
  BY <1>1 DEF DisplayInv, ConfiguredInv
<1>4. FollowInv'
  BY <1>1, <1>2 DEF DisplayInv, FollowInv, SetupLabels, Applied, Duty
<1> QED
  BY <1>1, <1>3, <1>4 DEF DisplayInv

LEMMA OffDisplays ==
  ASSUME DisplayInv, motor_disable_all
  PROVE  DisplayInv'
<1>1. /\ pc \in {"off_ch", "off_ctrl", "off_apply"}
      /\ pc' \in {"off_ctrl", "off_apply", "poll"}
      /\ UNCHANGED <<last_sw, seg7>>
  BY DEF motor_disable_all, At, Write, pwm_apply
<1>2. last_sw = NoSwitches
  BY <1>1 DEF DisplayInv, FollowInv, SetupLabels
<1> QED
  BY <1>1, <1>2 DEF DisplayInv, ConfiguredInv, FollowInv

LEMMA UpdateDisplays ==
  ASSUME IInv, DisplayInv, motor_apply_switch_control
  PROVE  DisplayInv'
<1>1. UNCHANGED <<sw, last_sw, seg7>>
  BY DEF motor_apply_switch_control, WriteDuties, Write, pwm_apply
<1>2. CASE At("apply", "show") /\ pwm_apply
  <2>1. sw \in SwitchWords /\ written = Setting(sw) /\ pc = "apply" /\ pc' = "show"
    BY <1>2, Complete DEF At
  <2>2. written' = written /\ (waiting' \/ running' = written)
    BY <1>2 DEF pwm_apply, PWM!Progress, PWM!TakeEffect, PWM!Defer, IInv, Types
  <2>3. Applied(sw)'
    BY <1>1, <2>1, <2>2 DEF Applied
  <2> QED
    BY <1>1, <2>1, <2>3 DEF DisplayInv, ConfiguredInv, FollowInv, SetupLabels
<1>3. CASE ~(At("apply", "show") /\ pwm_apply)
  <2>1. /\ pc \in {"period", "duty0", "duty1", "dir", "ch_enable", "enable"}
        /\ pc' \in {"duty0", "duty1", "dir", "ch_enable", "enable", "apply"}
    BY <1>3 DEF motor_apply_switch_control, WriteDuties, At
  <2> QED
    BY <1>1, <2>1 DEF DisplayInv, ConfiguredInv, FollowInv, SetupLabels
<1> QED
  BY <1>2, <1>3

LEMMA OtherDisplays ==
  ASSUME IInv, DisplayInv, Remember \/ usleep \/ FlipSwitch \/ Start \/ PeriodEnds
  PROVE  DisplayInv'
<1>1. CASE Remember
  <2>1. /\ pc = "remember" /\ pc' = "sleep" /\ last_sw' = sw
        /\ UNCHANGED <<written, running, waiting, seg7>>
    BY <1>1 DEF Remember, At, pwm
  <2>2. /\ Applied(sw) /\ seg7.sw_value = pack_decimal_6digits(Duty(sw))
    BY <2>1 DEF DisplayInv, FollowInv
  <2>3. Applied(last_sw)' /\ (seg7.sw_value = pack_decimal_6digits(Duty(last_sw)))'
    BY <2>1, <2>2 DEF Applied, Duty
  <2>4. last_sw' # NoSwitches
    BY <2>1, <2>2, NoSwitchesIsNone DEF Applied
  <2> QED
    BY <2>1, <2>3, <2>4 DEF DisplayInv, ConfiguredInv, FollowInv, SetupLabels
<1>2. CASE usleep
  BY <1>2 DEF usleep, At, pwm, DisplayInv, ConfiguredInv, FollowInv, SetupLabels,
              Applied, Duty
<1>3. CASE FlipSwitch
  BY <1>3 DEF FlipSwitch, program, pwm, DisplayInv, ConfiguredInv, FollowInv, Applied,
              Duty
<1>4. CASE Start
  BY <1>4 DEF Start, DisplayInv, ConfiguredInv, FollowInv
<1>5. CASE PeriodEnds
  <2>1. /\ UNCHANGED <<pc, sw, last_sw, written, seg7>> /\ running' = written
    BY <1>5 DEF PeriodEnds, PWM!TakeEffect, program
  <2>2. waiting
    BY <1>5 DEF PeriodEnds, PWM!TakeEffect
  <2> QED
    BY <2>1, <2>2 DEF DisplayInv, ConfiguredInv, FollowInv, Applied, Duty
<1> QED
  BY <1>1, <1>2, <1>3, <1>4, <1>5

LEMMA NextDisplayInv == IInv /\ DisplayInv /\ [Next]_vars => DisplayInv'
<1> SUFFICES ASSUME IInv, DisplayInv, [Next]_vars PROVE DisplayInv'
  OBVIOUS
<1>1. CASE UNCHANGED vars
  BY <1>1 DEF vars, program, pwm, DisplayInv, ConfiguredInv, FollowInv, Applied, Duty
<1> QED
  BY <1>1, SetupDisplays, ShowZeroDisplays, OffDisplays, PollDisplays, UpdateDisplays,
     ShowDutyDisplays, OtherDisplays DEF Next, Program

(* Between two updates the display reads the duty the motor is driven with *)
(* (main.c:158), for any switch positions, restarts and moments at which   *)
(* the PWM takes an APPLY.                                                 *)
THEOREM Displays == Spec => []DisplayTells
<1>1. ASSUME IInv, DisplayInv, pc = "poll", last_sw # NoSwitches
      PROVE  /\ Reading(seg7) = pack_decimal_6digits(running.duty[0] + running.duty[1])
             /\ Display!Points(seg7) = {}
  <2>1. /\ last_sw \in SwitchWords /\ running = Setting(last_sw)
        /\ seg7.sw_value = pack_decimal_6digits(Duty(last_sw))
        /\ seg7.enable /\ seg7.software /\ seg7.mode = "full6"
        /\ seg7.dp_n = Display!Digits /\ seg7.blank = {}
    BY <1>1 DEF DisplayInv, ConfiguredInv, FollowInv, Applied
  <2>2. Duty(last_sw) \in Nat /\ last_sw.motor \in {0, 1}
    BY <2>1, DutyType DEF Duty, SwitchWords, Motors
  <2>3. running.duty[0] + running.duty[1] = Duty(last_sw)
    BY <2>1, <2>2 DEF Setting, Duty, Motors
  <2>4. Reading(seg7) = [i \in 0..5 |-> seg7.sw_value[i]]
    BY <2>1 DEF Reading, Display!Dark, Display!active_value
  <2>5. [i \in 0..5 |-> pack_decimal_6digits(Duty(last_sw))[i]]
          = pack_decimal_6digits(Duty(last_sw))
    BY DEF pack_decimal_6digits
  <2>6. Display!Points(seg7) = {}
    BY <2>1 DEF Display!Points
  <2> QED
    BY <2>1, <2>3, <2>4, <2>5, <2>6
<1>2. IInv /\ DisplayInv => DisplayTells
  BY <1>1 DEF DisplayTells
<1> QED
  BY InitIInv, InitDisplayInv, NextIInv, NextDisplayInv, <1>2, PTL DEF Spec
=============================================================================
