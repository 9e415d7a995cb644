------------------------------ MODULE MotorApp ------------------------------
(***************************************************************************)
(* The motor application, src/sw/app/src/main.c, over the motor PWM as     *)
(* PwmPromise describes it and the seven-segment display.  A step of the   *)
(* program is one register access; between two of them switches are        *)
(* flipped and the PWM may take a waiting APPLY into effect.  The program  *)
(* can be loaded and started again at any moment, while the peripherals    *)
(* keep their registers.                                                   *)
(***************************************************************************)
EXTENDS Integers

CONSTANTS
  DutySels,  \* the positions of SW[4:2] in use
  MaxBoots   \* bound on the starts of the program

ASSUME MotorAppAssumption == DutySels \subseteq 0..7 /\ MaxBoots \in Nat

VARIABLES
  switches,   \* the switches as they are
  pc, sw, last_sw,
  written, running, waiting,  \* the motor PWM: PwmPromise
  seg7,       \* the registers of the display
  boots

program == <<pc, sw, last_sw>>
pwm == <<written, running, waiting>>
vars == <<switches, program, pwm, seg7, boots>>

Display == INSTANCE Seg7

Motors == {0, 1}
MOTOR_TEST_PERIOD == 1000

duty_from_sel ==
  [sel \in 0..7 |-> IF sel = 0 THEN 0 ELSE IF sel <= 5 THEN 50 + 50 * sel
                    ELSE 100 * sel - 200]

Duties == {duty_from_sel[sel] : sel \in 0..7}

SwitchWords == [enable : BOOLEAN, dir : BOOLEAN, sel : DutySels, motor : Motors]

(* last_sw before the first poll: 0xFFFF, which no masked word equals.     *)
NoSwitches == [enable |-> FALSE, dir |-> FALSE, sel |-> 8, motor |-> 0]

MotorRegs ==
  [enable : BOOLEAN, period : Nat, duty : [Motors -> Nat],
   dir : SUBSET Motors, ch_enable : SUBSET Motors]

PWM == INSTANCE PwmPromise WITH Registers <- MotorRegs

ResetRegs ==
  [enable |-> FALSE, period |-> 0, duty |-> [m \in Motors |-> 0],
   dir |-> {}, ch_enable |-> {}]

(* The registers a switch word asks for.                                   *)
Setting(s) ==
  [enable |-> s.enable,
   period |-> MOTOR_TEST_PERIOD,
   duty |-> [m \in Motors |-> IF m = s.motor THEN duty_from_sel[s.sel] ELSE 0],
   dir |-> IF s.dir THEN Motors ELSE {},
   ch_enable |-> IF s.enable THEN {s.motor} ELSE {}]

pack_decimal_6digits(value) == [i \in 0..5 |-> (value \div 10^i) % 10]

----------------------------------------------------------------------------

At(here, next) == pc = here /\ pc' = next /\ UNCHANGED <<switches, boots>>

Write(regs) ==
  /\ written' = regs
  /\ PWM!Defer(FALSE)
  /\ UNCHANGED <<sw, last_sw, seg7>>

pwm_apply ==
  /\ UNCHANGED written
  /\ PWM!Progress(TRUE)
  /\ UNCHANGED <<sw, last_sw, seg7>>

Show(regs) == seg7' = regs /\ UNCHANGED <<sw, last_sw, pwm>>

(* set_tris, seg7_init.                                                    *)
Setup ==
  \/ At("tris", "sw_value") /\ UNCHANGED <<sw, last_sw, pwm, seg7>>
  \/ At("sw_value", "dp_n") /\ Show(Display!SetSwValue(seg7, Display!Zero))
  \/ At("dp_n", "blank") /\ Show(Display!SetDpN(seg7, Display!Digits))
  \/ At("blank", "ctrl") /\ Show(Display!SetBlank(seg7, {}))
  \/ At("ctrl", "show0") /\ Show(Display!InitCtrl(seg7))

(* Faulty variant: the live source stays selected.                         *)
ShowLive(first, second, third, next, duty) ==
  \/ At(first, second) /\ Show(Display!SetMode(seg7, "full6"))
  \/ At(second, third) /\ Show(seg7)
  \/ At(third, next)
       /\ Show(Display!SetSwValue(seg7, pack_decimal_6digits(duty)))

(* Its three register updates, one after the other.                        *)
seg7_show_duty_decimal(first, second, third, next, duty) ==
  \/ At(first, second) /\ Show(Display!SelectSoftware(seg7))
  \/ At(second, third) /\ Show(Display!SetMode(seg7, "full6"))
  \/ At(third, next)
       /\ Show(Display!SetSwValue(seg7, pack_decimal_6digits(duty)))

motor_disable_all ==
  \/ At("off_ch", "off_ctrl") /\ Write([written EXCEPT !.ch_enable = {}])
  \/ At("off_ctrl", "off_apply") /\ Write([written EXCEPT !.enable = FALSE])
  \/ At("off_apply", "poll") /\ pwm_apply

get_switches ==
  /\ pc = "poll"
  /\ sw' = switches
  /\ pc' = IF switches # last_sw THEN "period" ELSE "sleep"
  /\ UNCHANGED <<last_sw, switches, boots, pwm, seg7>>

(* Faulty variant: the duty of the other motor is left as it was.          *)
WriteOneDuty(duty) ==
  \/ At("duty0", "duty1") /\ UNCHANGED <<sw, last_sw, seg7, pwm>>
  \/ At("duty1", "dir")
       /\ Write([written EXCEPT !.duty[sw.motor] = duty[sw.motor]])

WriteDuties(duty) ==
  \/ At("duty0", "duty1") /\ Write([written EXCEPT !.duty[0] = duty[0]])
  \/ At("duty1", "dir") /\ Write([written EXCEPT !.duty[1] = duty[1]])

motor_apply_switch_control ==
  LET new == Setting(sw) IN
  \/ At("period", "duty0") /\ Write([written EXCEPT !.period = new.period])
  \/ WriteDuties(new.duty)
  \/ At("dir", "ch_enable") /\ Write([written EXCEPT !.dir = new.dir])
  \/ At("ch_enable", "enable")
       /\ Write([written EXCEPT !.ch_enable = new.ch_enable])
  \/ At("enable", "apply") /\ Write([written EXCEPT !.enable = new.enable])
  \/ At("apply", "show") /\ pwm_apply

(* Faulty variant: last_sw is read anew after the update.                  *)
RememberFresh ==
  /\ At("remember", "sleep")
  /\ last_sw' = switches
  /\ UNCHANGED <<sw, pwm, seg7>>

Remember ==
  /\ At("remember", "sleep")
  /\ last_sw' = sw
  /\ UNCHANGED <<sw, pwm, seg7>>

(* 20 ms, against a PWM period of 1000 clocks: an APPLY made before it has *)
(* taken effect when it ends.                                              *)
usleep ==
  /\ At("sleep", "poll")
  /\ ~waiting
  /\ UNCHANGED <<sw, last_sw, pwm, seg7>>

Program ==
  \/ Setup
  \/ seg7_show_duty_decimal("show0", "show0_mode", "show0_value", "off_ch", 0)
  \/ motor_disable_all
  \/ get_switches
  \/ motor_apply_switch_control
  \/ seg7_show_duty_decimal("show", "show_mode", "show_value", "remember",
                            duty_from_sel[sw.sel])
  \/ Remember \/ usleep

(* The PWM reaches the end of its period with an APPLY waiting.            *)
PeriodEnds ==
  /\ PWM!TakeEffect(FALSE)
  /\ UNCHANGED <<switches, program, written, seg7, boots>>

FlipSwitch ==
  /\ switches' \in SwitchWords
  /\ \E f \in DOMAIN switches :
       /\ switches'[f] # switches[f]
       /\ \A g \in DOMAIN switches \ {f} : switches'[g] = switches[g]
  /\ UNCHANGED <<program, pwm, seg7, boots>>

Start ==
  /\ boots < MaxBoots
  /\ boots' = boots + 1
  /\ pc' = "tris" /\ sw' = NoSwitches /\ last_sw' = NoSwitches
  /\ UNCHANGED <<switches, pwm, seg7>>

Init ==
  /\ switches \in SwitchWords
  /\ pc = "tris" /\ sw = NoSwitches /\ last_sw = NoSwitches
  /\ written = ResetRegs /\ PWM!PromiseInit
  /\ seg7 = Display!Reset
  /\ boots = 1

Next == Program \/ PeriodEnds \/ FlipSwitch \/ Start

(* The program runs, and so does the PWM.                                  *)
Fairness == WF_vars(Program) /\ WF_vars(PeriodEnds)

Spec == Init /\ [][Next]_vars

FairSpec == Spec /\ Fairness

----------------------------------------------------------------------------

Labels ==
  {"tris", "sw_value", "dp_n", "blank", "ctrl", "show0", "show0_mode",
   "show0_value", "off_ch", "off_ctrl", "off_apply", "poll", "period", "duty0",
   "duty1", "dir", "ch_enable", "enable", "apply", "show", "show_mode",
   "show_value", "remember", "sleep"}

TypeOK ==
  /\ switches \in SwitchWords
  /\ pc \in Labels
  /\ sw \in SwitchWords \cup {NoSwitches}
  /\ last_sw \in SwitchWords \cup {NoSwitches}
  /\ written \in MotorRegs /\ running \in MotorRegs /\ waiting \in BOOLEAN
  /\ seg7 \in Display!Registers
  /\ boots \in Nat

Drives(regs) == regs.enable /\ regs.ch_enable # {}

(* A motor that turns is driven exactly as one position of the switches    *)
(* says: never with the duty of one and the direction of another, never    *)
(* both motors at once, whenever the PWM takes its APPLY and also when the *)
(* program starts again with a motor running or an APPLY waiting.          *)
WholeSetting ==
  Drives(running) => \E s \in SwitchWords : running = Setting(s)

Reading(regs) ==
  [i \in 0..5 |-> IF i \in Display!Dark(regs) THEN 16
                  ELSE Display!active_value(regs, Display!Zero)[i]]

(* Between two updates the display reads, in decimal and without blanks or *)
(* points, the duty the motor is driven with (main.c:158).                 *)
DisplayTells ==
  pc = "poll" /\ last_sw # NoSwitches =>
    /\ Reading(seg7) = pack_decimal_6digits(running.duty[0] + running.duty[1])
    /\ Display!Points(seg7) = {}

(* Once nobody flips a switch any more, the PWM runs what the switches say *)
(* for good, also after a switch flipped while an update was under way.    *)
Follows ==
  <>[][FALSE]_switches => <>[](running = Setting(switches) /\ ~waiting)
=============================================================================
