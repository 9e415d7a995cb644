------------------------------ MODULE BringUp ------------------------------
(***************************************************************************)
(* The bring-up program src/base_main.c: once the sensors are configured,  *)
(* a loop reads switches and sensors, drives the motors, shows a page on   *)
(* the seven-segment display and moves the LEDs.  A step is a driver call  *)
(* of the motors or a part of the loop; what a round reads is chosen where *)
(* it is first used, and forgotten when the round is over.  The calls of   *)
(* the motor driver and pwm_common_apply_frame are not in the repository:  *)
(* they are taken to write shadow registers that the call of apply         *)
(* commits, or to fail without effect.                                     *)
(***************************************************************************)
EXTENDS Sensors, BringUpMath

CONSTANTS
  Samples,      \* what the sensors measure
  Ticks,        \* stands for 2^32, where motor_tick and led_step wrap
  SweepPeriod   \* MOTOR_SWEEP_PERIOD_TICKS

(* Two bytes each; ten bits, right-justified, of the ADXL345 in its +-2 g. *)
Int16 == {raw \in Int : -32768 <= raw /\ raw <= 32767}
Int10 == {raw \in Int : -512 <= raw /\ raw <= 511}
Measures == [gyro : [1..3 -> Int16], accel : [1..3 -> Int16], temp : Int16,
             adxl : [1..3 -> Int10]]

ASSUME BringUpAssumption ==
  /\ Ticks \in Nat \ {0} /\ SweepPeriod \in Nat
  /\ Samples \subseteq Measures

VARIABLES
  tick,                \* motor_tick, and led_step, which is always the same
  cmd, next,           \* {left,right}_motor_duty_cmd and next_...
  coasting,            \* motor_outputs_are_coasting
  asked, applied,      \* what the motors were told, and what they do
  failed,              \* history: a call of the last update failed
  sweeping, swept,     \* history: this round, the last one sweeps the duty
  seg7, lights,
  shown                \* history: what this round has just shown

motors == <<asked, applied, failed>>
commands == <<cmd, next, coasting>>
displays == <<seg7, lights, shown>>
sweeps == <<sweeping, swept>>
loopVars == <<tick, commands, motors, sweeps, displays>>
vars == <<sensorVars, loopVars>>

Display == INSTANCE Seg7

MOTOR_SMALL_DUTY == 2000
MOTOR_SWEEP_MIN_DUTY == 1000
MOTOR_SWEEP_MAX_DUTY == 8000

Both(duty) == [left |-> duty, right |-> duty]
Coast == -1
SwitchWords == [coast : BOOLEAN, hold : BOOLEAN, sweep : BOOLEAN]
Pages == 0..7
Nothing == [page |-> 8]

Vector(v) == <<v, v, v>>

sensorsRest == <<wired, devices, step, cached>>

At(here, next_pc) == pc = here /\ pc' = next_pc /\ UNCHANGED sensorsRest

----------------------------------------------------------------------------
(* The motors.                                                             *)

(* A call of the motor driver makes its change, or fails without effect.   *)
Call(here, done, broken, change) ==
  /\ pc = here
  /\ \/ pc' = done /\ change /\ UNCHANGED <<failed, failures>>
     \/ pc' = broken /\ Fail /\ failed' = TRUE /\ UNCHANGED <<asked, applied>>
  /\ UNCHANGED <<sensorsRest, tick, commands, sweeps, displays>>

Set(motor, duty) ==
  asked' = [asked EXCEPT ![motor] = duty] /\ UNCHANGED applied

(* Faulty variant: the right motor is left out.                            *)
SetLeftOnly(left, right, apply, pair, done, broken) ==
  \/ Call(left, right, broken, Set("left", pair.left))
  \/ Call(right, apply, broken, UNCHANGED <<asked, applied>>)
  \/ Call(apply, done, broken, applied' = asked /\ UNCHANGED asked)

(* Left, right, apply; the first failure ends it.                          *)
motor_apply_signed_pair(left, right, apply, pair, done, broken) ==
  \/ Call(left, right, broken, Set("left", pair.left))
  \/ Call(right, apply, broken, Set("right", pair.right))
  \/ Call(apply, done, broken, applied' = asked /\ UNCHANGED asked)

(* A failure stops the program before the loop.                            *)
motor_init_idle ==
  \/ Call("motor_init", "idle_left", "halt", UNCHANGED <<asked, applied>>)
  \/ motor_apply_signed_pair("idle_left", "idle_right", "idle_apply", Both(0),
                             "seg7_init", "halt")

(* motor_pwm_apply is called whether or not motor_pwm_coast_all worked.    *)
CoastMotors ==
  \/ Call("coast_all", "coast_apply", "coast_apply",
          asked' = Both(Coast) /\ UNCHANGED applied)
  \/ Call("coast_apply", "coasted", "coasted",
          applied' = asked /\ UNCHANGED asked)

(* What main remembers afterwards, whatever the calls returned.            *)
Coasted ==
  /\ At("coasted", "show")
  /\ coasting' = TRUE
  /\ UNCHANGED <<failures, tick, cmd, next, motors, sweeps, displays>>

Commanded ==
  /\ At("commanded", "show")
  /\ cmd' = next /\ coasting' = FALSE
  /\ UNCHANGED <<failures, tick, next, motors, sweeps, displays>>

----------------------------------------------------------------------------
(* The loop.                                                               *)

(* seg7_init, select_software, set_blank, set_dp_n; set_tris.              *)
Seg7Init ==
  /\ At("seg7_init", "poll")
  /\ seg7' = [Display!SelectSoftware(Display!InitCtrl(seg7)) EXCEPT
                !.sw_value = Display!Zero, !.dp_n = Display!Digits, !.blank = {}]
  /\ UNCHANGED <<failures, tick, commands, motors, sweeps, lights, shown>>

(* The ADXL345 measures, or it cannot be heard.                            *)
adxl345_read_xyz_raw(s) ==
  IF Answers THEN {s.adxl} ELSE {Vector(0), Vector(-1)}

NextDuties(word) ==
  IF word.hold THEN cmd
  ELSE IF word.sweep
       THEN Both(motor_sweep_duty(tick, MOTOR_SWEEP_MIN_DUTY,
                                  MOTOR_SWEEP_MAX_DUTY, SweepPeriod))
       ELSE Both(MOTOR_SMALL_DUTY)

Poll ==
  /\ pc = "poll"
  /\ \E sw \in SwitchWords :
       /\ next' = IF sw.coast THEN cmd ELSE NextDuties(sw)
       /\ sweeping' = (sw.sweep /\ ~sw.hold /\ ~sw.coast)
       /\ pc' = IF sw.coast THEN IF coasting THEN "show" ELSE "coast_all"
                ELSE IF coasting \/ next' # cmd THEN "left" ELSE "show"
  /\ failed' = IF pc' = "show" THEN failed ELSE FALSE
  /\ UNCHANGED <<sensorsRest, failures, tick, cmd, coasting, asked, applied,
                 swept, displays>>

(* Faulty variant: the scale of the other sensor.                          *)
adxl_byte_of_mpu(raw) ==
  normalize_to_s8(raw_to_milli_g(raw, mpu6500_lsb_per_g(mpu_accel_config)),
                  full_scale_mg(adxl_range(adxl_data_format)))

adxl_byte(raw) ==
  normalize_to_s8(raw_to_milli_g(raw, adxl345_lsb_per_g(adxl_data_format)),
                  full_scale_mg(adxl_range(adxl_data_format)))

mpu_byte(raw) ==
  normalize_to_s8(raw_to_milli_g(raw, mpu6500_lsb_per_g(mpu_accel_config)),
                  full_scale_mg(mpu_range(mpu_accel_config)))

gyro_byte(raw) == normalize_to_s8(raw, 32767)

Bytes(byte(_), v) == pack_u8x3([i \in 1..3 |-> byte(v[i])])

PageDigits(page, xyz, sample) ==
  CASE page = 0 -> Bytes(gyro_byte, sample.gyro)
    [] page = 2 -> Bytes(adxl_byte, xyz)
    [] page = 3 -> pack_u12x2(0, saturate_abs_u12(
                     mpu6500_temp_raw_to_centi_f(sample.temp) \div 100))
    [] page = 4 -> pack_u12x2(0, saturate_abs_u12(cmd.left))
    [] page = 5 -> pack_u12x2(0, saturate_abs_u12(cmd.right))
    [] OTHER    -> Bytes(mpu_byte, sample.accel)

seg7_update_switch_page(page, xyz, sample) ==
  seg7' = [Display!SetMode(seg7, IF page \in 3..5 THEN "split2x12"
                                 ELSE "split3x8") EXCEPT
             !.dp_n = Display!Digits, !.blank = {},
             !.sw_value = PageDigits(page, xyz, sample)]

(* Only when the MPU-6500 was read; adxl345_read_xyz_raw never fails.      *)
Show ==
  /\ At("show", "lights")
  /\ \/ \E page \in Pages, sample \in Samples :
          \E xyz \in adxl345_read_xyz_raw(sample) :
            /\ seg7_update_switch_page(page, xyz, sample)
            /\ shown' = [page |-> page, sample |-> sample]
     \/ UNCHANGED <<seg7, shown>>
  /\ UNCHANGED <<failures, tick, commands, motors, sweeps, lights>>

led_pwm_set_step(n) == lights' = led_frame(n)

FirstLights ==
  /\ At("leds", "motor_init")
  /\ led_pwm_set_step(0)
  /\ UNCHANGED <<failures, tick, commands, motors, sweeps, seg7, shown>>

MoveLights ==
  /\ At("lights", "poll")
  /\ led_pwm_set_step(tick)
  /\ tick' = (tick + 1) % Ticks
  /\ swept' = sweeping /\ sweeping' = FALSE
  /\ next' = cmd /\ shown' = Nothing
  /\ UNCHANGED <<failures, cmd, coasting, motors, seg7>>

----------------------------------------------------------------------------

Init ==
  /\ SensorsInit
  /\ tick = 0
  /\ cmd = Both(0) /\ next = Both(0) /\ coasting = FALSE
  /\ asked \in {Both(0), Both(MOTOR_SMALL_DUTY)} /\ applied = asked
  /\ failed = FALSE /\ sweeping = FALSE /\ swept = FALSE
  /\ seg7 = Display!Reset
  /\ lights = [i \in 0..LED_CHANNELS - 1 |-> 0]
  /\ shown = Nothing

Program ==
  \/ Configure /\ UNCHANGED loopVars
  \/ FirstLights \/ motor_init_idle \/ Seg7Init
  \/ Poll
  \/ CoastMotors \/ Coasted
  \/ motor_apply_signed_pair("left", "right", "apply", next,
                             "commanded", "commanded")
  \/ Commanded
  \/ Show \/ MoveLights

Halted == pc = "halt" /\ UNCHANGED vars

Next ==
  \/ Program
  \/ ComesLoose /\ UNCHANGED loopVars
  \/ Halted

Spec == Init /\ [][Next]_vars /\ WF_vars(Program)

----------------------------------------------------------------------------

Loop ==
  {"poll", "coast_all", "coast_apply", "coasted", "left", "right", "apply",
   "commanded", "show", "lights"}

Identified ==
  ids = [adxl |-> ADXL345_DEVID_VALUE, mpu |-> MPU6500_WHO_AM_I_EXPECTED]

(* The loop runs only over two sensors that are the expected ones and      *)
(* fully configured, and with the scales that they measure with, whatever  *)
(* calls failed and whatever the sensors held before.  Of the ADXL345 this *)
(* is known only while it stays connected.                                 *)
LoopReady ==
  pc \in Loop =>
    /\ Identified
    /\ \A i \in DOMAIN MpuSetup : mpu[MpuSetup[i].reg] = MpuSetup[i].value
    /\ mpu_accel_config = mpu["ACCEL_CONFIG"]
    /\ wired => adxl = AdxlReady /\ adxl_data_format = adxl.format

(* The motors do what the program last commanded, unless a call of the     *)
(* last update failed; and after one failed call, wherever it came, they   *)
(* never run apart (base_main.c:646-684).                                  *)
MotorsFollow ==
  pc \in {"poll", "show", "lights"} =>
    /\ ~failed => applied = IF coasting THEN Both(Coast) ELSE cmd
    /\ applied.left = applied.right

Signed(byte) == IF byte < 128 THEN byte ELSE byte - 256
ByteShown(i) ==
  Signed(16 * seg7.sw_value[7 - 2 * i] + seg7.sw_value[6 - 2 * i])
Near(byte, raw, full) ==
  100 * Distance(byte * full, 127 * raw) <= 55 * full
Tells(v, full) == \A i \in 1..3 : Near(ByteShown(i), v[i], full)

WordShown ==
  256 * seg7.sw_value[2] + 16 * seg7.sw_value[1] + seg7.sw_value[0]
TellsDuty(duty) == WordShown = IF duty > 4095 THEN 4095 ELSE duty

(* A page just shown tells what it names: an axis as the share of the full *)
(* scale in 127ths, the duty that the motor is driven with up to 4095.     *)
PageTells ==
  LET page == shown.page IN
  page \in Pages =>
    /\ Display!Dark(seg7) = {} /\ seg7.software
    /\ page = 0 => Tells(shown.sample.gyro, 32767)
    /\ page \in {1, 6, 7} => Tells(shown.sample.accel, 32768)
    /\ page = 2 /\ wired => Tells(shown.sample.adxl, 512)
    /\ ~failed /\ ~coasting /\ page = 4 => TellsDuty(applied.left)
    /\ ~failed /\ ~coasting /\ page = 5 => TellsDuty(applied.right)

(* The temperature page tells the degrees Fahrenheit of the formula of     *)
(* i2c_mpu6500.c:19, to two degrees.                                       *)
TemperatureTold ==
  shown.page = 3 =>
    LET centi_c == 2100 + (shown.sample.temp * 10000) \div 33387
    IN Distance(100 * WordShown, 3200 + (centi_c * 9) \div 5) <= 200

(* Between two rounds that sweep, the duty moves by no more than one tick  *)
(* of the sweep, and the brightest LED moves to a neighbour; all LEDs stay *)
(* below the PWM period.  The wrap of the counters is the exception.       *)
MovesSmoothly ==
  [][/\ cmd' # cmd /\ swept /\ sweeping /\ tick # 0 =>
          Distance(cmd'.left, cmd.left)
            <= (MOTOR_SWEEP_MAX_DUTY - MOTOR_SWEEP_MIN_DUTY)
                 \div (SweepPeriod \div 2) + 1
     /\ tick' # tick /\ tick # 0 =>
          \E i, j \in DOMAIN lights :
            /\ Distance(i, j) = 1
            /\ \A k \in DOMAIN lights :
                 lights[k] <= lights[i] /\ lights'[k] <= lights'[j]
            /\ lights'[j] < LED_PWM_PERIOD_DEFAULT]_vars

(* With the right sensors connected, whatever their registers held, and no *)
(* call failing, the program reaches its loop.                             *)
StartsUp ==
  Identified /\ [](wired /\ failures = 0) => <>(pc = "poll")
=============================================================================
