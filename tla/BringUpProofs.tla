--------------------------- MODULE BringUpProofs ---------------------------
(***************************************************************************)
(* What holds of the bring-up program whatever the sensors held before,    *)
(* whichever calls fail and whenever the wiring comes loose: its loop runs *)
(* only over sensors it has identified and configured (IInv), the motors   *)
(* do what was commanded (MotorInv, and EvenInv as long as at most one     *)
(* call ever fails), a page tells what it names (PageInv, over lemmas on   *)
(* the arithmetic of the pages), and sweep and LEDs move in small steps    *)
(* (SmoothInv).                                                            *)
(***************************************************************************)
EXTENDS BringUp, TLAPS

(* The labels at which what a step of the configuration establishes is not *)
(* known yet, or is known to have failed.                                  *)
BeforeIdentified == {"adxl_format", "adxl_check", "adxl_id", "halt"}
BeforeRate == BeforeIdentified \cup {"adxl_rate"}
BeforePower == BeforeRate \cup {"adxl_power"}
BeforeFormatRead == BeforePower \cup {"devid", "data_format"}
BeforeProbed == BeforeFormatRead \cup {"mpu_probe"}
BeforeSetUp == BeforeProbed \cup {"mpu_write"}
BeforeLoop == BeforeSetUp \cup {"whoami", "accel_config", "check"}

Types ==
  /\ ids \in [adxl : Int, mpu : Int]
  /\ adxl \in [format : Int, rate : Int, power : Int]
  /\ mpu \in [MpuRegs -> Int]
  /\ step \in 1..7

(* The ADXL345.  That it is the right one was read from it, and what a     *)
(* write leaves in it holds only while it is connected.                    *)
AdxlInv ==
  /\ pc # "adxl_format" => (wired => adxl.format = 0)
  /\ pc \notin BeforeIdentified => ids.adxl = ADXL345_DEVID_VALUE
  /\ pc \notin BeforeRate => (wired => adxl.rate = 10)
  /\ pc \notin BeforePower => (wired => adxl.power = 8)
  /\ pc \notin BeforeFormatRead => (wired => adxl_data_format = 0)

Written(i) == mpu[MpuSetup[i].reg] = MpuSetup[i].value

(* The MPU-6500.  Its registers are written in order.                      *)
MpuInv ==
  /\ pc \notin BeforeProbed => ids.mpu = MPU6500_WHO_AM_I_EXPECTED
  /\ pc \in BeforeProbed \ {"halt"} => step = 1
  /\ pc = "mpu_write" => \A i \in 1..7 : i < step => Written(i)
  /\ pc \notin BeforeSetUp => \A i \in 1..7 : Written(i)
  /\ pc \notin BeforeSetUp \cup {"whoami", "accel_config"} =>
       mpu_accel_config = mpu["ACCEL_CONFIG"]

IInv == Types /\ AdxlInv /\ MpuInv

----------------------------------------------------------------------------

LEMMA SetupLen == Len(MpuSetup) = 7 /\ DOMAIN MpuSetup = 1..7
BY DEF MpuSetup

LEMMA SetupTable ==
  /\ MpuSetup[1] = [reg |-> "PWR_MGMT_1", value |-> 1]
  /\ MpuSetup[2] = [reg |-> "PWR_MGMT_2", value |-> 0]
  /\ MpuSetup[3] = [reg |-> "SMPLRT_DIV", value |-> 0]
  /\ MpuSetup[4] = [reg |-> "CONFIG", value |-> 1]
  /\ MpuSetup[5] = [reg |-> "GYRO_CONFIG", value |-> 0]
  /\ MpuSetup[6] = [reg |-> "ACCEL_CONFIG", value |-> 0]
  /\ MpuSetup[7] = [reg |-> "ACCEL_CONFIG2", value |-> 1]
BY DEF MpuSetup

LEMMA SetupType ==
  ASSUME NEW i \in 1..7
  PROVE  MpuSetup[i].reg \in MpuRegs /\ MpuSetup[i].value \in Int
<1>1. MpuSetup[i].reg \in MpuRegs
  BY SetupLen DEF MpuRegs
<1>2. i \in {1, 2, 3, 4, 5, 6, 7}
  OBVIOUS
<1>3. MpuSetup[i].value \in Int
  BY <1>2, SetupTable
<1> QED
  BY <1>1, <1>3

(* No register is written twice.                                           *)
LEMMA SetupDistinct ==
  ASSUME NEW i \in 1..7, NEW j \in 1..7, i # j
  PROVE  MpuSetup[i].reg # MpuSetup[j].reg
<1>1. i \in {1, 2, 3, 4, 5, 6, 7} /\ j \in {1, 2, 3, 4, 5, 6, 7}
  OBVIOUS
<1> QED
  BY <1>1, SetupTable

LEMMA InitIInv == Init => IInv
<1> SUFFICES ASSUME Init PROVE IInv
  OBVIOUS
<1> USE DEF Init, SensorsInit
<1>1. /\ adxl \in [format : Int, rate : Int, power : Int]
      /\ ids \in [adxl : Int, mpu : Int]
  BY SensorsAssumption DEF ADXL345_DEVID_VALUE, MPU6500_WHO_AM_I_EXPECTED
<1>2. mpu \in [MpuRegs -> Int]
  BY SensorsAssumption
<1>3. pc = "adxl_format" /\ step = 1
  OBVIOUS
<1> QED
  BY <1>1, <1>2, <1>3
     DEF IInv, Types, AdxlInv, MpuInv, BeforeIdentified, BeforeRate, BeforePower,
         BeforeFormatRead, BeforeProbed, BeforeSetUp

(* A step of the loop, or one that gives up, which leaves the sensors and  *)
(* what is known of them alone.                                            *)
LEMMA LoopStep ==
  ASSUME IInv, UNCHANGED <<devices, step, cached>>, wired' => wired,
         pc' = "halt" \/ (pc \notin BeforeLoop /\ pc' \notin BeforeLoop) \/ pc' = pc,
         pc' = "halt" => pc # "adxl_format"
  PROVE  IInv'
<1>1. Types'
  BY DEF IInv, Types, devices
<1>2. AdxlInv'
  BY DEF IInv, AdxlInv, devices, cached, BeforeIdentified, BeforeRate, BeforePower,
         BeforeFormatRead, BeforeProbed, BeforeSetUp, BeforeLoop
<1>3. MpuInv'
  BY DEF IInv, MpuInv, Written, devices, cached, BeforeIdentified, BeforeRate,
         BeforePower, BeforeFormatRead, BeforeProbed, BeforeSetUp, BeforeLoop
<1> QED
  BY <1>1, <1>2, <1>3 DEF IInv

(* What comes back from the ADXL345 and is neither 0 nor 255 is from it.   *)
LEMMA Heard ==
  ASSUME NEW value, NEW byte \in adxl_read(value), byte \notin {0, 255}
  PROVE  byte = value
BY DEF adxl_read

LEMMA AdxlStep ==
  ASSUME IInv, adxl345_init_default
  PROVE  IInv'
<1> USE DEF IInv, Types, AdxlInv, MpuInv, Written, devices, cached, BeforeIdentified,
            BeforeRate, BeforePower, BeforeFormatRead, BeforeProbed, BeforeSetUp,
            BeforeLoop
<1>1. CASE adxl345_write_reg("adxl_format", "adxl_check", [adxl EXCEPT !.format = 0])
  BY <1>1 DEF adxl345_write_reg
<1>2. CASE adxl345_read_reg("adxl_check", adxl.format, 0, "adxl_id")
  BY <1>2 DEF adxl345_read_reg
<1>3. CASE adxl345_read_reg("adxl_id", ids.adxl, ADXL345_DEVID_VALUE, "adxl_rate")
  <2>1. pc' \in {"adxl_rate", "halt"} /\ pc = "adxl_id"
    BY <1>3 DEF adxl345_read_reg
  <2>2. pc' = "adxl_rate" => ids.adxl = ADXL345_DEVID_VALUE
    BY <1>3, Heard DEF adxl345_read_reg, ADXL345_DEVID_VALUE
  <2> QED
    BY <1>3, <2>1, <2>2 DEF adxl345_read_reg
<1>4. CASE adxl345_write_reg("adxl_rate", "adxl_power", [adxl EXCEPT !.rate = 10])
  BY <1>4 DEF adxl345_write_reg
<1>5. CASE adxl345_write_reg("adxl_power", "devid", [adxl EXCEPT !.power = 8])
  BY <1>5 DEF adxl345_write_reg
<1> QED
  BY <1>1, <1>2, <1>3, <1>4, <1>5 DEF adxl345_init_default

(* While the ADXL345 is connected its 3-wire bit is clear, and DATA_FORMAT  *)
(* is read as it is.                                                       *)
LEMMA ReadBackStep ==
  ASSUME IInv, adxl345_read_device_id \/ ReadDataFormat \/ mpu6500_read_whoami
               \/ ReadAccelConfig \/ CheckIdentities
  PROVE  IInv'
<1> USE DEF IInv, Types, AdxlInv, MpuInv, Written, devices, cached, BeforeIdentified,
            BeforeRate, BeforePower, BeforeFormatRead, BeforeProbed, BeforeSetUp,
            BeforeLoop
<1>1. CASE adxl345_read_device_id
  BY <1>1 DEF adxl345_read_device_id
<1>2. CASE ReadDataFormat
  <2>1. pc = "data_format" /\ pc' = "mpu_probe"
    BY <1>2 DEF ReadDataFormat
  <2>2. wired => adxl_data_format' = 0
    BY <1>2, <2>1 DEF ReadDataFormat, adxl_read, Answers
  <2> QED
    BY <1>2, <2>1, <2>2 DEF ReadDataFormat
<1>3. CASE mpu6500_read_whoami
  BY <1>3 DEF mpu6500_read_whoami
<1>4. CASE ReadAccelConfig
  BY <1>4 DEF ReadAccelConfig
<1>5. CASE CheckIdentities
  BY <1>5 DEF CheckIdentities
<1> QED
  BY <1>1, <1>2, <1>3, <1>4, <1>5

LEMMA MpuStep ==
  ASSUME IInv, mpu6500_probe \/ mpu6500_write_reg
  PROVE  IInv'
<1>1. CASE mpu6500_probe
  BY <1>1 DEF mpu6500_probe, IInv, Types, AdxlInv, MpuInv, Written, devices, cached,
              BeforeIdentified, BeforeRate, BeforePower, BeforeFormatRead,
              BeforeProbed, BeforeSetUp, BeforeLoop
<1>2. CASE mpu6500_write_reg
  <2>1. /\ pc = "mpu_write" /\ SetMpu
        /\ UNCHANGED <<wired, ids, adxl, cached>>
    BY <1>2 DEF mpu6500_write_reg
  <2>2. AdxlInv'
    BY <1>2, <2>1, SetupLen
       DEF mpu6500_write_reg, IInv, AdxlInv, cached, BeforeIdentified, BeforeRate,
           BeforePower, BeforeFormatRead, BeforeProbed, BeforeSetUp, BeforeLoop
  <2>3. step \in 1..7
    BY DEF IInv, Types
  <2>4. /\ mpu' \in [MpuRegs -> Int]
        /\ mpu'[MpuSetup[step].reg] = MpuSetup[step].value
    BY <2>1, <2>3, SetupType DEF SetMpu, IInv, Types
  <2>5. ASSUME NEW i \in 1..7, i # step, Written(i)
        PROVE  Written(i)'
    BY <2>1, <2>3, <2>5, SetupType, SetupDistinct DEF SetMpu, IInv, Types, Written
  <2>6. pc' = "halt" \/ (pc' = "mpu_write" /\ step < 7 /\ step' = step + 1)
          \/ (pc' = "whoami" /\ step = 7 /\ step' = step)
    BY <1>2, <2>3, SetupLen DEF mpu6500_write_reg
  <2>7. Types'
    BY <1>2, <2>1, <2>3, <2>4, <2>6 DEF mpu6500_write_reg, IInv, Types
  <2>8. \A i \in 1..7 : i < step => Written(i)
    BY <2>1 DEF IInv, MpuInv
  <2>9. \A i \in 1..7 : i <= step => Written(i)'
    BY <2>3, <2>4, <2>5, <2>8 DEF Written
  <2>10. ids'.mpu = MPU6500_WHO_AM_I_EXPECTED
    BY <2>1 DEF IInv, MpuInv, BeforeProbed, BeforeFormatRead, BeforePower, BeforeRate,
                BeforeIdentified
  <2>11. MpuInv'
    <3>1. CASE pc' = "halt"
      BY <3>1 DEF MpuInv, BeforeSetUp, BeforeProbed, BeforeFormatRead, BeforePower,
                  BeforeRate, BeforeIdentified
    <3>2. CASE pc' = "mpu_write" /\ step < 7 /\ step' = step + 1
      BY <2>3, <2>9, <2>10, <3>2
         DEF MpuInv, BeforeSetUp, BeforeProbed, BeforeFormatRead, BeforePower,
             BeforeRate, BeforeIdentified
    <3>3. CASE pc' = "whoami" /\ step = 7 /\ step' = step
      BY <2>9, <2>10, <3>3
         DEF MpuInv, BeforeSetUp, BeforeProbed, BeforeFormatRead, BeforePower,
             BeforeRate, BeforeIdentified
    <3> QED
      BY <2>6, <3>1, <3>2, <3>3
  <2> QED
    BY <2>2, <2>7, <2>11 DEF IInv
<1> QED
  BY <1>1, <1>2

LEMMA ConfigureStep ==
  ASSUME IInv, Configure, UNCHANGED loopVars
  PROVE  IInv'
<1>1. CASE mpu6500_fails
  BY <1>1, LoopStep DEF mpu6500_fails
<1> QED
  BY <1>1, AdxlStep, ReadBackStep, MpuStep DEF Configure

(* Every other step of the program stays behind the configuration.         *)
LEMMA CallStep ==
  ASSUME IInv, NEW here, NEW done, NEW broken, NEW change,
         Call(here, done, broken, change),
         here \notin BeforeLoop, done \notin BeforeLoop,
         broken = "halt" \/ broken \notin BeforeLoop
  PROVE  IInv'
<1>1. here # "adxl_format"
  BY DEF BeforeLoop, BeforeSetUp, BeforeProbed, BeforeFormatRead, BeforePower,
         BeforeRate, BeforeIdentified
<1> QED
  BY <1>1, LoopStep DEF Call, sensorsRest

LEMMA PairStep ==
  ASSUME IInv, NEW left, NEW right, NEW apply, NEW pair, NEW done, NEW broken,
         motor_apply_signed_pair(left, right, apply, pair, done, broken),
         {left, right, apply, done} \cap BeforeLoop = {},
         broken = "halt" \/ broken \notin BeforeLoop
  PROVE  IInv'
<1>1. left \notin BeforeLoop /\ right \notin BeforeLoop
      /\ apply \notin BeforeLoop /\ done \notin BeforeLoop
  OBVIOUS
<1>2. CASE Call(left, right, broken, Set("left", pair.left))
  BY <1>1, <1>2, CallStep
<1>3. CASE Call(right, apply, broken, Set("right", pair.right))
  BY <1>1, <1>3, CallStep
<1>4. CASE Call(apply, done, broken, applied' = asked /\ UNCHANGED asked)
  BY <1>1, <1>4, CallStep
<1> QED
  BY <1>2, <1>3, <1>4 DEF motor_apply_signed_pair

(* The steps of the loop that are no calls of the motors.                  *)
LEMMA RestStep ==
  ASSUME IInv, NEW here, NEW there, At(here, there),
         here \notin BeforeLoop, there \notin BeforeLoop
  PROVE  IInv'
<1>1. here # "adxl_format" /\ there # "halt"
  BY DEF BeforeLoop, BeforeSetUp, BeforeProbed, BeforeFormatRead, BeforePower,
         BeforeRate, BeforeIdentified
<1> QED
  BY <1>1, LoopStep DEF At, sensorsRest

LEMMA LateLabels ==
  ({"leds", "motor_init", "idle_left", "idle_right", "idle_apply", "seg7_init"}
     \cup Loop) \cap BeforeLoop = {}
BY DEF Loop, BeforeLoop, BeforeSetUp, BeforeProbed, BeforeFormatRead, BeforePower,
       BeforeRate, BeforeIdentified

LEMMA ProgramStep ==
  ASSUME IInv, Program
  PROVE  IInv'
<1> DEFINE Late(label) == label \notin BeforeLoop
<1>0. /\ Late("leds") /\ Late("motor_init") /\ Late("idle_left") /\ Late("idle_right")
      /\ Late("idle_apply") /\ Late("seg7_init") /\ Late("poll") /\ Late("coast_all")
      /\ Late("coast_apply") /\ Late("coasted") /\ Late("left") /\ Late("right")
      /\ Late("apply") /\ Late("commanded") /\ Late("show") /\ Late("lights")
  BY LateLabels DEF Loop
<1>1. CASE Configure /\ UNCHANGED loopVars
  BY <1>1, ConfigureStep
<1>2. CASE FirstLights
  BY <1>0, <1>2, RestStep DEF FirstLights
<1>3. CASE motor_init_idle
  <2>1. CASE Call("motor_init", "idle_left", "halt", UNCHANGED <<asked, applied>>)
    BY <1>0, <2>1, CallStep
  <2>2. CASE motor_apply_signed_pair("idle_left", "idle_right", "idle_apply",
                                     Both(0), "seg7_init", "halt")
    BY <1>0, <2>2, PairStep
  <2> QED
    BY <1>3, <2>1, <2>2 DEF motor_init_idle
<1>4. CASE Seg7Init
  BY <1>0, <1>4, RestStep DEF Seg7Init
<1>5. CASE Poll
  <2>1. pc = "poll" /\ pc' \in {"show", "coast_all", "left"} /\ UNCHANGED sensorsRest
    BY <1>5 DEF Poll
  <2> QED
    BY <1>0, <2>1, RestStep DEF At
<1>6. CASE CoastMotors
  <2>1. CASE Call("coast_all", "coast_apply", "coast_apply",
                  asked' = Both(Coast) /\ UNCHANGED applied)
    BY <1>0, <2>1, CallStep
  <2>2. CASE Call("coast_apply", "coasted", "coasted",
                  applied' = asked /\ UNCHANGED asked)
    BY <1>0, <2>2, CallStep
  <2> QED
    BY <1>6, <2>1, <2>2 DEF CoastMotors
<1>7. CASE Coasted
  BY <1>0, <1>7, RestStep DEF Coasted
<1>8. CASE motor_apply_signed_pair("left", "right", "apply", next,
                                   "commanded", "commanded")
  BY <1>0, <1>8, PairStep
<1>9. CASE Commanded
  BY <1>0, <1>9, RestStep DEF Commanded
<1>10. CASE Show
  BY <1>0, <1>10, RestStep DEF Show
<1>11. CASE MoveLights
  BY <1>0, <1>11, RestStep DEF MoveLights
<1> QED
  BY <1>1, <1>2, <1>3, <1>4, <1>5, <1>6, <1>7, <1>8, <1>9, <1>10, <1>11 DEF Program

LEMMA NextIInv == IInv /\ [Next]_vars => IInv'
<1> SUFFICES ASSUME IInv, [Next]_vars PROVE IInv'
  OBVIOUS
<1>1. CASE Program
  BY <1>1, ProgramStep
<1>2. CASE ComesLoose /\ UNCHANGED loopVars
  BY <1>2 DEF ComesLoose, IInv, Types, AdxlInv, MpuInv, Written, devices, cached
<1>3. CASE Halted \/ UNCHANGED vars
  BY <1>3 DEF Halted, vars, sensorVars, IInv, Types, AdxlInv, MpuInv, Written,
              devices, cached
<1> QED
  BY <1>1, <1>2, <1>3 DEF Next

LEMMA IInvLoopReady == IInv => LoopReady
<1> SUFFICES ASSUME IInv, pc \in Loop
             PROVE  /\ Identified
                    /\ \A i \in DOMAIN MpuSetup :
                         mpu[MpuSetup[i].reg] = MpuSetup[i].value
                    /\ mpu_accel_config = mpu["ACCEL_CONFIG"]
                    /\ wired => adxl = AdxlReady /\ adxl_data_format = adxl.format
  BY DEF LoopReady
<1>1. pc \notin BeforeLoop
  BY LateLabels
<1>2. /\ pc \notin BeforeSetUp \cup {"whoami", "accel_config"}
      /\ pc \notin BeforeProbed /\ pc \notin BeforeFormatRead
      /\ pc \notin BeforePower /\ pc \notin BeforeRate
      /\ pc \notin BeforeIdentified /\ pc # "adxl_format"
  BY <1>1 DEF BeforeLoop, BeforeSetUp, BeforeProbed, BeforeFormatRead, BeforePower,
              BeforeRate, BeforeIdentified
<1>3. /\ \A i \in DOMAIN MpuSetup : mpu[MpuSetup[i].reg] = MpuSetup[i].value
      /\ mpu_accel_config = mpu["ACCEL_CONFIG"]
  BY <1>2, SetupLen DEF IInv, MpuInv, Written
<1>4. wired => adxl = AdxlReady /\ adxl_data_format = adxl.format
  BY <1>2 DEF IInv, Types, AdxlInv, AdxlReady
<1>5. Identified
  BY <1>2 DEF IInv, Types, AdxlInv, MpuInv, Identified
<1> QED
  BY <1>3, <1>4, <1>5

(* The loop of the bring-up program runs only over the two sensors it      *)
(* expects, with every register it sets, and with the scales they measure  *)
(* with, for any state they were left in and any number of failed calls.   *)
THEOREM Ready == Spec => []LoopReady
<1>1. Spec => []IInv
  BY InitIInv, NextIInv, PTL DEF Spec
<1> QED
  BY <1>1, IInvLoopReady, PTL

----------------------------------------------------------------------------
(* The motors.                                                             *)

Quiet == {"poll", "show", "lights"}
BeforeSeg7 == BeforeLoop \cup {"leds", "motor_init", "idle_left", "idle_right",
                               "idle_apply"}

Pair(duties) == [left |-> duties.left, right |-> duties.right]

(* The program commands both motors the same duty.                         *)
AlikeInv ==
  /\ cmd = Both(cmd.left) /\ next = Both(next.left)
  /\ pc \in BeforeSeg7 \cup {"seg7_init"} => cmd = Both(0) /\ ~coasting
  /\ asked = Pair(asked)

(* How far an update has come, if none of its calls failed.                *)
UpdateInv ==
  /\ pc = "idle_right" => asked.left = 0
  /\ pc = "idle_apply" => asked = Both(0)
  /\ pc = "seg7_init" => applied = Both(0)
  /\ pc = "right" => asked.left = next.left
  /\ pc = "apply" => asked = next
  /\ pc = "commanded" /\ ~failed => applied = next
  /\ pc = "coast_apply" /\ ~failed => asked = Both(Coast)
  /\ pc = "coasted" /\ ~failed => applied = Both(Coast)
  /\ pc \in Quiet /\ ~failed => applied = IF coasting THEN Both(Coast) ELSE cmd

MotorInv == AlikeInv /\ UpdateInv

(* As long as at most one call ever fails: what was asked is uneven only   *)
(* after that failure, and every later update asks both motors.            *)
EvenInv ==
  /\ failures \in {0, 1}
  /\ pc \notin BeforeSeg7 => applied = Both(applied.left)
  /\ pc = "coast_apply" => asked = Both(asked.left)
  /\ pc \in Quiet \cup {"left", "coast_all", "coasted", "commanded", "seg7_init"}
       /\ failures = 0 => asked = Both(asked.left)

LEMMA LateMotorLabels ==
  /\ Loop \cap BeforeSeg7 = {} /\ "seg7_init" \notin BeforeSeg7
  /\ {"leds", "motor_init", "idle_left", "idle_right", "idle_apply", "halt"}
       \subseteq BeforeSeg7
BY DEF Loop, BeforeSeg7, BeforeLoop, BeforeSetUp, BeforeProbed, BeforeFormatRead,
       BeforePower, BeforeRate, BeforeIdentified

LEMMA ConfigureLabels ==
  ASSUME Configure
  PROVE  /\ pc \in BeforeLoop /\ pc' \in BeforeLoop \cup {"leds"}
         /\ failures' = failures \/ Fail
<1> USE DEF BeforeLoop, BeforeSetUp, BeforeProbed, BeforeFormatRead, BeforePower,
            BeforeRate, BeforeIdentified
<1>1. CASE adxl345_init_default
  BY <1>1 DEF adxl345_init_default, adxl345_write_reg, adxl345_read_reg
<1>2. CASE adxl345_read_device_id \/ ReadDataFormat
  BY <1>2 DEF adxl345_read_device_id, ReadDataFormat
<1>3. CASE mpu6500_fails \/ mpu6500_probe \/ mpu6500_write_reg
  BY <1>3 DEF mpu6500_fails, mpu6500_probe, mpu6500_write_reg
<1>4. CASE mpu6500_read_whoami \/ ReadAccelConfig \/ CheckIdentities
  BY <1>4 DEF mpu6500_read_whoami, ReadAccelConfig, CheckIdentities
<1> QED
  BY <1>1, <1>2, <1>3, <1>4 DEF Configure

LEMMA InitMotorInv == Init => MotorInv /\ (MaxFailures <= 1 => EvenInv)
<1>1. Init => pc = "adxl_format" /\ "adxl_format" \in BeforeSeg7 /\ failures = 0
  BY DEF Init, SensorsInit, BeforeSeg7, BeforeLoop, BeforeSetUp, BeforeProbed,
         BeforeFormatRead, BeforePower, BeforeRate, BeforeIdentified
<1> QED
  BY <1>1 DEF Init, MotorInv, AlikeInv, UpdateInv, EvenInv, Both, Pair, Quiet

(* Only a call that fails counts, and with MaxFailures <= 1 only once.     *)
LEMMA FailsOnce ==
  ASSUME MaxFailures <= 1, failures \in {0, 1}, Fail
  PROVE  failures = 0 /\ failures' = 1
BY SensorsAssumption DEF Fail

LEMMA ConfigureMotors ==
  ASSUME MotorInv, Configure, UNCHANGED loopVars
  PROVE  MotorInv' /\ (MaxFailures <= 1 /\ EvenInv => EvenInv')
<1>1. /\ pc \in BeforeSeg7 /\ pc' \in BeforeSeg7
      /\ pc' \notin {"idle_right", "idle_apply", "seg7_init"} \cup Loop
      /\ failures' = failures \/ Fail
  BY ConfigureLabels
     DEF BeforeSeg7, Loop, BeforeLoop, BeforeSetUp, BeforeProbed, BeforeFormatRead,
         BeforePower, BeforeRate, BeforeIdentified
<1>2. UNCHANGED <<cmd, next, coasting, asked, applied, failed>>
  BY DEF loopVars, commands, motors
<1>3. MotorInv'
  BY <1>1, <1>2 DEF MotorInv, AlikeInv, UpdateInv, Quiet, Loop, Pair
<1>4. ASSUME MaxFailures <= 1, EvenInv PROVE EvenInv'
  BY <1>1, <1>2, <1>4, FailsOnce DEF EvenInv, Quiet, Loop
<1> QED
  BY <1>3, <1>4

(* A call that is made or fails, from one label to the next.               *)
LEMMA Called ==
  ASSUME MotorInv, NEW here, NEW done, NEW broken, NEW change,
         Call(here, done, broken, change)
  PROVE  /\ pc = here /\ UNCHANGED <<cmd, next, coasting>>
         /\ \/ pc' = done /\ change /\ failed' = failed /\ failures' = failures
            \/ pc' = broken /\ Fail /\ failed' /\ UNCHANGED <<asked, applied>>
BY DEF Call, commands

LEMMA IdleMotors ==
  ASSUME MotorInv, motor_init_idle
  PROVE  MotorInv' /\ (MaxFailures <= 1 /\ EvenInv => EvenInv')
<1> USE LateMotorLabels DEF MotorInv, AlikeInv, UpdateInv, Quiet, Loop, Both, Pair
<1>1. UNCHANGED <<cmd, next, coasting>>
  BY DEF motor_init_idle, motor_apply_signed_pair, Call, commands
<1>2. pc \in {"motor_init", "idle_left", "idle_right", "idle_apply"}
  BY DEF motor_init_idle, motor_apply_signed_pair, Call
<1>3. CASE pc' = "halt" /\ Fail
  <2>1. asked' = asked
    BY <1>3 DEF motor_init_idle, motor_apply_signed_pair, Call
  <2>2. MotorInv'
    BY <1>1, <1>2, <1>3, <2>1
  <2>3. ASSUME MaxFailures <= 1, EvenInv PROVE EvenInv'
    BY <1>3, <2>3, FailsOnce DEF EvenInv
  <2> QED
    BY <2>2, <2>3
<1>4. CASE /\ failures' = failures
           /\ \/ pc = "motor_init" /\ pc' = "idle_left" /\ UNCHANGED <<asked, applied>>
              \/ pc = "idle_left" /\ pc' = "idle_right" /\ Set("left", 0)
              \/ pc = "idle_right" /\ pc' = "idle_apply" /\ Set("right", 0)
              \/ pc = "idle_apply" /\ pc' = "seg7_init" /\ applied' = asked
                   /\ asked' = asked
  <2>1. MotorInv'
    BY <1>1, <1>2, <1>4 DEF Set
  <2>2. ASSUME EvenInv PROVE EvenInv'
    BY <1>4, <2>2 DEF EvenInv
  <2> QED
    BY <2>1, <2>2
<1> QED
  BY <1>3, <1>4 DEF motor_init_idle, motor_apply_signed_pair, Call

(* A round without an update leaves the motors alone.                      *)
LEMMA PollMotors ==
  ASSUME MotorInv, Poll
  PROVE  MotorInv' /\ (MaxFailures <= 1 /\ EvenInv => EvenInv')
<1> USE LateMotorLabels DEF Loop
<1>1. /\ pc = "poll" /\ UNCHANGED <<cmd, coasting, asked, applied, failures>>
      /\ pc' = "show" => next' = cmd \/ coasting
      /\ pc' = "show" => failed' = failed
      /\ pc' \in {"show", "coast_all", "left"}
  BY DEF Poll
<1>2. next' = Both(next'.left)
  <2>1. PICK sw \in SwitchWords : next' = IF sw.coast THEN cmd ELSE NextDuties(sw)
    BY DEF Poll
  <2>2. cmd = Both(cmd.left)
    BY DEF MotorInv, AlikeInv
  <2>3. \A d : Both(d).left = d
    BY DEF Both
  <2>4. NextDuties(sw) = Both(NextDuties(sw).left)
    BY <2>2, <2>3 DEF NextDuties
  <2> QED
    BY <2>1, <2>2, <2>4
<1>3. AlikeInv'
  BY <1>1, <1>2 DEF MotorInv, AlikeInv, Pair
<1>4. UpdateInv'
  BY <1>1 DEF MotorInv, UpdateInv, Quiet
<1>5. ASSUME EvenInv PROVE EvenInv'
  BY <1>1, <1>5 DEF EvenInv, Quiet
<1> QED
  BY <1>3, <1>4, <1>5 DEF MotorInv

LEMMA PairMotors ==
  ASSUME MotorInv,
         motor_apply_signed_pair("left", "right", "apply", next,
                                 "commanded", "commanded")
  PROVE  MotorInv' /\ (MaxFailures <= 1 /\ EvenInv => EvenInv')
<1> USE LateMotorLabels DEF MotorInv, AlikeInv, UpdateInv, Quiet, Loop, Both, Pair
<1>1. UNCHANGED <<cmd, next, coasting>>
  BY DEF motor_apply_signed_pair, Call, commands
<1>2. CASE /\ pc' = "commanded" /\ Fail /\ failed' /\ UNCHANGED <<asked, applied>>
           /\ pc \in {"left", "right", "apply"}
  <2>1. MotorInv'
    BY <1>1, <1>2
  <2>2. ASSUME MaxFailures <= 1, EvenInv PROVE EvenInv'
    <3>1. failures = 0 /\ failures' = 1
      BY <1>2, <2>2, FailsOnce DEF EvenInv
    <3> QED
      BY <1>2, <2>2, <3>1 DEF EvenInv
  <2> QED
    BY <2>1, <2>2
<1>3. CASE /\ failures' = failures
           /\ \/ pc = "left" /\ pc' = "right" /\ Set("left", next.left)
              \/ pc = "right" /\ pc' = "apply" /\ Set("right", next.right)
              \/ pc = "apply" /\ pc' = "commanded" /\ applied' = asked
                   /\ asked' = asked
  <2>1. MotorInv'
    BY <1>1, <1>3 DEF Set
  <2>2. ASSUME EvenInv PROVE EvenInv'
    BY <1>3, <2>2 DEF EvenInv, Set
  <2> QED
    BY <2>1, <2>2
<1> QED
  BY <1>2, <1>3 DEF motor_apply_signed_pair, Call

LEMMA CoastMotorsStep ==
  ASSUME MotorInv, CoastMotors
  PROVE  MotorInv' /\ (MaxFailures <= 1 /\ EvenInv => EvenInv')
<1> USE LateMotorLabels DEF MotorInv, AlikeInv, UpdateInv, Quiet, Loop, Both, Pair
<1>1. UNCHANGED <<cmd, next, coasting>>
  BY DEF CoastMotors, Call, commands
<1>2. CASE /\ Fail /\ failed' /\ UNCHANGED <<asked, applied>>
           /\ \/ pc = "coast_all" /\ pc' = "coast_apply"
              \/ pc = "coast_apply" /\ pc' = "coasted"
  <2>1. MotorInv'
    BY <1>1, <1>2
  <2>2. ASSUME MaxFailures <= 1, EvenInv PROVE EvenInv'
    <3>1. failures = 0 /\ failures' = 1
      BY <1>2, <2>2, FailsOnce DEF EvenInv
    <3> QED
      BY <1>2, <2>2, <3>1 DEF EvenInv
  <2> QED
    BY <2>1, <2>2
<1>3. CASE /\ failures' = failures
           /\ \/ /\ pc = "coast_all" /\ pc' = "coast_apply"
                 /\ asked' = Both(Coast) /\ applied' = applied
              \/ /\ pc = "coast_apply" /\ pc' = "coasted" /\ failed' = failed
                 /\ applied' = asked /\ asked' = asked
  <2>1. MotorInv'
    BY <1>1, <1>3
  <2>2. ASSUME EvenInv PROVE EvenInv'
    BY <1>3, <2>2 DEF EvenInv
  <2> QED
    BY <2>1, <2>2
<1> QED
  BY <1>2, <1>3 DEF CoastMotors, Call

(* The parts of the program that remember, show or move the lights.        *)
LEMMA RestMotors ==
  ASSUME MotorInv,
         FirstLights \/ Seg7Init \/ Coasted \/ Commanded \/ Show \/ MoveLights
  PROVE  MotorInv' /\ (MaxFailures <= 1 /\ EvenInv => EvenInv')
<1> USE LateMotorLabels DEF Loop
<1>1. UNCHANGED <<asked, applied, failed, failures>>
  BY DEF FirstLights, Seg7Init, Coasted, Commanded, Show, MoveLights, motors, commands
<1>2. \/ pc = "leds" /\ pc' = "motor_init" /\ UNCHANGED <<cmd, next, coasting>>
      \/ pc = "seg7_init" /\ pc' = "poll" /\ UNCHANGED <<cmd, next, coasting>>
      \/ pc = "coasted" /\ pc' = "show" /\ coasting' /\ UNCHANGED <<cmd, next>>
      \/ pc = "commanded" /\ pc' = "show" /\ cmd' = next /\ ~coasting' /\ next' = next
      \/ pc = "show" /\ pc' = "lights" /\ UNCHANGED <<cmd, next, coasting>>
      \/ pc = "lights" /\ pc' = "poll" /\ next' = cmd /\ UNCHANGED <<cmd, coasting>>
  BY DEF FirstLights, Seg7Init, Coasted, Commanded, Show, MoveLights, At, commands
<1>3. MotorInv'
  BY <1>1, <1>2 DEF MotorInv, AlikeInv, UpdateInv, Quiet, Pair
<1>4. ASSUME EvenInv PROVE EvenInv'
  BY <1>1, <1>2, <1>4 DEF EvenInv, Quiet
<1> QED
  BY <1>3, <1>4

LEMMA NextMotorInv ==
  ASSUME MotorInv, [Next]_vars
  PROVE  MotorInv' /\ (MaxFailures <= 1 /\ EvenInv => EvenInv')
<1>1. CASE Program
  BY <1>1, ConfigureMotors, IdleMotors, PollMotors, PairMotors, CoastMotorsStep,
     RestMotors DEF Program
<1>2. CASE (ComesLoose /\ UNCHANGED loopVars) \/ Halted \/ UNCHANGED vars
  BY <1>2 DEF ComesLoose, Halted, vars, sensorVars, loopVars, commands, motors,
              MotorInv, AlikeInv, UpdateInv, EvenInv, Pair, Quiet
<1> QED
  BY <1>1, <1>2 DEF Next

(* What the motors do when no call of the last update failed.              *)
InForce ==
  pc \in Quiet /\ ~failed => applied = IF coasting THEN Both(Coast) ELSE cmd

(* The motors do what the program last commanded, unless a call of the     *)
(* last update failed, for any number of failed calls (base_main.c:646).   *)
THEOREM Obeyed == Spec => []InForce
<1>1. Init => MotorInv
  BY InitMotorInv
<1>2. MotorInv /\ [Next]_vars => MotorInv'
  BY NextMotorInv
<1>3. MotorInv => InForce
  BY DEF MotorInv, UpdateInv, InForce
<1> QED
  BY <1>1, <1>2, <1>3, PTL DEF Spec

(* As long as at most one call ever fails, wherever it does, the motors    *)
(* moreover never run apart (base_main.c:646-684).                         *)
THEOREM Together == MaxFailures <= 1 => (Spec => []MotorsFollow)
<1> SUFFICES ASSUME MaxFailures <= 1 PROVE Spec => []MotorsFollow
  OBVIOUS
<1>1. Init => MotorInv /\ EvenInv
  BY InitMotorInv
<1>2. MotorInv /\ EvenInv /\ [Next]_vars => MotorInv' /\ EvenInv'
  BY NextMotorInv
<1>3. MotorInv /\ EvenInv => MotorsFollow
  <2> SUFFICES ASSUME MotorInv, EvenInv, pc \in Quiet
               PROVE  /\ ~failed => applied = IF coasting THEN Both(Coast) ELSE cmd
                      /\ applied.left = applied.right
    BY DEF MotorsFollow, Quiet
  <2>1. applied = Both(applied.left)
    BY LateMotorLabels DEF EvenInv, Quiet, Loop
  <2> QED
    BY <2>1 DEF MotorInv, UpdateInv, Both
<1> QED
  BY <1>1, <1>2, <1>3, PTL DEF Spec

----------------------------------------------------------------------------
(* The pages of the display: the arithmetic first.                         *)

(* Division to the nearest is off by at most a half.                       *)
Nearest(n, d, q) ==
  q \in Int /\ 2 * (n - d * q) <= d /\ 2 * (n - d * q) >= -d

LEMMA RoundNearest ==
  ASSUME NEW n \in Int
  PROVE  /\ Nearest(n, 256, div_round_nearest_s32(n, 256))
         /\ Nearest(n, 2000, div_round_nearest_s32(n, 2000))
         /\ Nearest(n, 16384, div_round_nearest_s32(n, 16384))
         /\ Nearest(n, 32767, div_round_nearest_s32(n, 32767))
<1>1. Nearest(n, 256, div_round_nearest_s32(n, 256))
  BY DEF Nearest, div_round_nearest_s32
<1>2. Nearest(n, 2000, div_round_nearest_s32(n, 2000))
  BY DEF Nearest, div_round_nearest_s32
<1>3. Nearest(n, 16384, div_round_nearest_s32(n, 16384))
  BY DEF Nearest, div_round_nearest_s32
<1>4. Nearest(n, 32767, div_round_nearest_s32(n, 32767))
  BY DEF Nearest, div_round_nearest_s32
<1> QED
  BY <1>1, <1>2, <1>3, <1>4

LEMMA GyroByte ==
  ASSUME NEW raw \in Int16
  PROVE  gyro_byte(raw) \in -128..127 /\ Near(gyro_byte(raw), raw, 32767)
<1>1. raw \in Int /\ -32768 <= raw /\ raw <= 32767
  BY DEF Int16
<1> DEFINE n == raw * 127
           q == div_round_nearest_s32(n, 32767)
<1>2. n \in Int /\ n = raw * 127
  BY <1>1
<1>3. gyro_byte(raw) = Clamp(q, -128, 127)
  BY DEF gyro_byte, normalize_to_s8
<1> HIDE DEF n
<1>4. Nearest(n, 32767, q)
  BY <1>2, RoundNearest
<1> HIDE DEF q
<1>5. gyro_byte(raw) = q /\ q \in -128..127
  BY <1>1, <1>2, <1>3, <1>4 DEF Clamp, Nearest
<1> QED
  BY <1>1, <1>2, <1>4, <1>5 DEF Near, Distance, Nearest

(* An acceleration is first rounded to a milli-g, then to a 127th of 2 g.  *)
LEMMA GravityByte ==
  ASSUME NEW lsb \in {256, 16384}, NEW raw \in Int,
         -2 * lsb <= raw, raw < 2 * lsb,
         NEW byte, byte = normalize_to_s8(raw_to_milli_g(raw, lsb), 2000)
  PROVE  byte \in -128..127 /\ Near(byte, raw, 2 * lsb)
<1> DEFINE n == raw * 1000
           mg == div_round_nearest_s32(n, lsb)
           m == mg * 127
           q == div_round_nearest_s32(m, 2000)
<1>1. n \in Int /\ n = raw * 1000
  OBVIOUS
<1>2. byte = Clamp(q, -128, 127)
  BY DEF normalize_to_s8, raw_to_milli_g
<1> HIDE DEF n
<1>3. Nearest(n, lsb, mg)
  <2>1. CASE lsb = 256
    BY <1>1, <2>1, RoundNearest
  <2>2. CASE lsb = 16384
    BY <1>1, <2>2, RoundNearest
  <2> QED
    BY <2>1, <2>2
<1> HIDE DEF mg
<1>4. m \in Int /\ m = mg * 127
  BY <1>3 DEF Nearest
<1> HIDE DEF m
<1>5. Nearest(m, 2000, q)
  BY <1>4, RoundNearest
<1> HIDE DEF q
<1>6. CASE lsb = 256
  <2>1. byte = q /\ q \in -128..127
    BY <1>1, <1>2, <1>3, <1>4, <1>5, <1>6 DEF Clamp, Nearest
  <2> QED
    BY <1>1, <1>3, <1>4, <1>5, <1>6, <2>1 DEF Near, Distance, Nearest
<1>7. CASE lsb = 16384
  <2>1. byte = q /\ q \in -128..127
    BY <1>1, <1>2, <1>3, <1>4, <1>5, <1>7 DEF Clamp, Nearest
  <2> QED
    BY <1>1, <1>3, <1>4, <1>5, <1>7, <2>1 DEF Near, Distance, Nearest
<1> QED
  BY <1>6, <1>7

(* The two digits of a byte, and the three of a duty, as PageTells reads    *)
(* them off the display.                                                   *)
ByteOf(digits, i) == Signed(16 * digits[7 - 2 * i] + digits[6 - 2 * i])
WordOf(digits) == 256 * digits[2] + 16 * digits[1] + digits[0]

LEMMA BytesShown ==
  ASSUME NEW bytes \in [1..3 -> -128..127], NEW digits, digits = pack_u8x3(bytes),
         NEW i \in 1..3
  PROVE  ByteOf(digits, i) = bytes[i]
<1>1. 16^1 = 16 /\ 16^0 = 1
  OBVIOUS
<1>2. \A j \in 0..5 :
        digits[j] = ((bytes[3 - j \div 2] % 256) \div 16^(j % 2)) % 16
  BY DEF pack_u8x3
<1>3. /\ 7 - 2 * i \in 0..5 /\ (7 - 2 * i) \div 2 = 3 - i /\ (7 - 2 * i) % 2 = 1
      /\ 6 - 2 * i \in 0..5 /\ (6 - 2 * i) \div 2 = 3 - i /\ (6 - 2 * i) % 2 = 0
  OBVIOUS
<1>4. 3 - (3 - i) = i /\ bytes[i] \in -128..127
  OBVIOUS
<1>5. /\ digits[7 - 2 * i] = ((bytes[i] % 256) \div 16) % 16
      /\ digits[6 - 2 * i] = (bytes[i] % 256) % 16
  BY <1>1, <1>2, <1>3, <1>4
<1> DEFINE b == bytes[i]
<1>6. /\ b \in -128..127
      /\ ByteOf(digits, i) = Signed(16 * (((b % 256) \div 16) % 16) + ((b % 256) % 16))
  BY <1>4, <1>5 DEF ByteOf
<1> HIDE DEF b
<1>7. ByteOf(digits, i) = Signed(b % 256)
  BY <1>6
<1> QED
  BY <1>6, <1>7 DEF Signed, b

(* The three digits of a value of twelve bits show it.                     *)
LEMMA WordIsShown ==
  ASSUME NEW duty \in Nat, NEW digits, digits = pack_u12x2(0, saturate_abs_u12(duty))
  PROVE  WordOf(digits) = IF duty > 4095 THEN 4095 ELSE duty
<1> DEFINE w == saturate_abs_u12(duty)
<1>1. w \in 0..4095 /\ w = IF duty > 4095 THEN 4095 ELSE duty
  BY DEF saturate_abs_u12, Clamp
<1>2. 16^2 = 256 /\ 16^1 = 16 /\ 16^0 = 1
  OBVIOUS
<1>3. /\ digits[0] = w % 16
      /\ digits[1] = (w \div 16) % 16
      /\ digits[2] = (w \div 256) % 16
  BY <1>1, <1>2 DEF pack_u12x2
<1> HIDE DEF w
<1>4. WordOf(digits) = w
  BY <1>1, <1>3 DEF WordOf
<1> QED
  BY <1>1, <1>4

----------------------------------------------------------------------------
(* The pages of the display: what the program has when it shows one.       *)

(* The duties are natural numbers, however far the sweep has come.         *)
DutyInv == tick \in Nat /\ cmd.left \in Nat /\ next.left \in Nat

(* In the loop the display is enabled and shows what software writes.      *)
DisplayInv ==
  /\ seg7 = [enable |-> seg7.enable, mode |-> seg7.mode, software |-> seg7.software,
             sw_value |-> seg7.sw_value, dp_n |-> seg7.dp_n, blank |-> seg7.blank]
  /\ pc \in Loop => seg7.enable /\ seg7.software

(* A page has been shown only between the display and the lights.          *)
ShownInv == (pc = "lights" \/ shown = Nothing) /\ PageTells

PageInv == DutyInv /\ DisplayInv /\ ShownInv

LEMMA DivideNat ==
  ASSUME NEW a \in Nat, NEW b \in Nat \ {0}
  PROVE  a \div b \in Nat
OBVIOUS

LEMMA SweepDuty ==
  ASSUME NEW t \in Nat
  PROVE  motor_sweep_duty(t, MOTOR_SWEEP_MIN_DUTY, MOTOR_SWEEP_MAX_DUTY,
                          SweepPeriod) \in Nat
<1> DEFINE tri == triangle_0_to_1000(t, SweepPeriod)
<1>1. tri \in Nat
  <2> DEFINE x == t % SweepPeriod
             half == SweepPeriod \div 2
  <2>1. CASE SweepPeriod < 2
    BY <2>1 DEF triangle_0_to_1000
  <2>2. CASE SweepPeriod >= 2
    <3>1. /\ SweepPeriod \in Nat
          /\ x \in Nat /\ half \in Nat \ {0}
          /\ SweepPeriod - 1 - x \in Nat /\ SweepPeriod - half \in Nat \ {0}
      BY <2>2, BringUpAssumption
    <3>2. tri = IF x < half THEN (1000 * x) \div half
                ELSE (1000 * (SweepPeriod - 1 - x)) \div (SweepPeriod - half)
      BY <2>2, <3>1 DEF triangle_0_to_1000
    <3> HIDE DEF x, half, tri
    <3>3. (1000 * x) \div half \in Nat
      BY <3>1, DivideNat
    <3>4. (1000 * (SweepPeriod - 1 - x)) \div (SweepPeriod - half) \in Nat
      BY <3>1, DivideNat
    <3> QED
      BY <3>2, <3>3, <3>4
  <2> QED
    BY <2>1, <2>2, BringUpAssumption
<1> HIDE DEF tri
<1>2. 1000 + (7000 * tri) \div 1000 \in Nat
  BY <1>1
<1> QED
  BY <1>2 DEF motor_sweep_duty, MOTOR_SWEEP_MIN_DUTY, MOTOR_SWEEP_MAX_DUTY, tri

LEMMA InitPageInv == Init => PageInv
<1> SUFFICES ASSUME Init PROVE PageInv
  OBVIOUS
<1>1. shown.page = 8 /\ pc \notin Loop
  BY DEF Init, SensorsInit, Nothing, Loop
<1>2. DutyInv
  BY DEF Init, DutyInv, Both
<1>3. DisplayInv
  BY <1>1 DEF Init, DisplayInv, Display!Reset
<1>4. ShownInv
  BY <1>1 DEF Init, ShownInv, PageTells, Pages
<1> QED
  BY <1>2, <1>3, <1>4 DEF PageInv

(* Nothing is told by a page that is not shown.                            *)
LEMMA NothingShown ==
  ASSUME shown' = Nothing
  PROVE  ShownInv'
BY DEF ShownInv, PageTells, Nothing, Pages

(* A step that is not of the loop's display.                               *)
LEMMA OtherPage ==
  ASSUME PageInv, pc # "lights", UNCHANGED <<seg7, shown>>,
         pc' \in Loop => pc \in Loop, DutyInv'
  PROVE  PageInv'
<1>1. ShownInv'
  BY NothingShown DEF PageInv, ShownInv
<1> QED
  BY <1>1 DEF PageInv, DisplayInv

LEMMA PollPage ==
  ASSUME MotorInv, PageInv, Poll
  PROVE  PageInv'
<1>1. PICK sw \in SwitchWords : next' = IF sw.coast THEN cmd ELSE NextDuties(sw)
  BY DEF Poll
<1>2. next'.left \in Nat
  <2>1. cmd.left \in Nat /\ tick \in Nat
    BY DEF PageInv, DutyInv
  <2>2. \A d : Both(d).left = d
    BY DEF Both
  <2>3. NextDuties(sw).left \in Nat
    BY <2>1, <2>2, SweepDuty DEF NextDuties, MOTOR_SMALL_DUTY
  <2> QED
    BY <1>1, <2>1, <2>3
<1>3. /\ pc = "poll" /\ UNCHANGED <<tick, cmd, seg7, shown>>
      /\ pc' \in {"show", "coast_all", "left"}
  BY DEF Poll, displays
<1> QED
  BY <1>2, <1>3, OtherPage DEF Loop, PageInv, DutyInv

LEMMA CallPage ==
  ASSUME PageInv, CoastMotors \/ motor_init_idle
           \/ motor_apply_signed_pair("left", "right", "apply", next,
                                      "commanded", "commanded")
  PROVE  PageInv'
<1>1. /\ pc \in Loop \/ pc' \notin Loop
      /\ pc # "lights"
      /\ UNCHANGED <<tick, cmd, next, seg7, shown>>
  BY DEF CoastMotors, motor_init_idle, motor_apply_signed_pair, Call, commands,
         displays, Loop
<1> QED
  BY <1>1, OtherPage DEF PageInv, DutyInv

(* A page of three bytes, each near its measurement, tells the three.      *)
LEMMA TellsBytes ==
  ASSUME NEW bytes, NEW v, NEW full, NEW digits,
         \A i \in 1..3 : bytes[i] \in -128..127 /\ Near(bytes[i], v[i], full),
         bytes = [i \in 1..3 |-> bytes[i]], digits = pack_u8x3(bytes)
  PROVE  \A i \in 1..3 : Near(ByteOf(digits, i), v[i], full)
<1>1. bytes \in [1..3 -> -128..127]
  OBVIOUS
<1> QED
  BY <1>1, BytesShown

LEMMA GyroPage ==
  ASSUME NEW sample \in Measures, NEW digits, digits = Bytes(gyro_byte, sample.gyro)
  PROVE  \A i \in 1..3 : Near(ByteOf(digits, i), sample.gyro[i], 32767)
<1> DEFINE bytes == [i \in 1..3 |-> gyro_byte(sample.gyro[i])]
<1>1. \A i \in 1..3 : sample.gyro[i] \in Int16
  BY DEF Measures
<1>2. \A i \in 1..3 : bytes[i] \in -128..127 /\ Near(bytes[i], sample.gyro[i], 32767)
  BY <1>1, GyroByte
<1>3. digits = pack_u8x3(bytes)
  BY DEF Bytes
<1> QED
  BY <1>2, <1>3, TellsBytes

(* Both accelerometers, at +-2 g.                                          *)
LEMMA AccelPage ==
  ASSUME mpu_accel_config = 0,
         NEW sample \in Measures, NEW digits, digits = Bytes(mpu_byte, sample.accel)
  PROVE  \A i \in 1..3 : Near(ByteOf(digits, i), sample.accel[i], 32768)
<1> DEFINE bytes == [i \in 1..3 |-> mpu_byte(sample.accel[i])]
<1>1. \A i \in 1..3 : sample.accel[i] \in Int /\ -2 * 16384 <= sample.accel[i]
                      /\ sample.accel[i] < 2 * 16384
  BY DEF Measures, Int16
<1>2. mpu6500_lsb_per_g(0) = 16384 /\ full_scale_mg(mpu_range(0)) = 2000
  BY DEF mpu6500_lsb_per_g, mpu_range, full_scale_mg
<1>3. \A raw : mpu_byte(raw) = normalize_to_s8(raw_to_milli_g(raw, 16384), 2000)
  BY <1>2 DEF mpu_byte
<1>4. \A i \in 1..3 : bytes[i] \in -128..127
                      /\ Near(bytes[i], sample.accel[i], 2 * 16384)
  BY <1>1, <1>3, GravityByte
<1>5. digits = pack_u8x3(bytes)
  BY DEF Bytes
<1> QED
  BY <1>4, <1>5, TellsBytes

LEMMA AdxlPage ==
  ASSUME adxl_data_format = 0,
         NEW sample \in Measures, NEW digits, digits = Bytes(adxl_byte, sample.adxl)
  PROVE  \A i \in 1..3 : Near(ByteOf(digits, i), sample.adxl[i], 512)
<1> DEFINE bytes == [i \in 1..3 |-> adxl_byte(sample.adxl[i])]
<1>1. \A i \in 1..3 : sample.adxl[i] \in Int /\ -2 * 256 <= sample.adxl[i]
                      /\ sample.adxl[i] < 2 * 256
  BY DEF Measures, Int10
<1>2. adxl345_lsb_per_g(0) = 256 /\ full_scale_mg(adxl_range(0)) = 2000
  BY DEF adxl345_lsb_per_g, adxl_range, full_scale_mg
<1>3. \A raw : adxl_byte(raw) = normalize_to_s8(raw_to_milli_g(raw, 256), 2000)
  BY <1>2 DEF adxl_byte
<1>4. \A i \in 1..3 : bytes[i] \in -128..127
                      /\ Near(bytes[i], sample.adxl[i], 2 * 256)
  BY <1>1, <1>3, GravityByte
<1>5. digits = pack_u8x3(bytes)
  BY DEF Bytes
<1> QED
  BY <1>4, <1>5, TellsBytes

(* What Show writes: the display is on, and the page tells what it names.  *)
LEMMA ShowPage ==
  ASSUME IInv, MotorInv, PageInv, Show
  PROVE  PageInv'
<1>1. /\ pc = "show" /\ pc' = "lights"
      /\ UNCHANGED <<tick, cmd, next, coasting, applied, failed, wired, adxl, mpu,
                     adxl_data_format, mpu_accel_config>>
  BY DEF Show, At, sensorsRest, commands, motors, devices, cached
<1>2. CASE UNCHANGED <<seg7, shown>>
  BY <1>1, <1>2, OtherPage DEF Loop, PageInv, DutyInv
<1>3. ASSUME NEW page \in Pages, NEW sample \in Samples,
             NEW xyz \in adxl345_read_xyz_raw(sample),
             seg7_update_switch_page(page, xyz, sample),
             shown' = [page |-> page, sample |-> sample]
      PROVE  PageInv'
  <2> DEFINE digits == PageDigits(page, xyz, sample)
  <2>1. /\ seg7'.enable /\ seg7'.software /\ seg7'.blank = {}
        /\ seg7'.sw_value = digits
        /\ DisplayInv'
    <3>1. seg7.enable /\ seg7.software
      BY <1>1 DEF PageInv, DisplayInv, Loop
    <3> QED
      BY <1>3, <3>1
         DEF seg7_update_switch_page, Display!SetMode, PageInv, DisplayInv
  <2>2. /\ mpu_accel_config = 0
        /\ wired => adxl_data_format = 0 /\ Answers
    <3>1. LoopReady /\ pc \in Loop
      BY <1>1, IInvLoopReady DEF Loop
    <3>2. mpu_accel_config = 0
      BY <3>1, SetupLen, SetupTable DEF LoopReady
    <3>3. wired => adxl_data_format = 0 /\ Answers
      BY <3>1 DEF LoopReady, AdxlReady, Answers
    <3> QED
      BY <3>2, <3>3
  <2>3. sample \in Measures
    BY BringUpAssumption
  <2>4. page = 0 => \A i \in 1..3 : Near(ByteOf(digits, i), sample.gyro[i], 32767)
    <3>1. page = 0 => page # 2 /\ page # 3 /\ page # 4 /\ page # 5
      OBVIOUS
    <3>2. page = 0 => digits = Bytes(gyro_byte, sample.gyro)
      BY <3>1, Zenon DEF PageDigits
    <3> HIDE DEF digits
    <3> QED
      BY <2>3, <3>2, GyroPage
  <2>5. page \in {1, 6, 7} =>
          \A i \in 1..3 : Near(ByteOf(digits, i), sample.accel[i], 32768)
    <3>1. page \in {1, 6, 7} => digits = Bytes(mpu_byte, sample.accel)
      <4> SUFFICES ASSUME page \in {1, 6, 7} PROVE digits = Bytes(mpu_byte, sample.accel)
        OBVIOUS
      <4>1. page # 0 /\ page # 2 /\ page # 3 /\ page # 4 /\ page # 5
        OBVIOUS
      <4> QED
        BY <4>1, Zenon DEF PageDigits
    <3> HIDE DEF digits
    <3> QED
      BY <2>2, <2>3, <3>1, AccelPage
  <2>6. page = 2 /\ wired =>
          \A i \in 1..3 : Near(ByteOf(digits, i), sample.adxl[i], 512)
    <3>1. page = 2 => page # 0 /\ page # 3 /\ page # 4 /\ page # 5
      OBVIOUS
    <3>2. page = 2 => digits = Bytes(adxl_byte, xyz)
      BY <3>1, Zenon DEF PageDigits
    <3>3. wired => xyz = sample.adxl
      BY <2>2 DEF adxl345_read_xyz_raw
    <3> HIDE DEF digits
    <3> QED
      BY <2>2, <2>3, <3>2, <3>3, AdxlPage
  <2>7. /\ page = 4 => WordOf(digits) = IF cmd.left > 4095 THEN 4095 ELSE cmd.left
        /\ page = 5 => WordOf(digits) = IF cmd.right > 4095 THEN 4095 ELSE cmd.right
    <3>1. /\ page = 4 => page # 0 /\ page # 2 /\ page # 3
          /\ page = 5 => page # 0 /\ page # 2 /\ page # 3 /\ page # 4
      OBVIOUS
    <3>2. page = 4 => digits = pack_u12x2(0, saturate_abs_u12(cmd.left))
      BY <3>1, Zenon DEF PageDigits
    <3>3. page = 5 => digits = pack_u12x2(0, saturate_abs_u12(cmd.right))
      BY <3>1, Zenon DEF PageDigits
    <3>4. cmd.left \in Nat /\ cmd.right \in Nat
      BY DEF PageInv, DutyInv, MotorInv, AlikeInv, Both
    <3> HIDE DEF digits
    <3> QED
      BY <3>2, <3>3, <3>4, WordIsShown
  <2>8. ~failed /\ ~coasting => applied = cmd
    BY <1>1 DEF MotorInv, UpdateInv, Quiet
  <2> HIDE DEF digits
  <2>9. PageTells'
    BY <1>1, <1>3, <2>1, <2>4, <2>5, <2>6, <2>7, <2>8
       DEF PageTells, Tells, TellsDuty, ByteShown, WordShown, ByteOf, WordOf,
           Display!Dark
  <2> QED
    BY <1>1, <2>1, <2>9 DEF PageInv, DutyInv, ShownInv
<1> QED
  BY <1>2, <1>3 DEF Show

LEMMA RestPage ==
  ASSUME MotorInv, PageInv,
         (Configure /\ UNCHANGED loopVars) \/ FirstLights \/ Seg7Init
           \/ Coasted \/ Commanded \/ MoveLights
  PROVE  PageInv'
<1>1. CASE Configure /\ UNCHANGED loopVars
  <2>1. pc \in BeforeLoop /\ pc' \in BeforeLoop \cup {"leds"}
    BY <1>1, ConfigureLabels
  <2>2. pc # "lights" /\ pc' \notin Loop
    BY <2>1, LateLabels DEF Loop
  <2> QED
    BY <1>1, <2>2, OtherPage DEF loopVars, commands, displays, PageInv, DutyInv
<1>2. CASE FirstLights \/ Coasted
  BY <1>2, OtherPage
     DEF FirstLights, Coasted, At, commands, displays, Loop, PageInv, DutyInv
<1>3. CASE Seg7Init
  <2>1. pc = "seg7_init" /\ UNCHANGED <<tick, cmd, next, shown>>
    BY <1>3 DEF Seg7Init, At, commands
  <2>2. DisplayInv'
    BY <1>3 DEF Seg7Init, Display!SelectSoftware, Display!InitCtrl, PageInv, DisplayInv
  <2>3. ShownInv'
    BY <2>1, NothingShown DEF PageInv, ShownInv
  <2> QED
    BY <2>1, <2>2, <2>3 DEF PageInv, DutyInv
<1>4. CASE Commanded
  <2>1. DutyInv'
    BY <1>4 DEF Commanded, PageInv, DutyInv
  <2> QED
    BY <1>4, <2>1, OtherPage DEF Commanded, At, displays, Loop
<1>5. CASE MoveLights
  <2>1. pc = "lights" /\ UNCHANGED <<cmd, seg7>> /\ next' = cmd
        /\ tick' = (tick + 1) % Ticks /\ shown' = Nothing
    BY <1>5 DEF MoveLights, At
  <2>2. DutyInv'
    BY <2>1, BringUpAssumption DEF PageInv, DutyInv
  <2>3. DisplayInv'
    BY <2>1 DEF PageInv, DisplayInv, Loop
  <2> QED
    BY <2>1, <2>2, <2>3, NothingShown DEF PageInv
<1> QED
  BY <1>1, <1>2, <1>3, <1>4, <1>5

LEMMA NextPageInv ==
  ASSUME IInv, MotorInv, PageInv, [Next]_vars
  PROVE  PageInv'
<1>1. CASE Program
  BY <1>1, RestPage, PollPage, CallPage, ShowPage DEF Program
<1>2. CASE (ComesLoose /\ UNCHANGED loopVars) \/ Halted \/ UNCHANGED vars
  <2>1. /\ UNCHANGED <<pc, tick, cmd, next, coasting, applied, failed, seg7, shown>>
        /\ wired' => wired
    BY <1>2 DEF ComesLoose, Halted, vars, sensorVars, loopVars, commands, motors,
                displays
  <2>2. PageTells'
    BY <2>1 DEF PageInv, ShownInv, PageTells, Tells, TellsDuty, ByteShown, WordShown,
                Display!Dark
  <2> QED
    BY <2>1, <2>2 DEF PageInv, DutyInv, DisplayInv, ShownInv
<1> QED
  BY <1>1, <1>2 DEF Next

(* A page just shown is lit and tells what it names, an axis to within     *)
(* 0.55 of a 127th of the full scale and the duty that drives the motor,   *)
(* for every sample that the sensors can measure and any number of failed  *)
(* calls (base_main.c:379).                                                *)
THEOREM Tell == Spec => []PageTells
<1>1. Init => IInv /\ MotorInv /\ PageInv
  BY InitIInv, InitMotorInv, InitPageInv
<1>2. IInv /\ MotorInv /\ PageInv /\ [Next]_vars => (IInv /\ MotorInv /\ PageInv)'
  BY NextIInv, NextMotorInv, NextPageInv
<1>3. PageInv => PageTells
  BY DEF PageInv, ShownInv
<1> QED
  BY <1>1, <1>2, <1>3, PTL DEF Spec
----------------------------------------------------------------------------
(* The sweep and the LEDs: what the last round left, one step behind tick. *)

Duty(t) == motor_sweep_duty(t, MOTOR_SWEEP_MIN_DUTY, MOTOR_SWEEP_MAX_DUTY, SweepPeriod)

BeforePoll == BeforeSeg7 \cup {"seg7_init"}
Coasting == {"coast_all", "coast_apply", "coasted"}
Commanding == {"left", "right", "apply", "commanded"}

LightsInv ==
  /\ tick \in 0..Ticks - 1
  /\ pc \in BeforePoll => tick = 0
  /\ tick # 0 => lights = led_frame(tick - 1)

(* The duty a sweeping round commands, and the one the last round left.    *)
SweepInv ==
  /\ pc \in BeforePoll => ~sweeping /\ ~swept
  /\ pc \in Coasting \cup {"poll"} => ~sweeping
  /\ pc \in Commanding /\ sweeping => next = Both(Duty(tick))
  /\ pc \in {"show", "lights"} /\ sweeping => cmd = Both(Duty(tick))
  /\ pc \in Coasting \cup Commanding \cup {"poll"} /\ swept /\ tick # 0 =>
       cmd = Both(Duty(tick - 1))

SmoothInv == LightsInv /\ SweepInv

LEMMA DutyIs ==
  ASSUME SweepPeriod = 80, NEW t \in Nat
  PROVE  Duty(t) = 1000 + 175 * (IF t % 80 < 40 THEN t % 80 ELSE 79 - (t % 80))
<1> DEFINE x == t % 80
<1>1. x \in 0..79
  OBVIOUS
<1>2. triangle_0_to_1000(t, 80) = IF x < 40 THEN (1000 * x) \div 40
                                  ELSE (1000 * (79 - x)) \div 40
  BY DEF triangle_0_to_1000
<1> HIDE DEF x
<1>3. triangle_0_to_1000(t, 80) = 25 * (IF x < 40 THEN x ELSE 79 - x)
  BY <1>1, <1>2
<1>4. \A n \in Nat : (7000 * (25 * n)) \div 1000 = 175 * n
  OBVIOUS
<1>5. Duty(t) = 1000 + (7000 * (25 * (IF x < 40 THEN x ELSE 79 - x))) \div 1000
  BY <1>3 DEF Duty, motor_sweep_duty, MOTOR_SWEEP_MIN_DUTY, MOTOR_SWEEP_MAX_DUTY
<1> QED
  BY <1>1, <1>4, <1>5 DEF x

LEMMA DutyMoves ==
  ASSUME SweepPeriod = 80, NEW t \in Nat
  PROVE  Distance(Duty(t + 1), Duty(t)) <= 176
<1> DEFINE x == t % 80
<1>1. x \in 0..79 /\ (t + 1) % 80 = IF x = 79 THEN 0 ELSE x + 1
  OBVIOUS
<1>2. /\ Duty(t) = 1000 + 175 * (IF x < 40 THEN x ELSE 79 - x)
      /\ Duty(t + 1) = 1000 + 175 * (IF (t + 1) % 80 < 40 THEN (t + 1) % 80
                                     ELSE 79 - ((t + 1) % 80))
  <2>1. t + 1 \in Nat
    OBVIOUS
  <2> QED
    BY <2>1, DutyIs
<1> HIDE DEF x
<1> QED
  BY <1>1, <1>2 DEF Distance

(* The brightest LED of a step. *)
Head10(s) == ping_pong_index(s, LED_CHANNELS)

LEMMA HeadMoves ==
  ASSUME NEW s \in Nat
  PROVE  Head10(s) \in 0..9 /\ Distance(Head10(s), Head10(s + 1)) = 1
<1> DEFINE x == s % 18
<1>1. x \in 0..17 /\ (s + 1) % 18 = IF x = 17 THEN 0 ELSE x + 1
  OBVIOUS
<1>2. /\ Head10(s) = IF x < 10 THEN x ELSE 18 - x
      /\ Head10(s + 1) = IF (s + 1) % 18 < 10 THEN (s + 1) % 18 ELSE 18 - ((s + 1) % 18)
  BY DEF Head10, ping_pong_index, LED_CHANNELS
<1> HIDE DEF x
<1> QED
  BY <1>1, <1>2 DEF Distance

LEMMA TriangleNat ==
  ASSUME NEW t \in Nat
  PROVE  triangle_0_to_1000(t, 48) \in Nat /\ triangle_0_to_1000(t, 64) \in Nat
<1>1. triangle_0_to_1000(t, 48) \in Nat
  <2> DEFINE x == t % 48
  <2>1. x \in 0..47
    OBVIOUS
  <2>2. triangle_0_to_1000(t, 48) = IF x < 24 THEN (1000 * x) \div 24
                                    ELSE (1000 * (47 - x)) \div 24
    BY DEF triangle_0_to_1000
  <2> HIDE DEF x
  <2> QED
    BY <2>1, <2>2
<1>2. triangle_0_to_1000(t, 64) \in Nat
  <2> DEFINE x == t % 64
  <2>1. x \in 0..63
    OBVIOUS
  <2>2. triangle_0_to_1000(t, 64) = IF x < 32 THEN (1000 * x) \div 32
                                    ELSE (1000 * (63 - x)) \div 32
    BY DEF triangle_0_to_1000
  <2> HIDE DEF x
  <2> QED
    BY <2>1, <2>2
<1> QED
  BY <1>1, <1>2

LEMMA TailNat ==
  ASSUME NEW d \in Nat
  PROVE  led_tail_level(d) \in Nat /\ led_tail_level(0) = 1000
BY DEF led_tail_level

(* The head of the first tail is lit in full, and no LED is brighter.      *)
LEMMA FrameIs ==
  ASSUME NEW s \in Nat
  PROVE  /\ DOMAIN led_frame(s) = 0..9
         /\ led_frame(s)[Head10(s)] = 24999
         /\ \A k \in 0..9 : led_frame(s)[k] <= 24999
<1> DEFINE head_a == Head10(s)
           head_b == ping_pong_index(s \div 2 + LED_CHANNELS - 1, LED_CHANNELS)
           breathe == triangle_0_to_1000(s, 64)
           ambient(i) == 30 + (breathe * (25 + i * 3)) \div 1000
           sparkle(i) == triangle_0_to_1000(s * 3 + i * 7, 48) \div 20
           tails(i) == led_tail_level(Distance(i, head_a))
                       + led_tail_level(Distance(i, head_b)) \div 2
           sum(i) == ambient(i) + led_tail_level(Distance(i, head_a))
                       + led_tail_level(Distance(i, head_b)) \div 2 + sparkle(i)
           level(i) == IF sum(i) > 1000 THEN 1000 ELSE sum(i)
<1>1. led_frame(s) = [i \in 0..LED_CHANNELS - 1 |->
                        (level(i) * (LED_PWM_PERIOD_DEFAULT - 1)) \div 1000]
  BY DEF led_frame, Head10
<1>2. head_a \in 0..9 /\ head_b \in 0..9
  <2>1. s \div 2 + LED_CHANNELS - 1 \in Nat
    BY DEF LED_CHANNELS
  <2> QED
    BY <2>1, HeadMoves DEF Head10
<1>3. ASSUME NEW i \in 0..9
      PROVE  level(i) \in 0..1000 /\ (i = head_a => level(i) = 1000)
  <2>1. ambient(i) \in Nat /\ ambient(i) >= 30
    <3>1. breathe \in Nat /\ 25 + i * 3 \in Nat
      BY TriangleNat
    <3>2. breathe * (25 + i * 3) \in Nat
      BY <3>1
    <3> QED
      BY <3>2
  <2>2. sparkle(i) \in Nat
    <3>1. s * 3 + i * 7 \in Nat
      OBVIOUS
    <3>2. triangle_0_to_1000(s * 3 + i * 7, 48) \in Nat
      BY <3>1, TriangleNat
    <3> QED
      BY <3>2
  <2>3. Distance(i, head_a) \in Nat /\ Distance(i, head_b) \in Nat
        /\ (i = head_a => Distance(i, head_a) = 0)
    BY <1>2 DEF Distance
  <2>4. /\ led_tail_level(Distance(i, head_a)) \in Nat
        /\ led_tail_level(Distance(i, head_b)) \in Nat
        /\ i = head_a => led_tail_level(Distance(i, head_a)) = 1000
    BY <2>3, TailNat
  <2> HIDE DEF ambient, sparkle, head_a, head_b
  <2>5. sum(i) \in Nat /\ (i = head_a => sum(i) > 1000)
    BY <2>1, <2>2, <2>4
  <2> QED
    BY <2>5
<1> DEFINE levels == [i \in 0..9 |-> level(i)]
<1>4. led_frame(s) = [i \in 0..9 |-> (levels[i] * 24999) \div 1000]
  BY <1>1 DEF LED_CHANNELS, LED_PWM_PERIOD_DEFAULT
<1> HIDE DEF level
<1>5. levels \in [0..9 -> 0..1000] /\ levels[head_a] = 1000
  BY <1>2, <1>3
<1> HIDE DEF levels, head_a
<1>6. ASSUME NEW i \in 0..9 PROVE (levels[i] * 24999) \div 1000 <= 24999
  <2> DEFINE n == levels[i]
  <2>1. n \in 0..1000
    BY <1>5
  <2> HIDE DEF n
  <2>2. (n * 24999) \div 1000 <= 24999
    BY <2>1
  <2> QED
    BY <2>2 DEF n
<1>7. (levels[head_a] * 24999) \div 1000 = 24999
  BY <1>5
<1> QED
  BY <1>2, <1>4, <1>6, <1>7 DEF head_a

(* A step that changes neither the LEDs nor the commands. *)
LEMMA RestSmooth ==
  ASSUME SmoothInv, UNCHANGED <<tick, lights, cmd, next, sweeping, swept>>,
         \/ pc \in BeforePoll /\ pc' \in BeforePoll \cup {"poll"}
         \/ pc \in Coasting /\ ~sweeping /\ pc' \in Coasting \cup {"show"}
         \/ pc \in Commanding /\ pc' \in Commanding
         \/ pc = "show" /\ pc' = "lights"
         \/ pc' = pc
  PROVE  SmoothInv'
<1> USE LateMotorLabels DEF BeforePoll, Coasting, Commanding, Loop
<1>1. LightsInv'
  BY DEF SmoothInv, LightsInv
<1>2. SweepInv'
  BY DEF SmoothInv, SweepInv, Duty
<1> QED
  BY <1>1, <1>2 DEF SmoothInv

LEMMA PollSmooth ==
  ASSUME SmoothInv, Poll
  PROVE  SmoothInv'
<1> USE LateMotorLabels DEF BeforePoll, Coasting, Commanding, Loop
<1>1. /\ pc = "poll" /\ UNCHANGED <<tick, lights, cmd, swept>>
      /\ pc' \in {"show", "coast_all", "left"}
  BY DEF Poll, displays
<1>2. /\ sweeping' => pc' \in {"show", "left"} /\ next' = Both(Duty(tick))
      /\ sweeping' /\ pc' = "show" => next' = cmd
  BY DEF Poll, NextDuties, Duty
<1>3. LightsInv'
  BY <1>1 DEF SmoothInv, LightsInv
<1>4. SweepInv'
  BY <1>1, <1>2 DEF SmoothInv, SweepInv, Duty
<1> QED
  BY <1>3, <1>4 DEF SmoothInv

LEMMA CommandedSmooth ==
  ASSUME SmoothInv, Commanded
  PROVE  SmoothInv'
<1> USE LateMotorLabels DEF BeforePoll, Coasting, Commanding, Loop
<1>1. /\ pc = "commanded" /\ pc' = "show" /\ cmd' = next
      /\ UNCHANGED <<tick, lights, next, sweeping, swept>>
  BY DEF Commanded, At, sweeps, displays
<1>2. LightsInv'
  BY <1>1 DEF SmoothInv, LightsInv
<1>3. SweepInv'
  BY <1>1 DEF SmoothInv, SweepInv, Duty
<1> QED
  BY <1>2, <1>3 DEF SmoothInv

LEMMA LightsSmooth ==
  ASSUME SmoothInv, FirstLights \/ MoveLights
  PROVE  SmoothInv'
<1> USE LateMotorLabels DEF BeforePoll, Coasting, Commanding, Loop
<1>1. CASE FirstLights
  <2>1. /\ pc \in BeforePoll /\ pc' \in BeforePoll
        /\ UNCHANGED <<tick, cmd, next, sweeping, swept>>
    BY <1>1 DEF FirstLights, At, commands, sweeps
  <2>2. LightsInv'
    BY <2>1 DEF SmoothInv, LightsInv
  <2>3. SweepInv'
    BY <2>1 DEF SmoothInv, SweepInv
  <2> QED
    BY <2>2, <2>3 DEF SmoothInv
<1>2. CASE MoveLights
  <2>1. /\ pc = "lights" /\ pc' = "poll" /\ lights' = led_frame(tick)
        /\ tick' = (tick + 1) % Ticks /\ cmd' = cmd
        /\ swept' = sweeping /\ sweeping' = FALSE
    BY <1>2 DEF MoveLights, At, led_pwm_set_step
  <2>2. tick' \in 0..Ticks - 1 /\ (tick' # 0 => tick' - 1 = tick)
    <3>1. tick \in 0..Ticks - 1 /\ Ticks \in Nat \ {0}
      BY BringUpAssumption DEF SmoothInv, LightsInv
    <3>2. (tick + 1) % Ticks = IF tick = Ticks - 1 THEN 0 ELSE tick + 1
      <4>1. CASE tick = Ticks - 1
        BY <3>1, <4>1
      <4>2. CASE tick # Ticks - 1
        <5>1. tick + 1 \in 0..Ticks - 1
          BY <3>1, <4>2
        <5>2. \A n \in Nat \ {0} : \A a \in 0..n - 1 : a % n = a
          OBVIOUS
        <5> QED
          BY <3>1, <4>2, <5>1, <5>2
      <4> QED
        BY <4>1, <4>2
    <3> QED
      BY <2>1, <3>1, <3>2
  <2>3. LightsInv'
    BY <2>1, <2>2 DEF LightsInv
  <2>4. SweepInv'
    <3>1. sweeping => cmd = Both(Duty(tick))
      BY <2>1 DEF SmoothInv, SweepInv
    <3> QED
      BY <2>1, <2>2, <3>1 DEF SweepInv, Duty
  <2> QED
    BY <2>3, <2>4 DEF SmoothInv
<1> QED
  BY <1>1, <1>2

LEMMA NextSmooth ==
  ASSUME SmoothInv, [Next]_vars
  PROVE  SmoothInv'
<1> USE LateMotorLabels DEF BeforePoll, Coasting, Commanding, Loop
<1>1. CASE Configure /\ UNCHANGED loopVars
  <2>1. pc \in BeforeSeg7 /\ pc' \in BeforeSeg7
    BY <1>1, ConfigureLabels DEF BeforeSeg7
  <2> QED
    BY <1>1, <2>1, RestSmooth DEF loopVars, commands, sweeps, displays
<1>2. CASE motor_init_idle \/ Seg7Init
  <2>1. /\ pc \in BeforePoll /\ pc' \in BeforePoll \cup {"poll"}
        /\ UNCHANGED <<tick, lights, cmd, next, sweeping, swept>>
    BY <1>2 DEF motor_init_idle, motor_apply_signed_pair, Call, Seg7Init, At, commands,
       sweeps, displays
  <2> QED
    BY <2>1, RestSmooth
<1>3. CASE CoastMotors \/ Coasted
  <2>1. /\ pc \in Coasting /\ pc' \in Coasting \cup {"show"}
        /\ UNCHANGED <<tick, lights, cmd, next, sweeping, swept>>
    BY <1>3 DEF CoastMotors, Call, Coasted, At, commands, sweeps, displays
  <2>2. ~sweeping
    BY <2>1 DEF SmoothInv, SweepInv
  <2> QED
    BY <2>1, <2>2, RestSmooth
<1>4. CASE motor_apply_signed_pair("left", "right", "apply", next,
                                   "commanded", "commanded")
  <2>1. /\ pc \in Commanding /\ pc' \in Commanding
        /\ UNCHANGED <<tick, lights, cmd, next, sweeping, swept>>
    BY <1>4 DEF motor_apply_signed_pair, Call, commands, sweeps, displays
  <2> QED
    BY <2>1, RestSmooth
<1>5. CASE Show
  BY <1>5, RestSmooth DEF Show, At, commands, sweeps
<1>6. CASE (ComesLoose /\ UNCHANGED loopVars) \/ Halted \/ UNCHANGED vars
  BY <1>6, RestSmooth DEF ComesLoose, Halted, vars, sensorVars, loopVars, commands, sweeps,
     displays
<1> QED
  BY <1>1, <1>2, <1>3, <1>4, <1>5, <1>6, PollSmooth, CommandedSmooth, LightsSmooth
     DEF Next, Program

LEMMA OnlyCommanded ==
  ASSUME Next, cmd' # cmd
  PROVE  pc = "commanded" /\ cmd' = next
BY DEF Next, Program, FirstLights, motor_init_idle, motor_apply_signed_pair, Call,
   Seg7Init, Poll, CoastMotors, Coasted, Commanded, Show, MoveLights, At, Halted, vars,
   loopVars, commands

LEMMA OnlyLights ==
  ASSUME Next, tick' # tick
  PROVE  lights' = led_frame(tick)
BY DEF Next, Program, FirstLights, motor_init_idle, motor_apply_signed_pair, Call,
   Seg7Init, Poll, CoastMotors, Coasted, Commanded, Show, MoveLights, At, Halted, vars,
   loopVars, commands, led_pwm_set_step

(* With the sweep of 80 ticks of the program (base_main.c:56), the duty    *)
(* moves by at most a tick of the sweep from one sweeping round to the     *)
(* next, and the brightest LED to a neighbour, whatever fails and wherever *)
(* the counters wrap, the wrap itself excepted.                            *)
THEOREM Smooth == SweepPeriod = 80 => (Spec => MovesSmoothly)
<1> SUFFICES ASSUME SweepPeriod = 80 PROVE Spec => MovesSmoothly
  OBVIOUS
<1>1. Init => SmoothInv
  <2> SUFFICES ASSUME Init PROVE SmoothInv
    OBVIOUS
  <2>1. pc \in BeforePoll /\ tick = 0 /\ sweeping = FALSE /\ swept = FALSE
    BY DEF Init, SensorsInit, BeforePoll, BeforeSeg7, BeforeLoop, BeforeSetUp, BeforeProbed,
           BeforeFormatRead, BeforePower, BeforeRate, BeforeIdentified
  <2>2. LightsInv
    BY <2>1, BringUpAssumption DEF LightsInv
  <2>3. SweepInv
    BY <2>1, LateMotorLabels DEF SweepInv, BeforePoll, Coasting, Commanding, Loop
  <2> QED
    BY <2>2, <2>3 DEF SmoothInv
<1>2. SmoothInv /\ [Next]_vars => SmoothInv'
  BY NextSmooth
<1>3. ASSUME SmoothInv, [Next]_vars
      PROVE  /\ cmd' # cmd /\ swept /\ sweeping /\ tick # 0 =>
                  Distance(cmd'.left, cmd.left)
                    <= (MOTOR_SWEEP_MAX_DUTY - MOTOR_SWEEP_MIN_DUTY)
                         \div (SweepPeriod \div 2) + 1
             /\ tick' # tick /\ tick # 0 =>
                  \E i, j \in DOMAIN lights :
                    /\ Distance(i, j) = 1
                    /\ \A k \in DOMAIN lights :
                         lights[k] <= lights[i] /\ lights'[k] <= lights'[j]
                    /\ lights'[j] < LED_PWM_PERIOD_DEFAULT
  <2>1. tick # 0 => tick - 1 \in Nat /\ (tick - 1) + 1 = tick
    BY <1>3, BringUpAssumption DEF SmoothInv, LightsInv
  <2>2. ASSUME cmd' # cmd, swept, sweeping, tick # 0
        PROVE  Distance(cmd'.left, cmd.left)
                 <= (MOTOR_SWEEP_MAX_DUTY - MOTOR_SWEEP_MIN_DUTY)
                      \div (SweepPeriod \div 2) + 1
    <3>1. pc = "commanded" /\ cmd' = next
      BY <1>3, <2>2, OnlyCommanded DEF vars, loopVars, commands
    <3>2. cmd' = Both(Duty(tick)) /\ cmd = Both(Duty(tick - 1))
      BY <1>3, <2>2, <3>1 DEF SmoothInv, SweepInv, Commanding
    <3>3. cmd'.left = Duty(tick) /\ cmd.left = Duty(tick - 1)
      BY <3>2 DEF Both
    <3>4. Distance(Duty(tick), Duty(tick - 1)) <= 176
      BY <2>1, <2>2, DutyMoves
    <3> QED
      BY <3>3, <3>4 DEF MOTOR_SWEEP_MAX_DUTY, MOTOR_SWEEP_MIN_DUTY
  <2>3. ASSUME tick' # tick, tick # 0
        PROVE  \E i, j \in DOMAIN lights :
                 /\ Distance(i, j) = 1
                 /\ \A k \in DOMAIN lights :
                      lights[k] <= lights[i] /\ lights'[k] <= lights'[j]
                 /\ lights'[j] < LED_PWM_PERIOD_DEFAULT
    <3> DEFINE s == tick - 1
    <3>1. s \in Nat /\ s + 1 = tick
      BY <2>1, <2>3
    <3>2. lights = led_frame(s) /\ lights' = led_frame(tick)
      BY <1>3, <2>3, OnlyLights DEF vars, loopVars, SmoothInv, LightsInv
    <3>3. /\ Head10(s) \in 0..9 /\ Head10(tick) \in 0..9
          /\ Distance(Head10(s), Head10(tick)) = 1
      BY <3>1, HeadMoves
    <3>4. /\ DOMAIN lights = 0..9 /\ lights[Head10(s)] = 24999
          /\ lights'[Head10(tick)] = 24999
          /\ \A k \in 0..9 : lights[k] <= 24999 /\ lights'[k] <= 24999
      BY <3>1, <3>2, FrameIs
    <3> HIDE DEF s
    <3> QED
      BY <3>3, <3>4 DEF LED_PWM_PERIOD_DEFAULT
  <2> QED
    BY <2>2, <2>3
<1> QED
  BY <1>1, <1>2, <1>3, PTL DEF Spec, MovesSmoothly
=============================================================================
