------------------------------ MODULE Sensors ------------------------------
(***************************************************************************)
(* How src/base_main.c brings up its two sensors: adxl345.c over SPI and   *)
(* the driver of the MPU-6500 over I2C.  A step is one driver call.  The   *)
(* program meets the sensors as an earlier one left them; the wiring of    *)
(* the ADXL345 may come loose at any time, which no call reports, and any  *)
(* I2C call may fail, which every call reports.  mpu6500.h is not in the   *)
(* repository: its calls are taken to do what i2c_mpu6500.c does.          *)
(***************************************************************************)
EXTENDS Integers, Sequences

CONSTANTS
  Formats,      \* DATA_FORMAT of the ADXL345 before the start
  OldValues,    \* the registers of the MPU-6500 before the start
  MaxFailures   \* bound on the calls that fail

ASSUME SensorsAssumption ==
  /\ Formats \subseteq 0..255 /\ OldValues \subseteq 0..255
  /\ MaxFailures \in Nat

VARIABLES
  pc,
  wired,        \* the ADXL345 is connected
  ids,          \* what is on the two buses
  adxl, mpu,    \* the registers of the sensors
  step,         \* of mpu6500_init_basic
  adxl_devid, adxl_data_format, mpu_whoami, mpu_accel_config,
  failures

devices == <<ids, adxl, mpu>>
cached == <<adxl_devid, adxl_data_format, mpu_whoami, mpu_accel_config>>
sensorVars == <<pc, wired, devices, step, cached, failures>>

ADXL345_DEVID_VALUE == 229      \* 0xE5
MPU6500_WHO_AM_I_EXPECTED == 112  \* 0x70

AdxlReady == [format |-> 0, rate |-> 10, power |-> 8]

(* The writes of mpu6500_init_basic, in their order.                       *)
MpuSetup ==
  <<[reg |-> "PWR_MGMT_1", value |-> 1], [reg |-> "PWR_MGMT_2", value |-> 0],
    [reg |-> "SMPLRT_DIV", value |-> 0], [reg |-> "CONFIG", value |-> 1],
    [reg |-> "GYRO_CONFIG", value |-> 0], [reg |-> "ACCEL_CONFIG", value |-> 0],
    [reg |-> "ACCEL_CONFIG2", value |-> 1]>>

MpuRegs == {MpuSetup[i].reg : i \in DOMAIN MpuSetup}

SensorsInit ==
  /\ pc = "adxl_format"
  /\ wired \in BOOLEAN
  /\ ids \in [adxl : {ADXL345_DEVID_VALUE, 0}, mpu : {MPU6500_WHO_AM_I_EXPECTED, 104}]
  /\ \E format \in Formats : adxl = [format |-> format, rate |-> 0, power |-> 0]
  /\ \E value \in OldValues : mpu = [reg \in MpuRegs |-> value]
  /\ step = 1
  /\ adxl_devid = 0 /\ adxl_data_format = 0
  /\ mpu_whoami = 0 /\ mpu_accel_config = 0
  /\ failures = 0

----------------------------------------------------------------------------
(* adxl345.c: every call returns ADXL345_OK, connected or not.             *)

(* With its 3-wire bit set the device answers on its input pin, and MISO   *)
(* floats as it does without a device.                                     *)
Answers == wired /\ (adxl.format \div 64) % 2 = 0
adxl_read(value) == IF Answers THEN {value} ELSE {0, 255}

adxl345_write_reg(here, next, regs) ==
  /\ pc = here /\ pc' = next
  /\ adxl' = IF wired THEN regs ELSE adxl
  /\ UNCHANGED <<wired, ids, mpu, step, cached, failures>>

adxl345_read_reg(here, value, good, next) ==
  /\ pc = here
  /\ \E byte \in adxl_read(value) : pc' = IF byte = good THEN next ELSE "halt"
  /\ UNCHANGED <<wired, devices, step, cached, failures>>

(* Faulty variant: the device is identified before it is put in 4-wire     *)
(* mode.                                                                   *)
IdentifyFirst ==
  \/ adxl345_read_reg("adxl_format", ids.adxl, ADXL345_DEVID_VALUE, "adxl_id")
  \/ adxl345_write_reg("adxl_id", "adxl_check", [adxl EXCEPT !.format = 0])
  \/ adxl345_read_reg("adxl_check", adxl.format, 0, "adxl_rate")
  \/ adxl345_write_reg("adxl_rate", "adxl_power", [adxl EXCEPT !.rate = 10])
  \/ adxl345_write_reg("adxl_power", "devid", [adxl EXCEPT !.power = 8])

adxl345_init_default ==
  \/ adxl345_write_reg("adxl_format", "adxl_check", [adxl EXCEPT !.format = 0])
  \/ adxl345_read_reg("adxl_check", adxl.format, 0, "adxl_id")
  \/ adxl345_read_reg("adxl_id", ids.adxl, ADXL345_DEVID_VALUE, "adxl_rate")
  \/ adxl345_write_reg("adxl_rate", "adxl_power", [adxl EXCEPT !.rate = 10])
  \/ adxl345_write_reg("adxl_power", "devid", [adxl EXCEPT !.power = 8])

(* What main keeps of the ADXL345.                                         *)
adxl345_read_device_id ==
  /\ pc = "devid" /\ pc' = "data_format"
  /\ adxl_devid' \in adxl_read(ids.adxl)
  /\ UNCHANGED <<wired, devices, step, adxl_data_format, mpu_whoami,
                 mpu_accel_config, failures>>

ReadDataFormat ==
  /\ pc = "data_format" /\ pc' = "mpu_probe"
  /\ adxl_data_format' \in adxl_read(adxl.format)
  /\ UNCHANGED <<wired, devices, step, adxl_devid, mpu_whoami,
                 mpu_accel_config, failures>>

----------------------------------------------------------------------------
(* i2c_mpu6500.c                                                           *)

Fail == failures < MaxFailures /\ failures' = failures + 1

mpu6500_fails ==
  /\ pc \in {"mpu_probe", "mpu_write", "whoami", "accel_config"}
  /\ pc' = "halt"
  /\ Fail
  /\ UNCHANGED <<wired, devices, step, cached>>

mpu6500_probe ==
  /\ pc = "mpu_probe"
  /\ pc' = IF ids.mpu = MPU6500_WHO_AM_I_EXPECTED THEN "mpu_write" ELSE "halt"
  /\ UNCHANGED <<wired, devices, step, cached, failures>>

SetMpu == mpu' = [mpu EXCEPT ![MpuSetup[step].reg] = MpuSetup[step].value]

(* Faulty variant: the result of a write is not looked at.                 *)
WriteUnchecked ==
  /\ pc = "mpu_write"
  /\ pc' = IF step = Len(MpuSetup) THEN "whoami" ELSE "mpu_write"
  /\ step' = IF step = Len(MpuSetup) THEN step ELSE step + 1
  /\ \/ SetMpu /\ UNCHANGED failures
     \/ Fail /\ UNCHANGED mpu
  /\ UNCHANGED <<wired, ids, adxl, cached>>

(* A write that succeeds, and one that reaches the device though it is     *)
(* reported as failed.                                                     *)
mpu6500_write_reg ==
  /\ pc = "mpu_write"
  /\ SetMpu
  /\ \/ /\ pc' = IF step = Len(MpuSetup) THEN "whoami" ELSE "mpu_write"
        /\ step' = IF step = Len(MpuSetup) THEN step ELSE step + 1
        /\ UNCHANGED failures
     \/ pc' = "halt" /\ Fail /\ UNCHANGED step
  /\ UNCHANGED <<wired, ids, adxl, cached>>

(* What main keeps of the MPU-6500.                                        *)
mpu6500_read_whoami ==
  /\ pc = "whoami" /\ pc' = "accel_config"
  /\ mpu_whoami' = ids.mpu
  /\ UNCHANGED <<wired, devices, step, adxl_devid, adxl_data_format,
                 mpu_accel_config, failures>>

ReadAccelConfig ==
  /\ pc = "accel_config" /\ pc' = "check"
  /\ mpu_accel_config' = mpu["ACCEL_CONFIG"]
  /\ UNCHANGED <<wired, devices, step, adxl_devid, adxl_data_format,
                 mpu_whoami, failures>>

CheckIdentities ==
  /\ pc = "check"
  /\ pc' = IF /\ adxl_devid = ADXL345_DEVID_VALUE
              /\ mpu_whoami = MPU6500_WHO_AM_I_EXPECTED
           THEN "leds" ELSE "halt"
  /\ UNCHANGED <<wired, devices, step, cached, failures>>

----------------------------------------------------------------------------

Configure ==
  \/ adxl345_init_default \/ adxl345_read_device_id \/ ReadDataFormat
  \/ mpu6500_fails \/ mpu6500_probe \/ mpu6500_write_reg
  \/ mpu6500_read_whoami \/ ReadAccelConfig \/ CheckIdentities

ComesLoose ==
  /\ wired /\ wired' = FALSE
  /\ UNCHANGED <<pc, devices, step, cached, failures>>
=============================================================================
