---------------------------- MODULE BringUpMath ----------------------------
(***************************************************************************)
(* The arithmetic of src/base_main.c: scaling of samples, the sweep of the *)
(* motors, the frames of the LEDs and the digits of the display.  No       *)
(* product of the program leaves 32 bits, so integers are unbounded here.  *)
(* C's / and >> are only applied to values of known sign.                  *)
(***************************************************************************)
EXTENDS Integers

(* a / b to the nearest integer, halves away from zero; 0 for a bad b.     *)
div_round_nearest_s32(numer, denom) ==
  LET magnitude == IF numer >= 0 THEN numer ELSE -numer
      rounded == (magnitude + denom \div 2) \div denom
  IN IF denom <= 0 THEN 0 ELSE IF numer >= 0 THEN rounded ELSE -rounded

(* Bits 1:0 of DATA_FORMAT, bits 4:3 of ACCEL_CONFIG.                      *)
adxl_range(data_format) == data_format % 4
mpu_range(accel_config) == (accel_config \div 8) % 4

adxl345_lsb_per_g(data_format) ==
  IF (data_format \div 8) % 2 = 1 THEN 256
  ELSE 256 \div 2^adxl_range(data_format)

mpu6500_lsb_per_g(accel_config) == 16384 \div 2^mpu_range(accel_config)

full_scale_mg(range) == 2000 * 2^range

raw_to_milli_g(raw, lsb_per_g) == div_round_nearest_s32(raw * 1000, lsb_per_g)

mpu6500_temp_raw_to_centi_f(raw_temp) ==
  LET temp_c_centi == 2100 + div_round_nearest_s32(raw_temp * 100, 33387)
  IN 3200 + div_round_nearest_s32(temp_c_centi * 9, 5)

----------------------------------------------------------------------------

(* Faulty variant: the falling half is forgotten.                          *)
triangle_sawtooth(phase, period) ==
  IF period < 2 THEN 0 ELSE (1000 * (phase % period)) \div period

triangle_0_to_1000(phase, period) ==
  LET x == phase % period
      half == period \div 2
  IN IF period < 2 THEN 0
     ELSE IF x < half THEN (1000 * x) \div half
     ELSE (1000 * (period - 1 - x)) \div (period - half)

ping_pong_index(step, count) ==
  LET span == 2 * (count - 1)
      x == step % span
  IN IF count <= 1 THEN 0 ELSE IF x < count THEN x ELSE span - x

led_tail_level(dist) ==
  IF dist <= 4 THEN <<1000, 550, 220, 80, 25>>[dist + 1] ELSE 0

LED_CHANNELS == 10
LED_PWM_PERIOD_DEFAULT == 25000

Distance(a, b) == IF a > b THEN a - b ELSE b - a

(* The duty of every LED in one step.                                      *)
led_frame(step) ==
  LET head_a == ping_pong_index(step, LED_CHANNELS)
      head_b == ping_pong_index(step \div 2 + LED_CHANNELS - 1, LED_CHANNELS)
      breathe == triangle_0_to_1000(step, 64)
      ambient(i) == 30 + (breathe * (25 + i * 3)) \div 1000
      sparkle(i) == triangle_0_to_1000(step * 3 + i * 7, 48) \div 20
      sum(i) == ambient(i) + led_tail_level(Distance(i, head_a))
                  + led_tail_level(Distance(i, head_b)) \div 2 + sparkle(i)
      level(i) == IF sum(i) > 1000 THEN 1000 ELSE sum(i)
  IN [i \in 0..LED_CHANNELS - 1 |->
        (level(i) * (LED_PWM_PERIOD_DEFAULT - 1)) \div 1000]

(* The sweep of the motors between min and max.                            *)
motor_sweep_duty(tick, min, max, period) ==
  min + ((max - min) * triangle_0_to_1000(tick, period)) \div 1000

----------------------------------------------------------------------------

Clamp(q, low, high) == IF q > high THEN high ELSE IF q < low THEN low ELSE q

normalize_to_s8(value, full_scale_abs) ==
  IF full_scale_abs <= 0 THEN 0
  ELSE Clamp(div_round_nearest_s32(value * 127, full_scale_abs), -128, 127)

saturate_abs_u12(value) == Clamp(IF value < 0 THEN -value ELSE value, 0, 4095)

(* The six digits of three bytes, and of two values of twelve bits; a      *)
(* negative byte is its two's complement.  Digit 0 is the rightmost.       *)
pack_u8x3(bytes) ==
  [i \in 0..5 |-> ((bytes[3 - i \div 2] % 256) \div 16^(i % 2)) % 16]

pack_u12x2(hi12, lo12) ==
  [i \in 0..5 |-> ((IF i < 3 THEN lo12 ELSE hi12) \div 16^(i % 3)) % 16]
=============================================================================
