----------------------------- MODULE MCBringUp -----------------------------
(* Samples for TLC: full scale, small values of both signs, 24 degrees C.  *)
EXTENDS BringUp

MCSamples ==
  {[gyro |-> <<-32768, 130, -1>>, accel |-> <<32767, -16384, 64>>,
    temp |-> 1000, adxl |-> <<256, -512, 3>>]}
=============================================================================
