----------------------------- MODULE PwmPromise -----------------------------
(***************************************************************************)
(* What the motor PWM promises to the software that programs it            *)
(* (pwm_regs_common.sv:40-52): registers are written one at a time and     *)
(* change nothing until an APPLY; the APPLY makes all of them take effect  *)
(* together, at once or later, and meanwhile the old ones keep running.    *)
(* Clocks, counters and responses are left out.                            *)
(***************************************************************************)
CONSTANT Registers  \* the values the registers can have together

VARIABLES
  written,  \* the registers as software wrote them
  running,  \* the registers that drive the outputs
  waiting   \* an APPLY has not taken effect yet

promiseVars == <<written, running, waiting>>

PromiseInit ==
  /\ written \in Registers
  /\ running = written
  /\ waiting = FALSE

(* The PWM meanwhile: an APPLY takes effect, with the registers as they    *)
(* are before this step, or goes on waiting.                               *)
TakeEffect(apply) ==
  /\ waiting \/ apply
  /\ running' = written
  /\ waiting' = FALSE

Defer(apply) ==
  /\ running' = running
  /\ waiting' = (waiting \/ apply)

Progress(apply) == TakeEffect(apply) \/ Defer(apply)

WriteRegister == written' \in Registers /\ Progress(FALSE)

WriteApply == UNCHANGED written /\ Progress(TRUE)

PromiseNext == WriteRegister \/ WriteApply

(* An APPLY takes effect sooner or later.                                  *)
EveryApplyTakesEffect == waiting ~> ~waiting

PromiseSafety == PromiseInit /\ [][PromiseNext]_promiseVars

PromiseSpec == PromiseSafety /\ EveryApplyTakesEffect
=============================================================================
