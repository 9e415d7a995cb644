-------------------------- MODULE AxiLiteMachines ---------------------------
(***************************************************************************)
(* The two register wrappers that are state machines, the one of the GPIO  *)
(* and seven-segment blocks and the one of the PWM blocks, each behind its *)
(* bus master.  Their registers are the same but for the names: `state`    *)
(* and the payloads aw, w and ar.                                          *)
(***************************************************************************)
EXTENDS AxiLiteBus

CONSTANTS
  Wrappers,  \* the wrappers looked at: "gpio", "motor"
  Serial     \* the master of the PWM wrapper has one transaction at a time

ASSUME MachinesAssumption ==
  Wrappers \subseteq {"gpio", "motor"} /\ Serial \in BOOLEAN

VARIABLES
  wrapper,                \* which of the two: it never changes
  regs, rsp,
  state, aw, w, ar, bresp_reg, rdata_reg

slaveVars == <<regs, rsp, state, aw, w, ar, bresp_reg, rdata_reg>>

vars == <<wrapper, masterVars, slaveVars>>

Gpio == INSTANCE AxiLiteGpio WITH
  state_reg <- state, aw_hold <- aw, w_hold <- w, ar_hold <- ar

Motor == INSTANCE AxiLiteMotor WITH
  current_state <- state, awaddr_reg <- aw, wdata_reg <- w, araddr_reg <- ar

Init ==
  /\ wrapper \in Wrappers
  /\ \/ wrapper = "gpio" /\ Gpio!Init
     \/ wrapper = "motor" /\ Motor!Init

Clock(bready, rready) ==
  /\ \/ wrapper = "gpio" /\ Gpio!Clock(bready, rready)
     \/ wrapper = "motor" /\ Motor!Clock(bready, rready)
  /\ UNCHANGED wrapper

Next == \E bready, rready \in BOOLEAN : Clock(bready, rready)

(* The clock runs for ever, and the master eventually takes a response (a  *)
(* clock with BREADY is possible in every state in which any clock is): as *)
(* long as the wrapper can move, it does.  The master is not made to start *)
(* anything.                                                               *)
Fairness ==
  /\ WF_slaveVars(\E rready \in BOOLEAN : Clock(TRUE, rready))
  /\ WF_slaveVars(\E bready \in BOOLEAN : Clock(bready, TRUE))

Spec == Init /\ [][Next]_vars

FairSpec == Spec /\ Fairness

----------------------------------------------------------------------------

Either(gpio, motor) == IF wrapper = "gpio" THEN gpio ELSE motor

Promise == INSTANCE AxiLiteSlave WITH
  awq <- Either(Gpio!absAW, Motor!absAW),
  wq  <- Either(Gpio!absW, Motor!absW),
  arq <- Either(Gpio!absAR, Motor!absAR),
  bq  <- Either(Gpio!absB, Motor!absB),
  rq  <- Either(Gpio!absR, Motor!absR)

(* Each wrapper implements the promise of a register wrapper.              *)
ImplementsSlave == Promise!Spec

bvalid == Either(Gpio!bvalid, Motor!bvalid)
rvalid == Either(Gpio!rvalid, Motor!rvalid)

(* A write of which the master has presented both halves is answered,      *)
(* whichever comes first, even though reads compete for the same machine;  *)
(* and a read is answered, by the PWM wrapper behind its serial master     *)
(* always, by the GPIO wrapper once no write is complete: half a write in  *)
(* its holding registers does not keep a read from its answer.             *)
AccessesAnswered ==
  /\ (aw_out > 0 /\ w_out > 0) ~> bvalid
  /\ (<>[](wrapper = "motor" \/ aw_out = 0 \/ w_out = 0))
       => (ar_out > 0 ~> rvalid)
=============================================================================
