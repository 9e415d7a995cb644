----------------------------- MODULE I2cCommands ----------------------------
(***************************************************************************)
(* What the I2C master core promises the register block: a legal command   *)
(* is carried out while cmd_ready is low, and ends in HOLD with the bus    *)
(* owned, in IDLE after a STOP, or, by a fault or an abort, in IDLE by way *)
(* of the recovery.  Nothing is said of the bus and of time.               *)
(***************************************************************************)
VARIABLES
  phase,     \* "idle" and "hold" are ready for a command
  running    \* the command accepted last

commandVars == <<phase, running>>

AfterStart == {"WR", "RD", "STOP", "RESTART"}

Legal(cmd) ==
  \/ phase = "idle" /\ cmd = "START"
  \/ phase = "hold" /\ cmd \in AfterStart

Ready == phase \in {"idle", "hold"}

CommandsInit == phase = "idle" /\ running = "START"

Take(cmd) == Legal(cmd) /\ phase' = "busy" /\ running' = cmd

Finish ==
  /\ phase = "busy"
  /\ phase' = IF running = "STOP" THEN "idle" ELSE "hold"
  /\ UNCHANGED running

(* A fault of the bus: only while a command runs.                          *)
Fail == phase = "busy" /\ phase' = "abort" /\ UNCHANGED running

(* An abort by software: also out of HOLD.                                 *)
Abort == phase # "idle" /\ phase' = "abort" /\ UNCHANGED running

Recover == phase = "abort" /\ phase' = "idle" /\ UNCHANGED running

CommandsNext ==
  \/ \E cmd \in {"START"} \cup AfterStart : Take(cmd)
  \/ Finish \/ Fail \/ Abort \/ Recover

Commands == CommandsInit /\ [][CommandsNext]_commandVars
=============================================================================
