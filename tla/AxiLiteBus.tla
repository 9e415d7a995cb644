----------------------------- MODULE AxiLiteBus -----------------------------
(***************************************************************************)
(* The AXI4-Lite side every register wrapper of the repository faces: the  *)
(* five channels, the bus master that drives them, and the register file a *)
(* wrapper gives access to.                                                *)
(*                                                                         *)
(* A beat is one transfer of a channel.  The master keeps a beat on a      *)
(* channel until the slave takes it (VALID stays up until READY), and      *)
(* counts what it still waits for: an AW beat, and a W beat, is owed one B *)
(* response, an AR beat one R response.                                    *)
(*                                                                         *)
(* The master itself is the Nios V data manager behind the generated       *)
(* interconnect, which is not in src/: it is modelled as any master that   *)
(* follows AXI4-Lite, or, where a wrapper needs it, as one that has a      *)
(* single transaction under way (serial).                                  *)
(***************************************************************************)
EXTENDS Integers

CONSTANTS
  Addr,           \* register addresses
  BadAddr,        \* the addresses the register file answers with an error
  Data,           \* payloads: what a write beat and its strobes store
  Zero,           \* the payload a register has after reset
  NoBeat,         \* an idle channel
  MaxOutstanding  \* the beats of one kind the master leaves unanswered

ASSUME BusAssumption ==
  /\ BadAddr \subseteq Addr
  /\ NoBeat \notin Addr \cup Data \cup {Zero}
  /\ MaxOutstanding \in Nat \ {0}

VARIABLES
  awaddr, wdata, araddr,  \* the beat the master drives on AW, W and AR
  aw_out, w_out, ar_out   \* beats driven or taken, and not answered yet

masterVars == <<awaddr, wdata, araddr, aw_out, w_out, ar_out>>

Beats(S) == S \cup {NoBeat}

MasterTypeOK ==
  /\ awaddr \in Beats(Addr) /\ wdata \in Beats(Data) /\ araddr \in Beats(Addr)
  /\ aw_out \in Nat /\ w_out \in Nat /\ ar_out \in Nat

MasterInit ==
  /\ awaddr = NoBeat /\ wdata = NoBeat /\ araddr = NoBeat
  /\ aw_out = 0 /\ w_out = 0 /\ ar_out = 0

----------------------------------------------------------------------------
(* One clock of a request channel.  taken: the slave took the beat in this *)
(* clock.  answered: the response to an earlier beat was taken.            *)

Num(b) == IF b THEN 1 ELSE 0

HoldBeat(beat, taken) == beat # NoBeat /\ ~taken

Channel(beat, out, S, taken, answered) ==
  \E next \in Beats(S), issue \in BOOLEAN :
    /\ HoldBeat(beat, taken) => ~issue /\ next = beat
    /\ ~HoldBeat(beat, taken) => (issue <=> next # NoBeat)
    /\ issue => out < MaxOutstanding
    /\ beat' = next
    /\ out' = out + Num(issue) - Num(answered)

(* A serial master starts a transaction only when the last one is answered.*)
OneTransaction ==
  /\ aw_out <= 1 /\ w_out <= 1 /\ ar_out <= 1
  /\ ar_out = 0 \/ (aw_out = 0 /\ w_out = 0)

(* A clock of the master: its three request channels move on their own.    *)
Master(serial, aw_fire, w_fire, ar_fire, b_fire, r_fire) ==
  /\ Channel(awaddr, aw_out, Addr, aw_fire, b_fire)
  /\ Channel(wdata, w_out, Data, w_fire, b_fire)
  /\ Channel(araddr, ar_out, Addr, ar_fire, r_fire)
  /\ serial => OneTransaction'

----------------------------------------------------------------------------
(* What one access does to the register file and what it answers.          *)

Payload == Data \cup {Zero}

RegFile == [Addr \ BadAddr -> Payload]

ResetRegs == [a \in Addr \ BadAddr |-> Zero]

WriteReg(file, a, d) ==
  IF a \in BadAddr THEN file ELSE [file EXCEPT ![a] = d]

Response == [data : Payload, err : BOOLEAN]

WriteRsp(a) == [data |-> Zero, err |-> a \in BadAddr]

ReadRsp(file, a) ==
  [data |-> IF a \in BadAddr THEN Zero ELSE file[a], err |-> a \in BadAddr]
=============================================================================
