-------------------------------- MODULE Uart --------------------------------
(***************************************************************************)
(* A byte's way from the transmitter of one uart_port to the reader of     *)
(* another: uart_tx_engine.sv, the wire, uart_rx_engine.sv, the receive    *)
(* FIFO (sync_fifo.sv) and the output stage of uart_port_ip.sv.  Each side *)
(* has its own uart_baudgen.sv; baud_en stays high.  A step is one clock.  *)
(* The peer sends bytes when it likes, as long as the receiver has room;   *)
(* the reader raises rx_ready when it likes.                               *)
(***************************************************************************)
EXTENDS Integers, Sequences

CONSTANTS
  Ticks,     \* baud ticks to a bit: 16
  DataBits,  \* 8
  Bytes,     \* sequences of bits, in the order of the wire
  Depth,     \* RX_FIFO_DEPTH
  Rates,     \* the div_x16 of the transmitter and of the receiver: pairs
  Drains,    \* the reader goes on, once it reads, until the FIFO is empty
  NoByte

ASSUME UartAssumption ==
  /\ Ticks \in Nat \ {0, 1} /\ DataBits \in Nat \ {0} /\ Depth \in Nat \ {0}
  /\ Bytes \subseteq [1..DataBits -> BOOLEAN] /\ NoByte \notin Bytes
  /\ Rates \subseteq Nat \X Nat
  /\ Drains \in BOOLEAN

VARIABLES
  rates,
  tx_baud, rx_baud,                      \* cnt and baud_x16_tick
  tx,                                    \* the registers of uart_tx_engine
  uart_rx_ff1, uart_rx_ff2,
  rx,                                    \* those of uart_rx_engine
  fifo, dout, fifo_dout_valid, out_valid, out_data,
  reading,                               \* rx_ready in the last clock
  sent                                   \* history: sent and not yet read

link == <<tx_baud, rx_baud, tx, uart_rx_ff1, uart_rx_ff2, rx>>
store == <<fifo, dout, fifo_dout_valid, out_valid, out_data>>
vars == <<rates, link, store, reading, sent>>

DEFAULT_DIV_X16 == 326

div_eff(div_x16) == IF div_x16 = 0 THEN DEFAULT_DIV_X16 ELSE div_x16

Init ==
  /\ rates \in Rates
  /\ \E i \in 0..div_eff(rates[1]) - 1, j \in 0..div_eff(rates[2]) - 1 :
       tx_baud = [cnt |-> i, tick |-> FALSE] /\ rx_baud = [cnt |-> j, tick |-> FALSE]
  /\ tx = [state |-> "IDLE", tick |-> 0, bits |-> <<>>]
  /\ uart_rx_ff1 = TRUE /\ uart_rx_ff2 = TRUE
  /\ rx = [state |-> "IDLE", tick |-> 0, bits |-> <<>>, start_valid |-> FALSE,
           buffer |-> NoByte, valid |-> FALSE]
  /\ fifo = <<>> /\ dout = NoByte /\ fifo_dout_valid = FALSE
  /\ out_valid = FALSE /\ out_data = NoByte
  /\ reading = FALSE /\ sent = <<>>

----------------------------------------------------------------------------
(* One clock of each part.                                                 *)

BaudGen(baud, div) ==
  [cnt |-> IF baud.cnt = div - 1 THEN 0 ELSE baud.cnt + 1,
   tick |-> baud.cnt = div - 1]

Counted(engine, baud) ==
  IF baud.tick THEN (engine.tick + 1) % Ticks ELSE engine.tick
BitEnds(engine, baud) == baud.tick /\ engine.tick = Ticks - 1

uart_tx ==
  tx.state \in {"IDLE", "STOP"} \/ (tx.state = "DATA" /\ Head(tx.bits))

(* `bits` is what is left of shift_reg, least significant bit first.       *)
TxEngine(byte) ==
  LET ends == BitEnds(tx, tx_baud)
      go == [tx EXCEPT !.tick = Counted(tx, tx_baud)]
  IN \/ /\ tx.state = "IDLE"
        /\ tx' = IF byte = NoByte THEN tx
                 ELSE [state |-> "START", tick |-> 0, bits |-> byte]
     \/ /\ tx.state = "START"
        /\ tx' = IF ends THEN [go EXCEPT !.state = "DATA"] ELSE go
     \/ /\ tx.state = "DATA"
        /\ tx' = IF ~ends THEN go
                 ELSE [go EXCEPT !.bits = Tail(tx.bits),
                         !.state = IF Len(tx.bits) = 1 THEN "STOP" ELSE "DATA"]
     \/ /\ tx.state = "STOP"
        /\ tx' = IF ends THEN [go EXCEPT !.state = "IDLE"] ELSE go

full == Len(fifo) = Depth

(* Faulty variant: the last tick of a bit is taken for its middle.         *)
sample_at_end == rx_baud.tick /\ rx.tick = Ticks - 1

sample_fire == rx_baud.tick /\ rx.tick = Ticks \div 2 - 1

(* `bits` is what has been sampled into shift_reg.  The ticks that HOLD    *)
(* counts are left out: IDLE clears them.                                  *)
RxEngine ==
  LET line == uart_rx_ff2
      ends == BitEnds(rx, rx_baud)
      go == [rx EXCEPT !.tick = Counted(rx, rx_baud)]
  IN \/ /\ rx.state = "IDLE"
        /\ rx' = [rx EXCEPT !.bits = <<>>,
                    !.state = IF line THEN "IDLE" ELSE "START"]
     \/ /\ rx.state = "START"
        /\ rx' = [go EXCEPT
                    !.start_valid = IF sample_fire THEN ~line ELSE @,
                    !.state = IF ~ends THEN "START"
                              ELSE IF rx.start_valid THEN "DATA" ELSE "IDLE"]
     \/ /\ rx.state = "DATA"
        /\ rx' = [go EXCEPT
                    !.start_valid = FALSE,
                    !.bits = IF sample_fire THEN Append(@, line) ELSE @,
                    !.state = IF ends /\ Len(rx.bits) = DataBits
                              THEN "STOP" ELSE "DATA"]
     \/ /\ rx.state = "STOP"
        /\ rx' = IF ends THEN [go EXCEPT !.state = "HOLD", !.valid = TRUE,
                                 !.buffer = rx.bits]
                 ELSE go
     \/ /\ rx.state = "HOLD"
        /\ rx' = IF full THEN rx ELSE [rx EXCEPT !.state = "IDLE", !.valid = FALSE]

rx_fifo_wr_fire == rx.valid /\ ~full

rx_fire(rx_ready) == out_valid /\ rx_ready

(* Faulty variant: the output register is not looked at.                   *)
rd_en_always(rx_ready) == fifo # <<>>

(* The next byte is popped when the output register is empty or being      *)
(* read.  A byte popped in the last clock is on its way and not seen.      *)
rx_fifo_rd_en(rx_ready) ==
  (~out_valid \/ rx_fire(rx_ready)) /\ fifo # <<>>

Fifo(rx_ready) ==
  LET rd_en == rx_fifo_rd_en(rx_ready) IN
  /\ fifo' = (IF rd_en THEN Tail(fifo) ELSE fifo)
               \o (IF rx_fifo_wr_fire THEN <<rx.buffer>> ELSE <<>>)
  /\ dout' = IF rd_en THEN Head(fifo) ELSE dout
  /\ fifo_dout_valid' = rd_en

(* A byte that comes out of the FIFO takes the output register, whether or *)
(* not the one in it has been read.                                        *)
OutputStage(rx_ready) ==
  /\ out_valid' = (fifo_dout_valid \/ (out_valid /\ ~rx_fire(rx_ready)))
  /\ out_data' = IF fifo_dout_valid THEN dout ELSE out_data

rx_fifo_empty == fifo = <<>> /\ ~out_valid

----------------------------------------------------------------------------
(* The peer, the wire and the reader.                                      *)

(* A false start is over.                                                  *)
Quiet == uart_rx_ff1 /\ uart_rx_ff2 /\ rx.state # "START"

(* The receiver can keep as many bytes: in the FIFO, in the output stage   *)
(* and in its engine.                                                      *)
Room == Len(sent) < Depth + 2

Sends(byte) == tx.state = "IDLE" /\ Room /\ Quiet /\ byte \in Bytes

(* A spike of one clock, on a wire that has been idle.                     *)
Spikes == tx.state = "IDLE" /\ Quiet

Reads(rx_ready) == Drains /\ reading /\ ~rx_fifo_empty => rx_ready

Clock(byte, spike, rx_ready) ==
  /\ tx_baud' = BaudGen(tx_baud, div_eff(rates[1]))
  /\ rx_baud' = BaudGen(rx_baud, div_eff(rates[2]))
  /\ TxEngine(byte)
  /\ uart_rx_ff1' = (uart_tx /\ ~spike)
  /\ uart_rx_ff2' = uart_rx_ff1
  /\ RxEngine
  /\ Fifo(rx_ready)
  /\ OutputStage(rx_ready)
  /\ reading' = rx_ready
  /\ sent' = (IF rx_fire(rx_ready) /\ sent # <<>> THEN Tail(sent) ELSE sent)
               \o (IF byte = NoByte THEN <<>> ELSE <<byte>>)
  /\ UNCHANGED rates

Next ==
  \E rx_ready \in BOOLEAN :
    /\ Reads(rx_ready)
    /\ \/ \E byte \in Bytes : Sends(byte) /\ Clock(byte, FALSE, rx_ready)
       \/ Spikes /\ Clock(NoByte, TRUE, rx_ready)
       \/ Clock(NoByte, FALSE, rx_ready)

Spec == Init /\ [][Next]_vars /\ WF_vars(Next)

----------------------------------------------------------------------------

(* What the reader is offered is the oldest byte sent that it has not      *)
(* read: no byte is lost, repeated, reordered or garbled, back to back or  *)
(* not, whatever the phases of the two baud clocks, and no spike passes    *)
(* for one.  The output stage is to be stable (uart_port_ip.sv:98) and to  *)
(* be refilled only when it is empty (159): that is so for a reader that   *)
(* drains the FIFO, and not for one that stops after a byte.               *)
OffersNext == out_valid => sent # <<>> /\ out_data = Head(sent)

(* Every byte sent is offered.                                             *)
Arrives == sent # <<>> ~> out_valid
=============================================================================
