----------------------------- MODULE UartProofs -----------------------------
(***************************************************************************)
(* That the UART delivers (OffersNext), for every pair of baud rates of    *)
(* which the receiver's is not the slower and the difference does not push *)
(* a sample out of its bit, and for a reader that drains the FIFO.         *)
(*                                                                         *)
(* Time is measured in clocks to the end of the bit an engine is in (L1 of *)
(* the sender, L2 of the receiver).  Inside a frame both go down by one in *)
(* every clock, so that the receiver stays behind the sender by what it    *)
(* was when it saw the start bit (SameDrift): from that follows which bit  *)
(* it samples (Sampled), that it is in the stop bit before the sender ends *)
(* it (FirstToEnd), and that it finds the next start bit (CallingStep).    *)
(***************************************************************************)
EXTENDS Uart, SequenceTheorems, TLAPS

-----------------------------------------------------------------------------
(* Baud clocks and bit timers.                                             *)

(* Clocks until engine and baud generator end a bit together, when the bit *)
(* timer stands at k and a baud tick is d clocks.                          *)
Left(k, baud, d) ==
  (IF baud.tick THEN 0 ELSE d - baud.cnt) + (Ticks - 1 - k) * d

BaudType(d) == [cnt : 0..d-1, tick : BOOLEAN]
BaudOK(baud, d) == baud \in BaudType(d) /\ (baud.tick => baud.cnt = 0)

(* The baud generator is past its first clock: from then on cnt = 0 and    *)
(* the tick come together.                                                 *)
Regular(baud) == baud.tick <=> baud.cnt = 0

Ticked(k, baud) == IF baud.tick THEN (k + 1) % Ticks ELSE k

(* The generator of a baud clock keeps its range, and is regular after a   *)
(* step.                                                                   *)
LEMMA BaudStep ==
  ASSUME NEW d \in Nat, d >= 3, NEW baud, BaudOK(baud, d)
  PROVE  LET next == BaudGen(baud, d)
         IN /\ BaudOK(next, d) /\ Regular(next)
            /\ next.cnt \in 0..d - 1
            /\ next.tick <=> baud.cnt = d - 1
            /\ next.cnt = IF baud.cnt = d - 1 THEN 0 ELSE baud.cnt + 1
<1> DEFINE next == BaudGen(baud, d)
           cnt == IF baud.cnt = d - 1 THEN 0 ELSE baud.cnt + 1
           tick == baud.cnt = d - 1
<1>1. baud.cnt \in 0..d - 1
  BY DEF BaudOK, BaudType
<1>2. next = [cnt |-> cnt, tick |-> tick]
  BY DEF BaudGen
<1>3. cnt \in 0..d - 1 /\ (tick <=> cnt = 0) /\ tick \in BOOLEAN
  BY <1>1
<1> HIDE DEF next, cnt, tick
<1>4. next.cnt = cnt /\ next.tick = tick /\ next \in BaudType(d)
  BY <1>2, <1>3 DEF BaudType
<1>5. BaudOK(next, d) /\ Regular(next)
  BY <1>3, <1>4 DEF BaudOK, Regular
<1> QED
  BY <1>3, <1>4, <1>5 DEF next, cnt, tick

(* Arithmetic of the bit timer: what d clocks to a tick make of its ticks. *)
LEMMA Products ==
  ASSUME NEW d \in Nat, NEW k \in 0..Ticks - 1, Ticks >= 4
  PROVE  /\ Ticks * d \in Nat /\ (Ticks - 1 - k) * d \in Nat
         /\ (Ticks - 1 - k) * d <= Ticks * d - d
         /\ k < Ticks - 1 => (Ticks - 1 - (k + 1)) * d = (Ticks - 1 - k) * d - d
         /\ k = Ticks - 1 => (Ticks - 1 - k) * d = 0
         /\ k < Ticks - 1 => (Ticks - 1 - k) * d >= d
         /\ k = 0 => (Ticks - 1 - k) * d = Ticks * d - d
<1> DEFINE j == Ticks - 1 - k
<1>1. j \in Nat /\ Ticks = j + k + 1 /\ k \in Nat /\ Ticks \in Nat
  BY UartAssumption
<1>2. Ticks * d = j * d + k * d + d /\ k * d \in Nat /\ j * d \in Nat /\ Ticks * d \in Nat
  BY <1>1
<1>3. j * d <= Ticks * d - d
  BY <1>2
<1>4. k < Ticks - 1 => j >= 1 /\ (Ticks - 1 - (k + 1)) = j - 1 /\ j - 1 \in Nat
  BY <1>1
<1>5. k < Ticks - 1 => (j - 1) * d = j * d - d /\ (j - 1) * d \in Nat
  BY <1>1, <1>4
<1>6. k = Ticks - 1 => j * d = 0
  <2> SUFFICES ASSUME k = Ticks - 1 PROVE j * d = 0
    OBVIOUS
  <2>1. j = 0
    BY <1>1
  <2> QED BY <2>1
<1>7. k = 0 => j * d = Ticks * d - d
  BY <1>2, <1>1
<1> QED
  BY <1>1, <1>2, <1>3, <1>4, <1>5, <1>6, <1>7

(* The same around the middle of a bit: the tick before the sampling one   *)
(* is at least d clocks further from the end, the one after it d clocks    *)
(* nearer.                                                                 *)
LEMMA Halves ==
  ASSUME NEW d \in Nat, NEW k \in 0..Ticks - 1, Ticks >= 4
  PROVE  LET h == Ticks \div 2 IN
         /\ (Ticks - h) * d \in Nat
         /\ k = h - 1 => (Ticks - 1 - k) * d = (Ticks - h) * d
         /\ k < h - 1 => (Ticks - 1 - k) * d >= (Ticks - h) * d + d
         /\ k > h - 1 => (Ticks - 1 - k) * d + d <= (Ticks - h) * d
<1> DEFINE h == Ticks \div 2
           j == Ticks - 1 - k
           g == Ticks - h
<1>1. Ticks \in Nat /\ h \in Nat /\ h <= Ticks - 2 /\ h >= 2 /\ j \in Nat /\ g \in Nat
  BY UartAssumption
<1>2. k = h - 1 => j = g
  BY <1>1
<1>3. ASSUME k < h - 1 PROVE j * d >= g * d + d
  <2>1. PICK i \in Nat : j = g + 1 + i
    <3>1. j - g - 1 \in Nat /\ j = g + 1 + (j - g - 1)
      BY <1>1, <1>3
    <3> QED BY <3>1
  <2>2. j * d = g * d + d + i * d /\ i * d \in Nat
    BY <2>1, <1>1
  <2>3. g * d \in Nat
    BY <1>1
  <2> QED BY <2>2, <2>3
<1>4. ASSUME k > h - 1 PROVE j * d + d <= g * d
  <2>1. PICK i \in Nat : g = j + 1 + i
    <3>1. g - j - 1 \in Nat /\ g = j + 1 + (g - j - 1)
      BY <1>1, <1>4
    <3> QED BY <3>1
  <2>2. g * d = j * d + d + i * d /\ i * d \in Nat
    BY <2>1, <1>1
  <2>3. j * d \in Nat
    BY <1>1
  <2> QED BY <2>2, <2>3
<1>5. g * d \in Nat
  BY <1>1
<1> QED
  BY <1>1, <1>2, <1>3, <1>4, <1>5

(* An engine that counts is one clock nearer the end of its bit after      *)
(* every clock, fires there, and fires `sample_fire` just Ticks - Ticks    *)
(* \div 2 ticks before.                                                    *)
LEMMA Counting ==
  ASSUME Ticks >= 4, NEW d \in Nat, d >= 3, NEW k \in 0..Ticks - 1,
         NEW baud, BaudOK(baud, d), Regular(baud)
  PROVE  LET B == Ticks * d
             l == Left(k, baud, d)
             next == BaudGen(baud, d)
         IN /\ BaudOK(next, d) /\ Regular(next)
            /\ Ticked(k, baud) \in 0..Ticks - 1
            /\ l \in 0..B - 1
            /\ baud.tick /\ k = Ticks - 1 <=> l = 0
            /\ Left(Ticked(k, baud), next, d) = IF l = 0 THEN B - 1 ELSE l - 1
            /\ baud.tick /\ k = Ticks \div 2 - 1 <=> l = (Ticks - Ticks \div 2) * d
            /\ l = 0 => Ticked(k, baud) = 0
<1> DEFINE B == Ticks * d
           next == BaudGen(baud, d)
           p == (Ticks - 1 - k) * d
           h == (Ticks - Ticks \div 2) * d
<1>0. Ticks \in Nat /\ baud.cnt \in 0..d-1 /\ baud.tick \in BOOLEAN
  BY UartAssumption DEF BaudOK, BaudType
<1>1. BaudOK(next, d) /\ Regular(next) /\ next.cnt \in 0..d-1 /\ (next.tick <=> baud.cnt = d - 1)
      /\ next.cnt = IF baud.cnt = d - 1 THEN 0 ELSE baud.cnt + 1
  BY BaudStep
<1>2. Ticked(k, baud) = IF ~baud.tick THEN k ELSE IF k = Ticks - 1 THEN 0 ELSE k + 1
  BY <1>0 DEF Ticked
<1>3. /\ B \in Nat /\ p \in Nat /\ p <= B - d
      /\ k < Ticks - 1 => (Ticks - 1 - (k + 1)) * d = p - d
      /\ k = Ticks - 1 => p = 0
      /\ k < Ticks - 1 => p >= d
      /\ k = 0 => p = B - d
  BY Products
<1>4. (Ticks - 1 - 0) * d = B - d
  <2>1. 0 \in 0..Ticks - 1
    BY <1>0
  <2> QED BY Products, <2>1
<1>5. /\ h \in Nat
      /\ k = Ticks \div 2 - 1 => p = h
      /\ k < Ticks \div 2 - 1 => p >= h + d
      /\ k > Ticks \div 2 - 1 => p + d <= h
  BY Halves
<1>6. Ticked(k, baud) \in 0..Ticks - 1
  BY <1>2, <1>0
<1>7. Left(k, baud, d) = (IF baud.tick THEN 0 ELSE d - baud.cnt) + p
  BY DEF Left
<1>8. Ticks \div 2 \in Nat /\ Ticks \div 2 - 1 \in Int
  BY <1>0
<1>9. Left(Ticked(k, baud), next, d) = (IF next.tick THEN 0 ELSE d - next.cnt)
           + (IF ~baud.tick THEN p ELSE IF k = Ticks - 1 THEN B - d ELSE p - d)
  <2>1. CASE ~baud.tick
    BY <2>1, <1>2 DEF Left
  <2>2. CASE baud.tick /\ k = Ticks - 1
    BY <2>2, <1>2, <1>4 DEF Left
  <2>3. CASE baud.tick /\ k # Ticks - 1
    BY <2>3, <1>2, <1>3, <1>0 DEF Left
  <2> QED BY <2>1, <2>2, <2>3
<1> HIDE DEF B, p, h, next
<1>10. Left(k, baud, d) \in 0..B - 1 /\ (baud.tick /\ k = Ticks - 1 <=> Left(k, baud, d) = 0)
  BY <1>0, <1>3, <1>7 DEF Regular
<1>11. baud.tick /\ k = Ticks \div 2 - 1 <=> Left(k, baud, d) = h
  BY <1>0, <1>3, <1>5, <1>7, <1>8 DEF Regular
<1>12. Left(Ticked(k, baud), next, d) = IF Left(k, baud, d) = 0 THEN B - 1 ELSE Left(k, baud, d) - 1
  BY <1>0, <1>1, <1>3, <1>7, <1>9, <1>10 DEF Regular
<1> QED
  BY <1>1, <1>2, <1>6, <1>10, <1>11, <1>12 DEF B, h, next

(* An engine that idles holds its bit timer at 0: a bit begun now would    *)
(* end in a bit's length, less at most one tick, as the baud clock runs    *)
(* on.                                                                     *)
LEMMA Idling ==
  ASSUME Ticks >= 4, NEW d \in Nat, d >= 3, NEW baud, BaudOK(baud, d)
  PROVE  LET B == Ticks * d
             l == Left(0, baud, d)
             next == BaudGen(baud, d)
         IN /\ BaudOK(next, d) /\ Regular(next)
            /\ l \in B - d..B
            /\ Left(0, next, d) \in B - d..B - 1
            /\ Left(0, next, d) >= l - 1
            /\ l # B - d => Left(0, next, d) = l - 1
<1> DEFINE B == Ticks * d
           next == BaudGen(baud, d)
<1>0. Ticks \in Nat /\ baud.cnt \in 0..d-1 /\ baud.tick \in BOOLEAN /\ (baud.tick => baud.cnt = 0)
  BY UartAssumption DEF BaudOK, BaudType
<1>1. BaudOK(next, d) /\ Regular(next) /\ next.cnt \in 0..d-1 /\ (next.tick <=> baud.cnt = d - 1)
      /\ next.cnt = IF baud.cnt = d - 1 THEN 0 ELSE baud.cnt + 1
  BY BaudStep
<1>4. (Ticks - 1 - 0) * d = B - d /\ B \in Nat
  <2>1. 0 \in 0..Ticks - 1
    BY <1>0
  <2> QED BY Products, <2>1
<1>7. Left(0, baud, d) = (IF baud.tick THEN 0 ELSE d - baud.cnt) + (B - d)
  BY <1>4 DEF Left
<1>8. Left(0, next, d) = (IF next.tick THEN 0 ELSE d - next.cnt) + (B - d)
  BY <1>4 DEF Left
<1> HIDE DEF B, next
<1>9. /\ Left(0, baud, d) \in B - d..B
      /\ Left(0, next, d) \in B - d..B - 1
      /\ Left(0, next, d) >= Left(0, baud, d) - 1
      /\ Left(0, baud, d) # B - d => Left(0, next, d) = Left(0, baud, d) - 1
  BY <1>0, <1>1, <1>4, <1>7, <1>8
<1> QED
  BY <1>1, <1>9 DEF B, next

-----------------------------------------------------------------------------
(* The sizes of a pair of baud rates.                                      *)

(* Sizes, in clocks: a baud tick, a bit and, for the receiver, what is     *)
(* left of a bit when it is sampled; of the sender (1) and of the receiver *)
(* (2). X is what the receiver gains on the sender in a bit, Slip in a     *)
(* frame.                                                                  *)
D1 == div_eff(rates[1])
D2 == div_eff(rates[2])
B1 == Ticks * D1
B2 == Ticks * D2
H2 == (Ticks - Ticks \div 2) * D2
X == B1 - B2
Slip == (DataBits + 1) * X

(* The receiver's clock is no slower than the sender's, a baud tick is     *)
(* three clocks or more, and the last bit is still sampled inside itself:  *)
(* what the receiver has gained by then, with the phase of its baud tick,  *)
(* is less than the part of the bit that lies before the sample.           *)
RatesFit ==
  \A r \in Rates :
    LET d1 == div_eff(r[1])
        d2 == div_eff(r[2])
    IN /\ 3 <= d2 /\ d2 <= d1
       /\ (DataBits + 1) * (Ticks * d1 - Ticks * d2) + d2 + (Ticks - Ticks \div 2) * d2
            <= Ticks * d1 + 1

Fits == Ticks >= 4 /\ Drains /\ RatesFit

(* What Fits says of the sizes of one pair of rates.                       *)
Sizes ==
  /\ D1 \in Nat /\ D2 \in Nat /\ 3 <= D2 /\ D2 <= D1
  /\ B1 \in Nat /\ B2 \in Nat /\ H2 \in Nat /\ X \in Nat /\ Slip \in Nat
  /\ X = B1 - B2
  /\ B1 >= 4 * D1 /\ B2 >= 4 * D2 /\ X >= 4 * D1 - 4 * D2
  /\ 2 * D2 <= H2 /\ H2 + 2 * D2 <= B2 /\ B2 <= 2 * H2
  /\ Slip >= 2 * X /\ Slip + D2 + H2 <= B1 + 1
  /\ DataBits \in Nat /\ DataBits >= 1

(* The sizes of a pair of rates that fit.                                  *)
LEMMA FitsSizes ==
  ASSUME Fits, rates \in Rates
  PROVE  Sizes
<1>1. DataBits \in Nat /\ DataBits >= 1 /\ Ticks \in Nat /\ Ticks >= 4
  BY UartAssumption DEF Fits
<1>2. rates[1] \in Nat /\ rates[2] \in Nat
  BY UartAssumption
<1>3. D1 \in Nat /\ D2 \in Nat
  BY <1>2 DEF D1, D2, div_eff, DEFAULT_DIV_X16
<1>4. /\ 3 <= D2 /\ D2 <= D1
      /\ (DataBits + 1) * (Ticks * D1 - Ticks * D2) + D2 + (Ticks - Ticks \div 2) * D2
            <= Ticks * D1 + 1
  BY DEF Fits, RatesFit, D1, D2
<1> HIDE DEF D1, D2
<1>5. PICK t \in Nat : Ticks = 4 + t
  <2>1. Ticks - 4 \in Nat /\ Ticks = 4 + (Ticks - 4)
    BY <1>1
  <2> QED BY <2>1
<1>6. PICK e \in Nat : D1 = D2 + e
  <2>1. D1 - D2 \in Nat /\ D1 = D2 + (D1 - D2)
    BY <1>3, <1>4
  <2> QED BY <2>1
<1>7. B1 = 4 * D1 + t * D1 /\ B2 = 4 * D2 + t * D2 /\ X = 4 * e + t * e
  BY <1>3, <1>5, <1>6, <1>1 DEF B1, B2, X
<1>8. t * D1 \in Nat /\ t * D2 \in Nat /\ t * e \in Nat
  BY <1>3, <1>5, <1>6
<1>9. B1 \in Nat /\ B2 \in Nat /\ X \in Nat /\ X = B1 - B2
  BY <1>7, <1>8, <1>3 DEF X
<1>10. 2 * D2 <= H2 /\ H2 + 2 * D2 <= B2 /\ B2 <= 2 * H2 /\ H2 \in Nat
  <2> DEFINE h == Ticks \div 2
             g == Ticks - h
  <2>1. h \in Nat /\ g \in Nat /\ h >= 2 /\ g >= h
    BY <1>1
  <2>2. PICK i \in Nat, j \in Nat : g = h + i /\ h = 2 + j
    <3>1. g - h \in Nat /\ h - 2 \in Nat /\ g = h + (g - h) /\ h = 2 + (h - 2)
      BY <2>1
    <3> QED BY <3>1
  <2>3. H2 = 2 * D2 + i * D2 + j * D2 /\ i * D2 \in Nat /\ j * D2 \in Nat
    BY <2>2, <1>3 DEF H2
  <2>4. Ticks = g + h
    BY <1>1, <2>1
  <2> HIDE DEF h, g
  <2>5. Ticks = 4 + i + j + j
    BY <2>2, <2>4, <1>1
  <2>6. B2 = 4 * D2 + i * D2 + j * D2 + j * D2
    BY <2>5, <1>3 DEF B2
  <2> QED BY <2>3, <2>6, <1>3
<1>11. Slip = X + DataBits * X /\ DataBits * X \in Nat
  BY <1>1, <1>9 DEF Slip
<1>12. DataBits * X >= X
  <2>1. PICK i \in Nat : DataBits = 1 + i
    <3>1. DataBits - 1 \in Nat /\ DataBits = 1 + (DataBits - 1)
      BY <1>1
    <3> QED BY <3>1
  <2>2. DataBits * X = X + i * X /\ i * X \in Nat
    BY <2>1, <1>9
  <2> QED BY <2>2, <1>9
<1>13. Slip + D2 + H2 <= B1 + 1
  BY <1>4 DEF Slip, X, B1, B2, H2
<1> QED
  BY <1>1, <1>3, <1>4, <1>6, <1>7, <1>8, <1>9, <1>10, <1>11, <1>12, <1>13 DEF Sizes

(* A moment lies in one bit only.                                          *)
LEMMA Bits ==
  ASSUME NEW B \in Nat, NEW m \in Nat, NEW r \in Int, NEW k \in Nat,
         m * B <= r, r < (m + 1) * B, k * B <= r, r < (k + 1) * B
  PROVE  m = k
<1>1. ASSUME NEW a \in Nat, NEW c \in Nat, a < c, c * B <= r, r < (a + 1) * B
      PROVE  FALSE
  <2>1. PICK i \in Nat : c = a + 1 + i
    <3>1. c - a - 1 \in Nat /\ c = a + 1 + (c - a - 1)
      BY <1>1
    <3> QED BY <3>1
  <2>2. c * B = (a + 1) * B + i * B /\ i * B \in Nat
    BY <2>1
  <2>3. (a + 1) * B \in Nat
    OBVIOUS
  <2> QED BY <2>2, <2>3, <1>1
<1> QED
  BY <1>1

(* When the receiver samples, its bit m is the one on the line: the moment *)
(* lies in bit m of the sender, however much it has gained until then.     *)
LEMMA Sampling ==
  ASSUME Sizes, NEW m \in 1..DataBits + 1, NEW r \in Int,
         Slip + X - D1 <= r - (m * B2 + H2), r - (m * B2 + H2) <= Slip + X + D2 - 2
  PROVE  m * B1 <= r /\ r < (m + 1) * B1
<1> USE DEF Sizes
<1>1. m * B2 = m * B1 - m * X /\ m * B1 \in Nat /\ m * X \in Nat /\ m * B2 \in Nat
  BY UartAssumption
<1>2. PICK i \in Nat : DataBits + 1 = m + i
  <2>1. DataBits + 1 - m \in Nat /\ DataBits + 1 = m + (DataBits + 1 - m)
    BY UartAssumption
  <2> QED BY <2>1
<1>3. Slip = m * X + i * X /\ i * X \in Nat
  BY <1>2 DEF Slip
<1>4. PICK j \in Nat : m = 1 + j
  <2>1. m - 1 \in Nat /\ m = 1 + (m - 1)
    BY UartAssumption
  <2> QED BY <2>1
<1>5. m * X = X + j * X /\ j * X \in Nat
  BY <1>4
<1>6. (m + 1) * B1 = m * B1 + B1
  OBVIOUS
<1> HIDE DEF Sizes
<1>7. m * B1 <= r
  BY <1>1, <1>3, <1>5 DEF Sizes
<1>8. r < (m + 1) * B1
  BY <1>1, <1>3, <1>5, <1>6 DEF Sizes
<1> QED
  BY <1>7, <1>8

-----------------------------------------------------------------------------
(* Sender and receiver, clock by clock.                                    *)

(* Clocks to the end of the bit that the sender, the receiver is in.       *)
L1 == Left(tx.tick, tx_baud, D1)
L2 == Left(rx.tick, rx_baud, D2)

TxType == [state : {"IDLE", "START", "DATA", "STOP"}, tick : 0..Ticks - 1, bits : Seq(BOOLEAN)]
RxType == [state : {"IDLE", "START", "DATA", "STOP", "HOLD"}, tick : 0..Ticks - 1,
           bits : Seq(BOOLEAN), start_valid : BOOLEAN, buffer : Seq(BOOLEAN) \cup {NoByte},
           valid : BOOLEAN]

(* Types of the link, with what the idle states say of the bit timers.     *)
LinkType ==
  /\ rates \in Rates
  /\ BaudOK(tx_baud, D1) /\ BaudOK(rx_baud, D2)
  /\ tx \in TxType /\ rx \in RxType
  /\ uart_rx_ff1 \in BOOLEAN /\ uart_rx_ff2 \in BOOLEAN
  /\ tx.state = "IDLE" => tx.tick = 0
  /\ tx.state \in {"START", "DATA"} => Len(tx.bits) >= 1
  /\ rx.valid <=> rx.state = "HOLD"
  /\ rx.state \in {"IDLE", "STOP", "HOLD"} => ~rx.start_valid
  /\ rx.state \in {"IDLE", "HOLD"} => rx.tick = 0

(* The part of Clock that is about baud clocks and engines.                *)
LinkClock(byte) ==
  /\ tx_baud' = BaudGen(tx_baud, div_eff(rates[1]))
  /\ rx_baud' = BaudGen(rx_baud, div_eff(rates[2]))
  /\ TxEngine(byte)
  /\ RxEngine
  /\ UNCHANGED rates

SameSizes ==
  /\ D1' = D1 /\ D2' = D2 /\ B1' = B1 /\ B2' = B2
  /\ H2' = H2 /\ X' = X /\ Slip' = Slip /\ rates' = rates

(* div_x16 does not change, so no size does.                               *)
LEMMA Unchanging ==
  ASSUME UNCHANGED rates PROVE SameSizes
BY DEF SameSizes, D1, D2, B1, B2, H2, X, Slip

(* What a clock does to an idle sender.                                    *)
TxIdles(byte) ==
  /\ L1 \in B1 - D1..B1
  /\ L1' \in B1 - D1..B1 - 1 /\ L1' >= L1 - 1
  /\ IF byte = NoByte THEN tx'.state = "IDLE" ELSE tx'.state = "START" /\ tx'.bits = byte

(* What a clock does to a sender at work, told by L1.                      *)
TxCounts ==
  /\ L1 \in 0..B1 - 1
  /\ L1' = IF L1 = 0 THEN B1 - 1 ELSE L1 - 1
  /\ tx.state = "START" =>
       /\ tx'.bits = tx.bits
       /\ tx'.state = IF L1 = 0 THEN "DATA" ELSE "START"
  /\ tx.state = "DATA" =>
       /\ tx'.bits = IF L1 = 0 THEN Tail(tx.bits) ELSE tx.bits
       /\ tx'.state = IF L1 = 0 /\ Len(tx.bits) = 1 THEN "STOP" ELSE "DATA"
  /\ tx.state = "STOP" => tx'.state = IF L1 = 0 THEN "IDLE" ELSE "STOP"

(* The sender keeps its type and moves as TxIdles and TxCounts say.        *)
LEMMA TxStep ==
  ASSUME Fits, LinkType, NEW byte \in Bytes \cup {NoByte}, LinkClock(byte)
  PROVE  /\ BaudOK(tx_baud, D1)' /\ Regular(tx_baud)'
         /\ tx.state # "IDLE" /\ Regular(tx_baud) =>
               tx' \in TxType /\ TxCounts /\ (tx'.state = "IDLE" => tx'.tick = 0)
               /\ (tx'.state \in {"START", "DATA"} => Len(tx'.bits) >= 1)
         /\ tx.state = "IDLE" => tx' \in TxType /\ TxIdles(byte) /\ tx'.tick = 0
               /\ (tx'.state \in {"START", "DATA"} => Len(tx'.bits) >= 1)
<1>1. Sizes
  BY FitsSizes DEF LinkType
<1>2. SameSizes /\ Ticks >= 4 /\ Ticks \in Nat /\ DataBits \in Nat /\ DataBits >= 1
  BY Unchanging, UartAssumption DEF LinkClock, Fits
<1>3. tx_baud' = BaudGen(tx_baud, D1) /\ D1 \in Nat /\ D1 >= 3
  BY <1>1 DEF LinkClock, D1, Sizes
<1>4. BaudOK(tx_baud, D1)' /\ Regular(tx_baud)'
  BY <1>3, <1>2, BaudStep DEF LinkType, SameSizes
<1>5. tx \in TxType /\ tx.tick \in 0..Ticks - 1 /\ tx.bits \in Seq(BOOLEAN)
      /\ tx.state \in {"IDLE", "START", "DATA", "STOP"}
  BY DEF LinkType, TxType
<1>6. L1' = Left(tx'.tick, BaudGen(tx_baud, D1), D1)
  BY <1>2, <1>3 DEF L1, SameSizes
<1>7. ASSUME tx.state # "IDLE", Regular(tx_baud)
      PROVE  tx' \in TxType /\ TxCounts /\ (tx'.state = "IDLE" => tx'.tick = 0)
               /\ (tx'.state \in {"START", "DATA"} => Len(tx'.bits) >= 1)
  <2> DEFINE k == Ticked(tx.tick, tx_baud)
             ends == BitEnds(tx, tx_baud)
  <2>1. /\ k \in 0..Ticks - 1
        /\ L1 \in 0..B1 - 1
        /\ ends <=> L1 = 0
        /\ Left(k, BaudGen(tx_baud, D1), D1) = IF L1 = 0 THEN B1 - 1 ELSE L1 - 1
        /\ L1 = 0 => k = 0
    BY <1>2, <1>3, <1>5, <1>7, Counting DEF LinkType, L1, B1, BitEnds
  <2>2. Counted(tx, tx_baud) = k
    BY DEF Counted, Ticked
  <2> HIDE DEF k, ends
  <2>3. CASE tx.state = "START"
    <3>1. tx' = IF L1 = 0 THEN [tx EXCEPT !.tick = k, !.state = "DATA"] ELSE [tx EXCEPT !.tick = k]
      BY <2>1, <2>2, <2>3 DEF LinkClock, TxEngine, ends
    <3>2. /\ tx'.tick = k /\ tx'.bits = tx.bits /\ tx' \in TxType
          /\ tx'.state = IF L1 = 0 THEN "DATA" ELSE "START"
      BY <3>1, <1>5, <2>1, <2>3 DEF TxType
    <3>3. L1' = IF L1 = 0 THEN B1 - 1 ELSE L1 - 1
      BY <1>6, <2>1, <3>2
    <3>4. Len(tx.bits) >= 1
      BY <2>3 DEF LinkType
    <3> QED BY <2>1, <2>3, <3>2, <3>3, <3>4 DEF TxCounts
  <2>4. CASE tx.state = "DATA"
    <3>0. Len(tx.bits) >= 1 /\ Len(tx.bits) \in Nat /\ tx.bits # <<>>
      BY <2>4, <1>5 DEF LinkType
    <3>1. tx' = IF L1 # 0 THEN [tx EXCEPT !.tick = k]
                ELSE [tx EXCEPT !.tick = k, !.bits = Tail(tx.bits),
                         !.state = IF Len(tx.bits) = 1 THEN "STOP" ELSE "DATA"]
      BY <2>1, <2>2, <2>4 DEF LinkClock, TxEngine, ends
    <3>2. Tail(tx.bits) \in Seq(BOOLEAN) /\ Len(Tail(tx.bits)) = Len(tx.bits) - 1
      BY <3>0, <1>5, HeadTailProperties
    <3>3. /\ tx'.tick = k /\ tx'.bits = (IF L1 = 0 THEN Tail(tx.bits) ELSE tx.bits)
          /\ tx' \in TxType
          /\ tx'.state = IF L1 = 0 /\ Len(tx.bits) = 1 THEN "STOP" ELSE "DATA"
      BY <3>1, <3>2, <1>5, <2>1, <2>4 DEF TxType
    <3>4. L1' = IF L1 = 0 THEN B1 - 1 ELSE L1 - 1
      BY <1>6, <2>1, <3>3
    <3>5. tx'.state \in {"START", "DATA"} => Len(tx'.bits) >= 1
      <4>1. CASE L1 = 0
        <5>1. Len(tx'.bits) = Len(tx.bits) - 1
          BY <3>2, <3>3, <4>1
        <5>2. CASE Len(tx.bits) = 1
          <6>1. tx'.state = "STOP"
            BY <3>3, <4>1, <5>2
          <6> QED BY <6>1
        <5>3. CASE Len(tx.bits) # 1
          <6> DEFINE m == Len(tx.bits)
                     q == Len(tx'.bits)
          <6>1. q = m - 1 /\ m # 1 /\ m \in Nat /\ m >= 1
            BY <5>1, <5>3, <3>0
          <6> HIDE DEF m, q
          <6>2. q >= 1
            BY <6>1
          <6> QED BY <6>2 DEF q
        <5> QED BY <5>2, <5>3
      <4>2. CASE L1 # 0
        BY <3>0, <3>3, <4>2
      <4> QED BY <4>1, <4>2
    <3> QED BY <2>1, <2>4, <3>3, <3>4, <3>5 DEF TxCounts
  <2>5. CASE tx.state = "STOP"
    <3>1. tx' = IF L1 = 0 THEN [tx EXCEPT !.tick = k, !.state = "IDLE"] ELSE [tx EXCEPT !.tick = k]
      BY <2>1, <2>2, <2>5 DEF LinkClock, TxEngine, ends
    <3>2. /\ tx'.tick = k /\ tx' \in TxType
          /\ tx'.state = IF L1 = 0 THEN "IDLE" ELSE "STOP"
      BY <3>1, <1>5, <2>1, <2>5 DEF TxType
    <3>3. L1' = IF L1 = 0 THEN B1 - 1 ELSE L1 - 1
      BY <1>6, <2>1, <3>2
    <3> QED BY <2>1, <2>5, <3>2, <3>3 DEF TxCounts
  <2> QED BY <1>5, <1>7, <2>3, <2>4, <2>5
<1>8. ASSUME tx.state = "IDLE"
      PROVE  tx' \in TxType /\ TxIdles(byte) /\ tx'.tick = 0
             /\ (tx'.state \in {"START", "DATA"} => Len(tx'.bits) >= 1)
  <2>1. tx.tick = 0
    BY <1>8 DEF LinkType
  <2>2. tx' = IF byte = NoByte THEN tx ELSE [state |-> "START", tick |-> 0, bits |-> byte]
    BY <1>8 DEF LinkClock, TxEngine
  <2>3. byte # NoByte => byte \in Seq(BOOLEAN) /\ Len(byte) = DataBits
    BY UartAssumption
  <2>4. 0 \in 0..Ticks - 1
    BY <1>2
  <2>5. tx' \in TxType /\ tx'.tick = 0
        /\ IF byte = NoByte THEN tx'.state = "IDLE" ELSE tx'.state = "START" /\ tx'.bits = byte
    BY <1>8, <2>1, <2>2, <2>3, <2>4, <1>5 DEF TxType
  <2>6. L1' = Left(0, BaudGen(tx_baud, D1), D1) /\ L1 = Left(0, tx_baud, D1)
    BY <2>1, <2>5, <1>6 DEF L1
  <2>7. L1 \in B1 - D1..B1 /\ L1' \in B1 - D1..B1 - 1 /\ L1' >= L1 - 1
    BY <2>6, Idling, <1>2, <1>3 DEF LinkType, B1
  <2> QED BY <2>5, <2>7, <2>3, <1>2 DEF TxIdles
<1> QED
  BY <1>4, <1>7, <1>8

(* What a clock does to a receiver in IDLE or HOLD.                        *)
RxIdles ==
  /\ L2 \in B2 - D2..B2
  /\ L2' \in B2 - D2..B2 - 1 /\ L2' >= L2 - 1 /\ (L2 # B2 - D2 => L2' = L2 - 1)
  /\ rx.state = "IDLE" =>
       /\ rx'.bits = <<>> /\ ~rx'.start_valid
       /\ rx'.state = IF uart_rx_ff2 THEN "IDLE" ELSE "START"
  /\ rx.state = "HOLD" =>
       IF full THEN rx' = rx ELSE rx'.state = "IDLE"

(* What a clock does to a receiver at work, told by L2.                    *)
RxCounts ==
  /\ L2 \in 0..B2 - 1
  /\ L2' = IF L2 = 0 THEN B2 - 1 ELSE L2 - 1
  /\ rx.state = "START" =>
       /\ rx'.bits = rx.bits
       /\ rx'.start_valid = IF L2 = H2 THEN ~uart_rx_ff2 ELSE rx.start_valid
       /\ rx'.state = IF L2 # 0 THEN "START" ELSE IF rx.start_valid THEN "DATA" ELSE "IDLE"
  /\ rx.state = "DATA" =>
       /\ rx'.bits = IF L2 = H2 THEN Append(rx.bits, uart_rx_ff2) ELSE rx.bits
       /\ rx'.state = IF L2 = 0 /\ Len(rx.bits) = DataBits THEN "STOP" ELSE "DATA"
  /\ rx.state = "STOP" =>
       /\ rx'.bits = rx.bits
       /\ IF L2 = 0 THEN rx'.state = "HOLD" /\ rx'.buffer = rx.bits ELSE rx'.state = "STOP"

RxPlain ==
  /\ rx \in RxType
  /\ rx.valid <=> rx.state = "HOLD"
  /\ rx.state \in {"IDLE", "STOP", "HOLD"} => ~rx.start_valid
  /\ rx.state \in {"IDLE", "HOLD"} => rx.tick = 0

(* The receiver keeps its type and moves as RxIdles and RxCounts say.      *)
LEMMA RxStep ==
  ASSUME Fits, LinkType, NEW byte, LinkClock(byte)
  PROVE  /\ BaudOK(rx_baud, D2)' /\ Regular(rx_baud)'
         /\ rx.state \notin {"IDLE", "HOLD"} /\ Regular(rx_baud) => RxPlain' /\ RxCounts
         /\ rx.state \in {"IDLE", "HOLD"} => RxPlain' /\ RxIdles
<1>1. Sizes
  BY FitsSizes DEF LinkType
<1>2. SameSizes /\ Ticks >= 4 /\ Ticks \in Nat /\ DataBits \in Nat /\ DataBits >= 1
  BY Unchanging, UartAssumption DEF LinkClock, Fits
<1>3. rx_baud' = BaudGen(rx_baud, D2) /\ D2 \in Nat /\ D2 >= 3
  BY <1>1 DEF LinkClock, D2, Sizes
<1>4. BaudOK(rx_baud, D2)' /\ Regular(rx_baud)'
  BY <1>3, <1>2, BaudStep DEF LinkType, SameSizes
<1>5. rx \in RxType /\ rx.tick \in 0..Ticks - 1 /\ rx.bits \in Seq(BOOLEAN)
      /\ rx.state \in {"IDLE", "START", "DATA", "STOP", "HOLD"}
      /\ rx.start_valid \in BOOLEAN /\ rx.valid \in BOOLEAN /\ uart_rx_ff2 \in BOOLEAN
      /\ (rx.valid <=> rx.state = "HOLD")
  BY DEF LinkType, RxType
<1>6. L2' = Left(rx'.tick, BaudGen(rx_baud, D2), D2)
  BY <1>2, <1>3 DEF L2, SameSizes
<1>7. ASSUME rx.state \notin {"IDLE", "HOLD"}, Regular(rx_baud)
      PROVE  RxPlain' /\ RxCounts
  <2> DEFINE k == Ticked(rx.tick, rx_baud)
             ends == BitEnds(rx, rx_baud)
             sv == IF L2 = H2 THEN ~uart_rx_ff2 ELSE rx.start_valid
  <2>a. /\ k \in 0..Ticks - 1
        /\ Left(rx.tick, rx_baud, D2) \in 0..Ticks * D2 - 1
        /\ rx_baud.tick /\ rx.tick = Ticks - 1 <=> Left(rx.tick, rx_baud, D2) = 0
        /\ Left(k, BaudGen(rx_baud, D2), D2) =
             IF Left(rx.tick, rx_baud, D2) = 0 THEN Ticks * D2 - 1
             ELSE Left(rx.tick, rx_baud, D2) - 1
        /\ rx_baud.tick /\ rx.tick = Ticks \div 2 - 1
             <=> Left(rx.tick, rx_baud, D2) = (Ticks - Ticks \div 2) * D2
        /\ Left(rx.tick, rx_baud, D2) = 0 => k = 0
    <3>1. BaudOK(rx_baud, D2)
      BY DEF LinkType
    <3>2. Ticks >= 4 /\ D2 \in Nat /\ D2 >= 3 /\ rx.tick \in 0..Ticks - 1 /\ Regular(rx_baud)
      BY <1>2, <1>3, <1>5, <1>7
    <3> HIDE DEF sv, ends
    <3> QED BY ONLY <3>1, <3>2, Counting DEF k
  <2>1. /\ k \in 0..Ticks - 1
        /\ L2 \in 0..B2 - 1
        /\ ends <=> L2 = 0
        /\ Left(k, BaudGen(rx_baud, D2), D2) = IF L2 = 0 THEN B2 - 1 ELSE L2 - 1
        /\ L2 = 0 => k = 0
    BY <2>a DEF BitEnds, L2, B2
  <2>0. sample_fire <=> L2 = H2
    BY <2>a DEF sample_fire, L2, H2
  <2>2. Counted(rx, rx_baud) = k
    BY DEF Counted, Ticked
  <2>3. L2 = 0 => L2 # H2
    BY <1>1 DEF Sizes
  <2>s. sv \in BOOLEAN
    BY <1>5
  <2> HIDE DEF k, ends, sv
  <2>4. CASE rx.state = "START"
    <3> DEFINE st == IF L2 # 0 THEN "START" ELSE IF rx.start_valid THEN "DATA" ELSE "IDLE"
    <3>1. rx' = [[rx EXCEPT !.tick = k] EXCEPT !.start_valid = sv, !.state = st]
      BY <2>0, <2>1, <2>2, <2>4 DEF LinkClock, RxEngine, ends, sv
    <3>2. st \in {"START", "DATA", "IDLE"}
      OBVIOUS
    <3> HIDE DEF st
    <3>3. /\ rx'.tick = k /\ rx'.bits = rx.bits /\ rx' \in RxType /\ rx'.start_valid = sv
          /\ rx'.state = st /\ rx'.valid = rx.valid
      BY <3>1, <3>2, <1>5, <2>1, <2>s DEF RxType
    <3>4. L2' = IF L2 = 0 THEN B2 - 1 ELSE L2 - 1
      BY <1>6, <2>1, <3>3
    <3>5. rx'.valid <=> rx'.state = "HOLD"
      BY <3>2, <3>3, <1>5, <2>4
    <3>6. st = "IDLE" => k = 0 /\ ~sv
      BY <2>1, <2>3 DEF st, sv
    <3>7. RxPlain'
      BY <3>2, <3>3, <3>5, <3>6 DEF RxPlain, RxType
    <3> QED BY <3>7, <2>1, <2>4, <3>3, <3>4 DEF RxCounts, st, sv
  <2>5. CASE rx.state = "DATA"
    <3> DEFINE st == IF L2 = 0 /\ Len(rx.bits) = DataBits THEN "STOP" ELSE "DATA"
               bs == IF L2 = H2 THEN Append(rx.bits, uart_rx_ff2) ELSE rx.bits
    <3>1. rx' = [[rx EXCEPT !.tick = k] EXCEPT !.start_valid = FALSE, !.bits = bs, !.state = st]
      BY <2>0, <2>1, <2>2, <2>5 DEF LinkClock, RxEngine, ends
    <3>2. st \in {"STOP", "DATA"} /\ bs \in Seq(BOOLEAN)
      BY <1>5, AppendProperties
    <3> HIDE DEF st, bs
    <3>3. /\ rx'.tick = k /\ rx'.bits = bs /\ rx' \in RxType /\ rx'.start_valid = FALSE
          /\ rx'.state = st /\ rx'.valid = rx.valid
      BY <3>1, <3>2, <1>5, <2>1 DEF RxType
    <3>4. L2' = IF L2 = 0 THEN B2 - 1 ELSE L2 - 1
      BY <1>6, <2>1, <3>3
    <3>5. rx'.valid <=> rx'.state = "HOLD"
      BY <3>2, <3>3, <1>5, <2>5
    <3>7. RxPlain'
      BY <3>2, <3>3, <3>5 DEF RxPlain, RxType
    <3> QED BY <3>7, <2>1, <2>5, <3>3, <3>4 DEF RxCounts, st, bs
  <2>6. CASE rx.state = "STOP"
    <3>0. ~rx.start_valid /\ rx.valid = FALSE
      BY <2>6, <1>5 DEF LinkType
    <3>1. CASE L2 = 0
      <4>1. rx' = [[rx EXCEPT !.tick = k] EXCEPT !.state = "HOLD", !.valid = TRUE,
                                                  !.buffer = rx.bits]
        BY <2>1, <2>2, <2>6, <3>1 DEF LinkClock, RxEngine, ends
      <4>2. /\ rx'.tick = k /\ rx'.bits = rx.bits /\ rx' \in RxType
            /\ rx'.start_valid = rx.start_valid
            /\ rx'.state = "HOLD" /\ rx'.valid = TRUE /\ rx'.buffer = rx.bits
        BY <4>1, <1>5, <2>1 DEF RxType
      <4>3. L2' = B2 - 1
        BY <1>6, <2>1, <4>2, <3>1
      <4>4. RxPlain'
        BY <4>2, <3>0, <3>1, <2>1 DEF RxPlain, RxType
      <4> QED BY <4>4, <2>1, <2>6, <3>1, <4>2, <4>3 DEF RxCounts
    <3>2. CASE L2 # 0
      <4>1. rx' = [rx EXCEPT !.tick = k]
        BY <2>1, <2>2, <2>6, <3>2 DEF LinkClock, RxEngine, ends
      <4>2. /\ rx'.tick = k /\ rx'.bits = rx.bits /\ rx' \in RxType
            /\ rx'.start_valid = rx.start_valid
            /\ rx'.state = "STOP" /\ rx'.valid = rx.valid
        BY <4>1, <1>5, <2>1, <2>6 DEF RxType
      <4>3. L2' = L2 - 1
        BY <1>6, <2>1, <4>2, <3>2
      <4>4. RxPlain'
        BY <4>2, <3>0 DEF RxPlain, RxType
      <4> QED BY <4>4, <2>1, <2>6, <3>2, <4>2, <4>3 DEF RxCounts
    <3> QED BY <3>1, <3>2
  <2> QED BY <1>5, <1>7, <2>4, <2>5, <2>6
<1>8. ASSUME rx.state \in {"IDLE", "HOLD"}
      PROVE  RxPlain' /\ RxIdles
  <2>1. rx.tick = 0 /\ ~rx.start_valid
    BY <1>8 DEF LinkType
  <2>2. CASE rx.state = "IDLE"
    <3> DEFINE st == IF uart_rx_ff2 THEN "IDLE" ELSE "START"
    <3>1. rx' = [rx EXCEPT !.bits = <<>>, !.state = st]
      BY <2>2 DEF LinkClock, RxEngine
    <3>2. st \in {"IDLE", "START"} /\ <<>> \in Seq(BOOLEAN)
      OBVIOUS
    <3> HIDE DEF st
    <3>3. /\ rx'.tick = rx.tick /\ rx'.bits = <<>> /\ rx' \in RxType
          /\ rx'.start_valid = rx.start_valid /\ rx'.state = st /\ rx'.valid = rx.valid
          /\ ~rx'.start_valid
      BY <2>1, <3>1, <3>2, <1>5 DEF RxType
    <3>4. RxPlain'
      BY <3>3, <3>2, <2>1, <2>2, <1>5 DEF RxPlain, RxType
    <3>5. L2' = Left(0, BaudGen(rx_baud, D2), D2) /\ L2 = Left(0, rx_baud, D2)
      BY <2>1, <3>3, <1>6 DEF L2
    <3>6. L2 \in B2 - D2..B2 /\ L2' \in B2 - D2..B2 - 1 /\ L2' >= L2 - 1
          /\ (L2 # B2 - D2 => L2' = L2 - 1)
      BY <3>5, Idling, <1>2, <1>3 DEF LinkType, B2
    <3> QED BY <3>3, <3>4, <3>6, <2>2 DEF RxIdles, st
  <2>3. CASE rx.state = "HOLD"
    <3>1. rx' = IF full THEN rx ELSE [rx EXCEPT !.state = "IDLE", !.valid = FALSE]
      BY <2>3 DEF LinkClock, RxEngine
    <3>2. /\ rx'.tick = rx.tick /\ rx' \in RxType /\ rx'.start_valid = rx.start_valid
          /\ IF full THEN rx' = rx ELSE rx'.state = "IDLE" /\ rx'.valid = FALSE
      BY <3>1, <1>5 DEF RxType
    <3>3. rx'.valid <=> rx'.state = "HOLD"
      BY <3>2, <2>3, <1>5
    <3>4. RxPlain'
      BY <3>2, <3>3, <2>1 DEF RxPlain, RxType
    <3>5. L2' = Left(0, BaudGen(rx_baud, D2), D2) /\ L2 = Left(0, rx_baud, D2)
      BY <2>1, <3>2, <1>6 DEF L2
    <3>6. L2 \in B2 - D2..B2 /\ L2' \in B2 - D2..B2 - 1 /\ L2' >= L2 - 1
          /\ (L2 # B2 - D2 => L2' = L2 - 1)
      BY <3>5, Idling, <1>2, <1>3 DEF LinkType, B2
    <3> QED BY <3>2, <3>4, <3>6, <2>3 DEF RxIdles
  <2> QED BY <1>8, <2>2, <2>3
<1> QED
  BY <1>4, <1>7, <1>8

-----------------------------------------------------------------------------
(* Sender and receiver inside a frame.                                     *)

(* Bits of the frame still to come after the present one: of the sender,   *)
(* and of the receiver, which counts a bit as gone once it has sampled it. *)
TxLeft(state, bits) ==
  IF state = "START" THEN DataBits + 1 ELSE IF state = "DATA" THEN Len(bits) ELSE 0
RxLeft(state, bits, l) ==
  IF state = "START" THEN DataBits + 1
  ELSE IF state = "DATA" THEN DataBits - Len(bits) + (IF l < H2 THEN 1 ELSE 0) ELSE 0

(* The level of the frame of b when m bits are to come: stop, start or     *)
(* data.                                                                   *)
Level(m, b) == IF m = 0 THEN TRUE ELSE IF m > DataBits THEN FALSE ELSE b[DataBits + 1 - m]

(* The level l clocks before the end of the bit with m bits to come.       *)
Seen(m, l, b) == Level(IF l < B1 THEN m ELSE m + 1, b)

(* The sender is inside the frame of b, with as much of b left as it says. *)
TxOK(b, state, bits, l) ==
  /\ state \in {"START", "DATA", "STOP"} /\ bits \in Seq(BOOLEAN) /\ l \in 0..B1 - 1
  /\ state = "START" => bits = b /\ l <= B1 - 4
  /\ state = "DATA" =>
       /\ Len(bits) \in 1..DataBits
       /\ \A i \in 1..Len(bits) : bits[i] = b[DataBits - Len(bits) + i]

(* The receiver is inside the frame of b, and what it has sampled is       *)
(* right.                                                                  *)
RxOK(b, state, bits, valid, l) ==
  /\ state \in {"START", "DATA", "STOP"} /\ bits \in Seq(BOOLEAN) /\ l \in 0..B2 - 1
  /\ Len(bits) \in 0..DataBits
  /\ \A i \in 1..Len(bits) : bits[i] = b[i]
  /\ state = "START" => bits = <<>> /\ (l < H2 => valid)
  /\ state = "DATA" => /\ l < H2 => Len(bits) >= 1
                       /\ Len(bits) = DataBits => l < H2
  /\ state = "STOP" => Len(bits) = DataBits

(* The level of a frame is a level.                                        *)
LEMMA LevelType ==
  ASSUME NEW b \in [1..DataBits -> BOOLEAN], NEW m \in Nat
  PROVE  Level(m, b) \in BOOLEAN
<1>1. m # 0 /\ ~(m > DataBits) => DataBits + 1 - m \in 1..DataBits
  BY UartAssumption
<1> QED
  BY <1>1, UartAssumption DEF Level

(* Inside the frame of b the line has the level of the bit the sender is   *)
(* in.                                                                     *)
LEMMA TxLevel ==
  ASSUME Sizes, NEW b \in [1..DataBits -> BOOLEAN], NEW s, NEW x, NEW l, TxOK(b, s, x, l)
  PROVE  /\ TxLeft(s, x) \in 0..DataBits + 1
         /\ Level(TxLeft(s, x), b) <=> s = "STOP" \/ (s = "DATA" /\ Head(x))
<1>1. CASE s = "START"
  <2>1. TxLeft(s, x) = DataBits + 1 /\ DataBits + 1 # 0 /\ DataBits + 1 > DataBits
        /\ DataBits + 1 \in 0..DataBits + 1
    BY <1>1 DEF TxLeft, Sizes
  <2>2. Level(DataBits + 1, b) = FALSE
    BY <2>1 DEF Level
  <2>3. ~Level(TxLeft(s, x), b)
    BY <2>1, <2>2
  <2> QED BY <1>1, <2>1, <2>3
<1>2. CASE s = "STOP"
  <2>1. TxLeft(s, x) = 0 /\ 0 \in 0..DataBits + 1
    BY <1>2 DEF TxLeft, Sizes
  <2>2. Level(0, b) = TRUE
    BY DEF Level
  <2>3. Level(TxLeft(s, x), b)
    BY <2>1, <2>2
  <2> QED BY <1>2, <2>1, <2>3
<1>3. CASE s = "DATA"
  <2> DEFINE n == DataBits
             j == Len(x)
  <2>1. j \in 1..n /\ x[1] = b[n - j + 1] /\ n \in Nat /\ x \in Seq(BOOLEAN)
    BY <1>3 DEF TxOK, Sizes
  <2>2. TxLeft(s, x) = j
    BY <1>3 DEF TxLeft
  <2>3. Head(x) = x[1]
    BY <2>1
  <2> HIDE DEF j, n
  <2>4. j # 0 /\ ~(j > n) /\ n + 1 - j = n - j + 1
    BY <2>1
  <2>5. Level(j, b) = x[1]
    BY <2>1, <2>4 DEF Level, n
  <2>6. TxLeft(s, x) \in 0..n + 1
    BY <2>1, <2>2
  <2> QED BY <2>2, <2>3, <2>5, <2>6, <1>3 DEF n
<1> QED
  BY <1>1, <1>2, <1>3 DEF TxOK

(* TxCounts without primes.                                                *)
TxMoves(s, x, l, s2, x2, l2) ==
  /\ l2 = IF l = 0 THEN B1 - 1 ELSE l - 1
  /\ s = "START" => x2 = x /\ s2 = IF l = 0 THEN "DATA" ELSE "START"
  /\ s = "DATA" => /\ x2 = IF l = 0 THEN Tail(x) ELSE x
                   /\ s2 = IF l = 0 /\ Len(x) = 1 THEN "STOP" ELSE "DATA"
  /\ s = "STOP" => s2 = IF l = 0 THEN "IDLE" ELSE "STOP"

(* A clock leaves the sender inside its frame, one bit further if a bit    *)
(* ends.                                                                   *)
LEMMA TxFrame ==
  ASSUME Sizes, NEW b \in [1..DataBits -> BOOLEAN],
         NEW s, NEW x, NEW l, NEW s2, NEW x2, NEW l2, x2 \in Seq(BOOLEAN),
         TxOK(b, s, x, l), TxMoves(s, x, l, s2, x2, l2),
         s = "STOP" => l # 0
  PROVE  /\ TxOK(b, s2, x2, l2)
         /\ TxLeft(s2, x2) = IF l = 0 THEN TxLeft(s, x) - 1 ELSE TxLeft(s, x)
<1> DEFINE n == DataBits
           j == Len(x)
           B == B1
<1>1. B \in Nat /\ B >= 12 /\ n \in Nat /\ n >= 1 /\ l \in 0..B - 1
  BY DEF Sizes, TxOK
<1>2. l2 = (IF l = 0 THEN B - 1 ELSE l - 1)
  BY DEF TxMoves
<1>3. l2 \in 0..B - 1
  BY <1>1, <1>2
<1>4. CASE s = "START"
  <2>1. x2 = b /\ l <= B1 - 4 /\ s2 = (IF l = 0 THEN "DATA" ELSE "START") /\ x = b
    BY <1>4 DEF TxMoves, TxOK
  <2>2. Len(b) = n
    BY <2>1, <1>1
  <2>3. CASE l = 0
    <3>1. \A i \in 1..Len(x2) : x2[i] = b[n - Len(x2) + i]
      BY <2>1, <2>2, <1>1
    <3>2. Len(x2) \in 1..n
      BY <2>1, <2>2, <1>1
    <3>3. TxOK(b, s2, x2, l2)
      BY <3>1, <3>2, <2>1, <2>3, <1>3 DEF TxOK
    <3>4. TxLeft(s2, x2) = n /\ TxLeft(s, x) = n + 1
      BY <2>1, <2>2, <2>3, <1>4 DEF TxLeft
    <3> QED BY <3>3, <3>4, <2>3, <1>1
  <2>4. CASE l # 0
    <3>1. l2 <= B1 - 4
      BY <1>1, <1>2, <2>1, <2>4
    <3> QED BY <3>1, <2>1, <2>4, <1>3, <1>4 DEF TxOK, TxLeft
  <2> QED BY <2>3, <2>4
<1>5. CASE s = "DATA"
  <2>1. x2 = (IF l = 0 THEN Tail(x) ELSE x) /\ s2 = IF l = 0 /\ j = 1 THEN "STOP" ELSE "DATA"
    BY <1>5 DEF TxMoves
  <2>2. j \in 1..n /\ x \in Seq(BOOLEAN) /\ \A i \in 1..j : x[i] = b[n - j + i]
    BY <1>5 DEF TxOK
  <2>3. CASE l # 0
    BY <2>1, <2>2, <2>3, <1>3, <1>5 DEF TxOK, TxLeft
  <2>4. CASE l = 0
    <3>0. x # <<>>
      BY <2>2
    <3>1. /\ Len(Tail(x)) = j - 1
          /\ \A i \in 1..Len(Tail(x)) : Tail(x)[i] = x[i + 1]
      BY <2>2, <3>0, HeadTailProperties
    <3>2. CASE j = 1
      BY <3>2, <2>1, <2>4, <1>3, <1>5 DEF TxOK, TxLeft
    <3>3. CASE j # 1
      <4> DEFINE q == Len(x2)
      <4>1. q = j - 1 /\ \A i \in 1..q : x2[i] = x[i + 1]
        BY <3>1, <2>1, <2>4
      <4> HIDE DEF q, j, n
      <4>2. q \in 1..n
        BY <4>1, <2>2, <3>3, <1>1
      <4>3. ASSUME NEW i \in 1..q PROVE x2[i] = b[n - q + i]
        <5>1. i + 1 \in 1..j /\ n - j + (i + 1) = n - q + i
          BY <4>1, <2>2, <1>1
        <5> QED BY <5>1, <4>1, <2>2
      <4>4. s2 = "DATA"
        BY <2>1, <3>3
      <4>5. TxOK(b, s2, x2, l2)
        BY <4>2, <4>3, <4>4, <1>3 DEF TxOK, q, n
      <4> QED BY <4>1, <4>4, <4>5, <1>5, <2>4 DEF TxLeft, q, j
    <3> QED BY <3>2, <3>3
  <2> QED BY <2>3, <2>4
<1>6. CASE s = "STOP"
  BY <1>3, <1>6 DEF TxMoves, TxOK, TxLeft
<1> QED
  BY <1>4, <1>5, <1>6 DEF TxOK

(* RxCounts without primes.                                                *)
RxMoves(s, x, v, l, line, s2, x2, v2, l2) ==
  /\ l2 = IF l = 0 THEN B2 - 1 ELSE l - 1
  /\ s = "START" => /\ x2 = x
                    /\ v2 = IF l = H2 THEN ~line ELSE v
                    /\ s2 = IF l # 0 THEN "START" ELSE IF v THEN "DATA" ELSE "IDLE"
  /\ s = "DATA" => /\ x2 = IF l = H2 THEN Append(x, line) ELSE x
                   /\ s2 = IF l = 0 /\ Len(x) = DataBits THEN "STOP" ELSE "DATA"
  /\ s = "STOP" => x2 = x /\ s2 = IF l = 0 THEN "HOLD" ELSE "STOP"

(* How many bits the receiver can have to come.                            *)
LEMMA RxLeftType ==
  ASSUME Sizes, NEW b, NEW s, NEW x, NEW v, NEW l, RxOK(b, s, x, v, l)
  PROVE  /\ RxLeft(s, x, l) \in 0..DataBits + 1
         /\ s \in {"START", "DATA"} => RxLeft(s, x, l) >= 1
         /\ s = "STOP" => RxLeft(s, x, l) = 0
<1> DEFINE n == DataBits
           j == Len(x)
<1>1. n \in Nat /\ n >= 1 /\ j \in 0..n /\ H2 \in Nat /\ l \in Int
  BY DEF Sizes, RxOK
<1>2. s = "DATA" => (l < H2 => j >= 1) /\ (j = n => l < H2)
  BY DEF RxOK
<1>3. s = "DATA" => RxLeft(s, x, l) = n - j + (IF l < H2 THEN 1 ELSE 0)
  BY DEF RxLeft
<1> HIDE DEF n, j
<1>4. s = "DATA" => RxLeft(s, x, l) \in 1..n
  BY <1>1, <1>2, <1>3
<1> QED
  BY <1>1, <1>4 DEF RxLeft, RxOK, n

(* If what the receiver samples is the level of its bit, a clock leaves it *)
(* inside the frame of b, one bit further if a bit ends.                   *)
LEMMA RxFrame ==
  ASSUME Sizes, NEW b \in [1..DataBits -> BOOLEAN],
         NEW s, NEW x, NEW v, NEW l, NEW line \in BOOLEAN,
         NEW s2, NEW x2, NEW v2, NEW l2, x2 \in Seq(BOOLEAN),
         RxOK(b, s, x, v, l), RxMoves(s, x, v, l, line, s2, x2, v2, l2),
         s = "STOP" => l # 0,
         l = H2 /\ s # "STOP" => (line <=> Level(RxLeft(s, x, l), b))
  PROVE  /\ RxOK(b, s2, x2, v2, l2)
         /\ RxLeft(s2, x2, l2) = IF l = 0 THEN RxLeft(s, x, l) - 1 ELSE RxLeft(s, x, l)
<1> DEFINE n == DataBits
           j == Len(x)
           B == B2
           H == H2
<1>1. /\ B \in Nat /\ H \in Nat /\ 0 < H /\ H < B - 1 /\ n \in Nat /\ n >= 1 /\ l \in 0..B - 1
      /\ j \in 0..n /\ x \in Seq(BOOLEAN)
  BY DEF Sizes, RxOK
<1>2. l2 = (IF l = 0 THEN B - 1 ELSE l - 1)
  BY DEF RxMoves
<1>3. l2 \in 0..B - 1 /\ (l = 0 => ~(l2 < H) /\ l < H)
      /\ (l # 0 => (l2 < H <=> l < H \/ l = H))
  BY <1>1, <1>2
<1>4. CASE s = "START"
  <2>1. x = <<>> /\ x2 = <<>> /\ (l < H => v)
    BY <1>4 DEF RxMoves, RxOK
  <2>2. /\ v2 = IF l = H THEN ~line ELSE v
        /\ s2 = IF l # 0 THEN "START" ELSE IF v THEN "DATA" ELSE "IDLE"
    BY <1>4 DEF RxMoves
  <2>3. RxLeft(s, x, l) = n + 1
    BY <1>4 DEF RxLeft
  <2>4. Len(x2) = 0 /\ <<>> \in Seq(BOOLEAN)
    BY <2>1
  <2>5. CASE l = 0
    <3>1. s2 = "DATA"
      BY <2>1, <2>2, <2>5, <1>3
    <3>2. RxLeft(s2, x2, l2) = n
      BY <3>1, <2>4, <1>1, <1>3, <2>5 DEF RxLeft
    <3>3. RxOK(b, s2, x2, v2, l2)
      BY <3>1, <2>1, <2>4, <1>1, <1>3, <2>5 DEF RxOK
    <3> QED BY <3>2, <3>3, <2>3, <2>5, <1>1
  <2>6. CASE l # 0
    <3>1. l = H => ~line
      <4> SUFFICES ASSUME l = H PROVE ~line
        OBVIOUS
      <4>1. line <=> Level(n + 1, b)
        BY <2>3, <1>4
      <4>2. Level(n + 1, b) = FALSE
        BY <1>1 DEF Level
      <4> QED BY <4>1, <4>2
    <3>2. l2 < H => v2
      BY <3>1, <2>1, <2>2, <2>6, <1>1, <1>3
    <3>3. s2 = "START"
      BY <2>2, <2>6
    <3>4. RxOK(b, s2, x2, v2, l2)
      BY <3>2, <3>3, <2>1, <2>4, <1>1, <1>3 DEF RxOK
    <3> QED BY <3>3, <3>4, <2>3, <2>6 DEF RxLeft
  <2> QED BY <2>5, <2>6
<1>5. CASE s = "DATA"
  <2>1. /\ x2 = IF l = H THEN Append(x, line) ELSE x
        /\ s2 = IF l = 0 /\ j = n THEN "STOP" ELSE "DATA"
    BY <1>5 DEF RxMoves
  <2>2. /\ \A i \in 1..j : x[i] = b[i]
        /\ l < H => j >= 1
        /\ j = n => l < H
    BY <1>5 DEF RxOK
  <2>3. RxLeft(s, x, l) = n - j + (IF l < H THEN 1 ELSE 0)
    BY <1>5 DEF RxLeft
  <2>4. CASE l = H
    <3>0. j < n
      BY <1>1, <2>2, <2>4
    <3>1. s2 = "DATA" /\ x2 = Append(x, line)
      BY <1>1, <2>1, <2>4
    <3>2. RxLeft(s, x, l) = n - j
      BY <2>3, <2>4, <1>1
    <3>3. line = b[j + 1]
      <4>1. line <=> Level(n - j, b)
        BY <3>2, <2>4, <1>5
      <4>2. n - j # 0 /\ ~(n - j > n) /\ n + 1 - (n - j) = j + 1
        BY <3>0, <1>1
      <4>3. Level(n - j, b) = b[j + 1]
        BY <4>2 DEF Level
      <4>4. j + 1 \in 1..n
        BY <3>0, <1>1
      <4>5. b[j + 1] \in BOOLEAN
        BY <4>4
      <4> QED BY <4>1, <4>3, <4>5
    <3>4. Len(x2) = j + 1 /\ \A i \in 1..Len(x2) : x2[i] = IF i = j + 1 THEN line ELSE x[i]
      BY <3>1, <1>1, AppendProperties
    <3>5. \A i \in 1..Len(x2) : x2[i] = b[i]
      <4> SUFFICES ASSUME NEW i \in 1..Len(x2) PROVE x2[i] = b[i]
        OBVIOUS
      <4> HIDE DEF j, n
      <4>1. i \in 1..j \/ i = j + 1
        BY <3>4, <1>1
      <4>2. CASE i = j + 1
        BY <4>2, <3>3, <3>4
      <4>3. CASE i \in 1..j /\ i # j + 1
        BY <4>3, <3>4, <2>2
      <4> QED BY <4>1, <4>2, <4>3
    <3>6. l2 < H /\ l # 0
      BY <1>1, <1>3, <2>4
    <3>7. RxLeft(s2, x2, l2) = n - (j + 1) + 1
      BY <3>1, <3>4, <3>6 DEF RxLeft
    <3> HIDE DEF j, n
    <3>8. j + 1 \in 0..n /\ j + 1 >= 1
      BY <3>0, <1>1
    <3>9. RxOK(b, s2, x2, v2, l2)
      BY <3>1, <3>4, <3>5, <3>6, <3>8, <1>3 DEF RxOK, n
    <3> QED BY <3>2, <3>6, <3>7, <3>9, <1>1
  <2>5. CASE l # H /\ l # 0
    <3>1. s2 = "DATA" /\ x2 = x /\ (l2 < H <=> l < H)
      BY <1>3, <2>1, <2>5
    <3>2. RxLeft(s2, x2, l2) = RxLeft(s, x, l)
      BY <3>1, <1>5 DEF RxLeft
    <3>3. RxOK(b, s2, x2, v2, l2)
      BY <3>1, <2>2, <1>1, <1>3 DEF RxOK
    <3> QED BY <3>2, <3>3, <2>5
  <2>6. CASE l = 0
    <3>1. x2 = x /\ s2 = (IF j = n THEN "STOP" ELSE "DATA")
      BY <1>1, <2>1, <2>6
    <3>2. l < H /\ ~(l2 < H) /\ j >= 1
      BY <1>3, <2>2, <2>6
    <3>3. RxLeft(s, x, l) = n - j + 1
      BY <2>3, <3>2
    <3>4. RxLeft(s2, x2, l2) = IF j = n THEN 0 ELSE n - j
      BY <3>1, <3>2, <1>1 DEF RxLeft
    <3>5. RxOK(b, s2, x2, v2, l2)
      BY <3>1, <3>2, <2>2, <1>1, <1>3 DEF RxOK
    <3> HIDE DEF j, n
    <3> QED BY <3>3, <3>4, <3>5, <2>6, <1>1
  <2> QED BY <2>4, <2>5, <2>6
<1>6. CASE s = "STOP"
  <2>1. x2 = x /\ s2 = "STOP" /\ l # 0 /\ j = n
    BY <1>6 DEF RxMoves, RxOK
  <2> QED BY <2>1, <1>1, <1>3, <1>6 DEF RxOK, RxLeft
<1> QED
  BY <1>4, <1>5, <1>6 DEF RxOK

-----------------------------------------------------------------------------
(* The two in the same frame.                                              *)

(* Both are in the frame of b; the two synchroniser flops hold what the    *)
(* line was one and two clocks ago; and the receiver, which sees the line  *)
(* two clocks late, is behind the sender by no more than it loses in       *)
(* finding the start bit and gains in a frame.                             *)
Frame(b, s, x, l, r, y, v, k, f1, f2) ==
  /\ TxOK(b, s, x, l) /\ RxOK(b, r, y, v, k)
  /\ ~(s = "START" /\ r = "STOP")
  /\ Slip + X - D1 <= (TxLeft(s, x) * B1 + l) + 2 - (RxLeft(r, y, k) * B2 + k)
  /\ (TxLeft(s, x) * B1 + l) + 2 - (RxLeft(r, y, k) * B2 + k) <= Slip + X + D2 - 2
  /\ f1 = Seen(TxLeft(s, x), l + 1, b)
  /\ f2 = Seen(TxLeft(s, x), l + 2, b)

(* Arithmetic of bits left and clocks left.                                *)
LEMMA Shift ==
  ASSUME NEW B \in Nat, NEW m \in Nat, NEW l \in Int
  PROVE  /\ m * B \in Nat /\ (m = 0 => m * B = 0) /\ (m # 0 => m * B >= B)
         /\ (m # 0 => (m - 1) * B + (B - 1) = m * B - 1)
         /\ (m + 1) * B = m * B + B
<1>1. m * B \in Nat /\ (m + 1) * B = m * B + B
  OBVIOUS
<1>2. ASSUME m # 0 PROVE m * B >= B /\ (m - 1) * B + (B - 1) = m * B - 1
  <2>1. PICK i \in Nat : m = i + 1
    <3>1. m - 1 \in Nat /\ m = (m - 1) + 1
      BY <1>2
    <3> QED BY <3>1
  <2>2. m * B = i * B + B /\ i * B \in Nat /\ m - 1 = i
    BY <2>1
  <2> QED BY <2>2
<1>3. m = 0 => m * B = 0
  OBVIOUS
<1> QED
  BY <1>1, <1>2, <1>3

(* Inside a frame, what the receiver samples is the level of its bit.      *)
LEMMA Sampled ==
  ASSUME Sizes, NEW b \in [1..DataBits -> BOOLEAN],
         NEW s, NEW x, NEW l, NEW r, NEW y, NEW v, NEW k, NEW f1, NEW f2,
         Frame(b, s, x, l, r, y, v, k, f1, f2), k = H2, r # "STOP"
  PROVE  f2 <=> Level(RxLeft(r, y, k), b)
<1> DEFINE m == TxLeft(s, x)
           j == RxLeft(r, y, k)
           e == IF l + 2 < B1 THEN m ELSE m + 1
           t == m * B1 + l + 2
<1>1. m \in 0..DataBits + 1 /\ j \in 0..DataBits + 1 /\ j >= 1
  BY TxLevel, RxLeftType DEF Frame, RxOK
<1>2. l \in 0..B1 - 1 /\ B1 \in Nat /\ B1 >= 12 /\ B2 \in Nat /\ DataBits \in Nat /\ H2 \in Nat
  BY DEF Frame, TxOK, Sizes
<1>3. f2 = Level(e, b)
  BY DEF Frame, Seen
<1>4. /\ Slip + X - D1 <= (m * B1 + l) + 2 - (j * B2 + k)
      /\ (m * B1 + l) + 2 - (j * B2 + k) <= Slip + X + D2 - 2
  BY DEF Frame
<1> HIDE DEF m, j
<1>5. m \in Nat /\ j \in Nat /\ m * B1 \in Nat /\ j * B2 \in Nat
  BY <1>1, <1>2
<1>6. t \in Int /\ (m + 1) * B1 = m * B1 + B1 /\ (m + 1 + 1) * B1 = m * B1 + B1 + B1
  BY <1>2, <1>5
<1>7. j * B1 <= t /\ t < (j + 1) * B1
  <2>1. j \in 1..DataBits + 1
    BY <1>1, <1>2
  <2>2. t - (j * B2 + H2) = (m * B1 + l) + 2 - (j * B2 + k)
    BY <1>2, <1>5
  <2> HIDE DEF t
  <2> QED BY <2>1, <2>2, <1>4, <1>6, Sampling
<1>8. e \in Nat /\ e * B1 <= t /\ t < (e + 1) * B1
  <2>1. CASE l + 2 < B1
    <3>1. e = m
      BY <2>1
    <3> HIDE DEF e
    <3> QED BY <3>1, <2>1, <1>2, <1>5, <1>6
  <2>2. CASE ~(l + 2 < B1)
    <3>1. e = m + 1
      BY <2>2
    <3> HIDE DEF e
    <3> QED BY <3>1, <2>2, <1>2, <1>5, <1>6
  <2> QED BY <2>1, <2>2
<1> HIDE DEF e, t
<1>9. e = j
  BY <1>2, <1>5, <1>6, <1>7, <1>8, Bits
<1> QED
  BY <1>3, <1>9 DEF j

(* The receiver is in the stop bit when the sender ends it; and a receiver *)
(* that ends its frame finds the sender in the stop bit.                   *)
LEMMA FirstToEnd ==
  ASSUME Sizes, NEW b \in [1..DataBits -> BOOLEAN],
         NEW s, NEW x, NEW l, NEW r, NEW y, NEW v, NEW k, NEW f1, NEW f2,
         Frame(b, s, x, l, r, y, v, k, f1, f2)
  PROVE  /\ s = "STOP" /\ l = 0 => r = "STOP" /\ k <= 2 + D1 - Slip - X
         /\ r = "STOP" => s = "STOP" \/ k >= 1
<1> DEFINE m == TxLeft(s, x)
           j == RxLeft(r, y, k)
<1>1. m \in 0..DataBits + 1 /\ j \in 0..DataBits + 1
      /\ (r \in {"START", "DATA"} => j >= 1) /\ (r = "STOP" => j = 0)
      /\ (s = "STOP" => m = 0)
  BY TxLevel, RxLeftType DEF Frame, TxLeft
<1>2. l \in 0..B1 - 1 /\ k \in 0..B2 - 1 /\ r \in {"START", "DATA", "STOP"}
      /\ (s # "STOP" => s \in {"START", "DATA"})
  BY DEF Frame, TxOK, RxOK
<1>3. s # "STOP" => m >= 1
  <2>1. s = "DATA" => m >= 1
    BY DEF Frame, TxOK, TxLeft
  <2>2. s = "START" => m >= 1
    BY DEF TxLeft, Sizes
  <2> QED BY <2>1, <2>2, <1>2
<1>4. /\ Slip + X - D1 <= (m * B1 + l) + 2 - (j * B2 + k)
      /\ (m * B1 + l) + 2 - (j * B2 + k) <= Slip + X + D2 - 2
  BY DEF Frame
<1>5. DataBits \in Nat /\ B1 \in Nat /\ B2 \in Nat
  BY DEF Sizes
<1> HIDE DEF m, j
<1>6. /\ m \in Nat /\ m * B1 \in Nat /\ (m = 0 => m * B1 = 0) /\ (m # 0 => m * B1 >= B1)
      /\ j \in Nat /\ j * B2 \in Nat /\ (j = 0 => j * B2 = 0) /\ (j # 0 => j * B2 >= B2)
  BY <1>1, <1>5, Shift
<1>7. ASSUME s = "STOP", l = 0
      PROVE  r = "STOP" /\ k <= 2 + D1 - Slip - X
  <2>1. m * B1 = 0
    BY <1>1, <1>6, <1>7
  <2>2. j # 0 => FALSE
    BY <2>1, <1>2, <1>4, <1>6, <1>7 DEF Sizes
  <2>3. r = "STOP"
    BY <2>2, <1>1, <1>2
  <2>4. j * B2 = 0
    BY <1>1, <1>6, <2>3
  <2> QED BY <2>1, <2>3, <2>4, <1>2, <1>4, <1>7 DEF Sizes
<1>8. ASSUME r = "STOP", s # "STOP", k = 0
      PROVE  FALSE
  <2>1. j * B2 = 0 /\ m * B1 >= B1
    BY <1>1, <1>3, <1>6, <1>8
  <2> QED BY <2>1, <1>2, <1>4, <1>6, <1>8 DEF Sizes
<1> QED
  BY <1>2, <1>7, <1>8, <1>5

(* How far the receiver, seeing the line two clocks late, is behind.       *)
Drift(m, l, j, k) == (m * B1 + l) + 2 - (j * B2 + k)

(* A clock on both sides does not change how far the receiver is behind.   *)
LEMMA SameDrift ==
  ASSUME Sizes, NEW m \in Nat, NEW l \in 0..B1 - 1, NEW j \in Nat, NEW k \in 0..B2 - 1,
         m = 0 => l # 0, j = 0 => k # 0
  PROVE  Drift(IF l = 0 THEN m - 1 ELSE m, IF l = 0 THEN B1 - 1 ELSE l - 1,
               IF k = 0 THEN j - 1 ELSE j, IF k = 0 THEN B2 - 1 ELSE k - 1)
           = Drift(m, l, j, k)
<1> DEFINE m2 == IF l = 0 THEN m - 1 ELSE m
           l2 == IF l = 0 THEN B1 - 1 ELSE l - 1
           j2 == IF k = 0 THEN j - 1 ELSE j
           k2 == IF k = 0 THEN B2 - 1 ELSE k - 1
<1>0. B1 \in Nat /\ B2 \in Nat
  BY DEF Sizes
<1>1. m2 * B1 + l2 = m * B1 + l - 1 /\ m2 * B1 + l2 \in Int
  <2>1. CASE l = 0
    <3>1. (m - 1) * B1 + (B1 - 1) = m * B1 - 1
      BY <2>1, <1>0, Shift
    <3> QED BY <3>1, <2>1, <1>0
  <2>2. CASE l # 0
    BY <2>2, <1>0
  <2> QED BY <2>1, <2>2
<1>2. j2 * B2 + k2 = j * B2 + k - 1 /\ j2 * B2 + k2 \in Int
  <2>1. CASE k = 0
    <3>1. (j - 1) * B2 + (B2 - 1) = j * B2 - 1
      BY <2>1, <1>0, Shift
    <3> QED BY <3>1, <2>1, <1>0
  <2>2. CASE k # 0
    BY <2>2, <1>0
  <2> QED BY <2>1, <2>2
<1>3. m * B1 \in Int /\ j * B2 \in Int
  BY <1>0
<1> HIDE DEF m2, l2, j2, k2
<1>4. Drift(m2, l2, j2, k2) = Drift(m, l, j, k)
  <2> DEFINE p == m2 * B1 + l2
             q == j2 * B2 + k2
  <2>1. p = m * B1 + l - 1 /\ q = j * B2 + k - 1 /\ p \in Int /\ q \in Int
    BY <1>1, <1>2
  <2>2. Drift(m2, l2, j2, k2) = p + 2 - q
    BY DEF Drift
  <2> HIDE DEF p, q
  <2> QED BY <2>1, <2>2, <1>3 DEF Drift
<1> QED
  BY <1>4 DEF m2, l2, j2, k2

(* Until one of the two ends the frame, a clock leaves both inside it.     *)
LEMMA FrameGoesOn ==
  ASSUME Sizes, NEW b \in [1..DataBits -> BOOLEAN],
         NEW s, NEW x, NEW l, NEW r, NEW y, NEW v, NEW k, NEW f1 \in BOOLEAN, NEW f2 \in BOOLEAN,
         NEW s2, NEW x2 \in Seq(BOOLEAN), NEW l2,
         NEW r2, NEW y2 \in Seq(BOOLEAN), NEW v2, NEW k2,
         Frame(b, s, x, l, r, y, v, k, f1, f2),
         TxMoves(s, x, l, s2, x2, l2), RxMoves(r, y, v, k, f2, r2, y2, v2, k2),
         s = "STOP" => l # 0, r = "STOP" => k # 0
  PROVE  Frame(b, s2, x2, l2, r2, y2, v2, k2, Level(TxLeft(s, x), b), f1)
<1> DEFINE m == TxLeft(s, x)
           j == RxLeft(r, y, k)
           m2 == TxLeft(s2, x2)
           j2 == RxLeft(r2, y2, k2)
<1>1. TxOK(b, s2, x2, l2) /\ m2 = IF l = 0 THEN m - 1 ELSE m
  BY TxFrame DEF Frame
<1>2. RxOK(b, r2, y2, v2, k2) /\ j2 = IF k = 0 THEN j - 1 ELSE j
  <2>1. k = H2 /\ r # "STOP" => (f2 <=> Level(j, b))
    BY Sampled
  <2>2. RxOK(b, r, y, v, k)
    BY DEF Frame
  <2> QED BY <2>1, <2>2, RxFrame
<1>3. /\ m \in 0..DataBits + 1 /\ j \in 0..DataBits + 1
      /\ m2 \in 0..DataBits + 1 /\ j2 \in 0..DataBits + 1
      /\ (r \in {"START", "DATA"} => j >= 1)
      /\ (r2 = "STOP" => j2 = 0)
  BY <1>1, <1>2, TxLevel, RxLeftType DEF Frame
<1>4. l \in 0..B1 - 1 /\ k \in 0..B2 - 1 /\ l2 \in 0..B1 - 1 /\ k2 \in 0..B2 - 1
      /\ l2 = (IF l = 0 THEN B1 - 1 ELSE l - 1) /\ k2 = (IF k = 0 THEN B2 - 1 ELSE k - 1)
  BY <1>1, <1>2 DEF Frame, TxOK, RxOK, TxMoves, RxMoves
<1>5. B1 \in Nat /\ B1 >= 12 /\ B2 \in Nat /\ DataBits \in Nat /\ DataBits >= 1
  BY DEF Sizes
<1>6. m = 0 => l # 0
  <2>1. s \in {"START", "DATA", "STOP"}
    BY DEF Frame, TxOK
  <2>2. s = "DATA" => m >= 1
    BY DEF Frame, TxOK, TxLeft
  <2>3. s = "START" => m = DataBits + 1
    BY DEF TxLeft
  <2> HIDE DEF m
  <2> QED BY <2>1, <2>2, <2>3, <1>5
<1>7. j = 0 => k # 0
  <2>1. r \in {"START", "DATA", "STOP"}
    BY DEF Frame, RxOK
  <2> HIDE DEF j
  <2> QED BY <2>1, <1>3
<1>8. s2 = "START" => m2 = DataBits + 1
  BY DEF TxLeft
<1>9. Slip + X - D1 <= Drift(m, l, j, k) /\ Drift(m, l, j, k) <= Slip + X + D2 - 2
  BY DEF Frame, Drift
<1>10. f1 = Seen(m, l + 1, b) /\ f2 = Seen(m, l + 2, b)
  BY DEF Frame
<1> HIDE DEF m, j, m2, j2
<1>11. Drift(m2, l2, j2, k2) = Drift(m, l, j, k)
  BY <1>1, <1>2, <1>3, <1>4, <1>5, <1>6, <1>7, SameDrift
<1>12. Slip + X - D1 <= Drift(m2, l2, j2, k2) /\ Drift(m2, l2, j2, k2) <= Slip + X + D2 - 2
  BY <1>9, <1>11
<1>13. ~(s2 = "START" /\ r2 = "STOP")
  <2> SUFFICES ASSUME s2 = "START", r2 = "STOP" PROVE FALSE
    OBVIOUS
  <2>1. j2 * B2 = 0
    BY <1>3, <1>5
  <2>2. m2 * B1 >= B1 + B1 /\ m2 * B1 \in Int
    <3>1. (DataBits + 1) * B1 = DataBits * B1 + B1 /\ DataBits * B1 >= B1 /\ DataBits * B1 \in Nat
      BY <1>5, Shift
    <3> QED BY <3>1, <1>5, <1>8
  <2>3. (m2 * B1 + l2) + 2 - (j2 * B2 + k2) <= Slip + X + D2 - 2
    BY <1>12 DEF Drift
  <2> DEFINE p == m2 * B1
             q == j2 * B2
  <2>4. q = 0 /\ p >= B1 + B1 /\ p \in Int /\ (p + l2) + 2 - (q + k2) <= Slip + X + D2 - 2
    BY <2>1, <2>2, <2>3
  <2>5. l2 \in Int /\ l2 >= 0 /\ k2 \in Int /\ k2 <= B2 - 1
    BY <1>4, <1>5
  <2> HIDE DEF p, q
  <2> QED BY <2>4, <2>5 DEF Sizes
<1>14. Level(m, b) = Seen(m2, l2 + 1, b)
  <2>1. CASE l = 0
    <3>1. ~(l2 + 1 < B1) /\ m2 + 1 = m
      BY <2>1, <1>1, <1>3, <1>4, <1>5
    <3> QED BY <3>1 DEF Seen
  <2>2. CASE l # 0
    <3>1. l2 + 1 < B1 /\ m2 = m
      BY <2>2, <1>1, <1>3, <1>4, <1>5
    <3> QED BY <3>1 DEF Seen
  <2> QED BY <2>1, <2>2
<1>15. f1 = Seen(m2, l2 + 2, b)
  <2>1. CASE l = 0
    <3>1. ~(l2 + 2 < B1) /\ m2 + 1 = m /\ l + 1 < B1
      BY <2>1, <1>1, <1>3, <1>4, <1>5
    <3> QED BY <3>1, <1>10 DEF Seen
  <2>2. CASE l # 0
    <3>1. l2 + 2 = l + 1 /\ m2 = m
      BY <2>2, <1>1, <1>3, <1>4, <1>5
    <3> QED BY <3>1, <1>10
  <2> QED BY <2>1, <2>2
<1> QED
  BY <1>1, <1>2, <1>12, <1>13, <1>14, <1>15 DEF Frame, Drift, m, m2, j2

-----------------------------------------------------------------------------
(* The phases of the link.                                                 *)

Octets == [1..DataBits -> BOOLEAN]

(* The sender is idle. The receiver may be too, or in a false start begun  *)
(* by a spike, in the stop bit of the last frame, or with a byte it cannot *)
(* hand on.                                                                *)
Resting ==
  /\ tx.state = "IDLE"
  /\ uart_rx_ff1 \/ uart_rx_ff2
  /\ rx.state # "DATA"
  /\ rx.state = "START" =>
       uart_rx_ff1 /\ uart_rx_ff2 /\ ~rx.start_valid /\ Regular(rx_baud)
  /\ rx.state = "STOP" =>
       Regular(tx_baud) /\ Regular(rx_baud) /\ L1 + 2 - L2 >= B1 - D1

(* The sender is in its start bit and the receiver has not seen it: it is  *)
(* idle, or still in the stop bit of the frame before, or about to leave   *)
(* HOLD.                                                                   *)
Calling(b) ==
  /\ tx.state = "START" /\ tx.bits = b
  /\ Regular(tx_baud) /\ Regular(rx_baud)
  /\ uart_rx_ff1 => uart_rx_ff2 /\ L1 >= B1 - D1
  /\ ~uart_rx_ff1 => L1 <= B1 - 2 /\ (uart_rx_ff2 => L1 >= B1 - D1 - 1)
  /\ ~uart_rx_ff2 => L1 <= B1 - 3
  /\ rx.state \in {"IDLE", "STOP", "HOLD"}
  /\ rx.state = "IDLE" =>
       uart_rx_ff2 \/ L1 >= B1 - D1 - 2 \/ (L1 >= B1 - D1 - 4 /\ L2 = B2 - 2)
  /\ rx.state = "STOP" => L1 + 2 - L2 >= B1 - D1
  /\ rx.state = "HOLD" => L1 >= B1 - D1 - 3 /\ L2 = B2 - 1

Wire(byte, spike) ==
  /\ uart_rx_ff1' = (uart_tx /\ ~spike)
  /\ uart_rx_ff2' = uart_rx_ff1
  /\ byte # NoByte => tx.state = "IDLE" /\ Quiet /\ ~spike
  /\ spike => tx.state = "IDLE" /\ Quiet

(* A step of the link: a byte begins, a spike passes, or neither.          *)
LinkStep(byte, spike) ==
  /\ byte \in Bytes \cup {NoByte} /\ spike \in BOOLEAN
  /\ LinkClock(byte) /\ Wire(byte, spike)

(* From rest a clock leads to rest, or to the start bit of the byte that   *)
(* begins, for which a receiver with a full FIFO behind it leaves no room. *)
LEMMA RestingStep ==
  ASSUME Fits, LinkType, Resting, NEW byte, NEW spike, LinkStep(byte, spike),
         rx.state = "HOLD" /\ full => byte = NoByte
  PROVE  IF byte = NoByte THEN Resting' ELSE Calling(byte)'
<1>0. Sizes /\ SameSizes
  BY FitsSizes, Unchanging DEF LinkType, LinkStep, LinkClock
<1>1. tx.state = "IDLE" /\ rx.state \in {"IDLE", "START", "STOP", "HOLD"}
      /\ (uart_rx_ff1 \/ uart_rx_ff2) /\ spike \in BOOLEAN
      /\ uart_rx_ff1 \in BOOLEAN /\ uart_rx_ff2 \in BOOLEAN
  BY DEF Resting, LinkType, RxType, LinkStep
<1>2. uart_rx_ff1' = ~spike /\ uart_rx_ff2' = uart_rx_ff1
      /\ (byte # NoByte => Quiet /\ ~spike) /\ (spike => Quiet)
  BY <1>1 DEF LinkStep, Wire, uart_tx
<1>3. TxIdles(byte) /\ Regular(tx_baud)' /\ Regular(rx_baud)' /\ RxPlain'
  BY <1>1, TxStep, RxStep DEF LinkStep, Resting
<1>4. IF byte = NoByte THEN tx'.state = "IDLE" ELSE tx'.state = "START" /\ tx'.bits = byte
  BY <1>3 DEF TxIdles
<1>5. L1' \in B1 - D1..B1 - 1 /\ L1' >= L1 - 1 /\ L1 \in B1 - D1..B1
  BY <1>3 DEF TxIdles
<1>a. PICK l1, l2 : l1 \in Int /\ l1 = L1' /\ l2 = L2'
  BY <1>5, <1>0 DEF Sizes
<1>b. l1 \in B1 - D1..B1 - 1 /\ l1 >= L1 - 1 /\ L1 \in B1 - D1..B1
  BY <1>5, <1>a
<1>6. (uart_rx_ff1 \/ uart_rx_ff2)'
  BY <1>1, <1>2 DEF Quiet
<1>7. CASE rx.state = "IDLE"
  <2>1. rx'.state = (IF uart_rx_ff2 THEN "IDLE" ELSE "START") /\ ~rx'.start_valid
    BY <1>1, <1>7, RxStep DEF LinkStep, RxIdles
  <2>2. CASE byte = NoByte
    <3>1. ~uart_rx_ff2 => uart_rx_ff1' /\ uart_rx_ff2'
      BY <1>1, <1>2 DEF Quiet
    <3> QED BY <2>1, <2>2, <3>1, <1>3, <1>4, <1>6 DEF Resting
  <2>3. CASE byte # NoByte
    <3>1. uart_rx_ff1' /\ uart_rx_ff2' /\ uart_rx_ff2
      BY <1>2, <2>3 DEF Quiet
    <3> QED BY <2>1, <2>3, <3>1, <1>0, <1>3, <1>4, <1>a, <1>b DEF Calling, SameSizes
  <2> QED BY <2>2, <2>3
<1>8. CASE rx.state = "START"
  <2>1. uart_rx_ff1 /\ uart_rx_ff2 /\ ~rx.start_valid /\ Regular(rx_baud) /\ byte = NoByte /\ ~spike
    BY <1>2, <1>8 DEF Resting, Quiet
  <2>2. RxCounts
    BY <1>8, <2>1, RxStep DEF LinkStep
  <2>3. rx'.state \in {"START", "IDLE"} /\ ~rx'.start_valid
    BY <1>8, <2>1, <2>2 DEF RxCounts
  <2> QED BY <2>1, <2>3, <1>2, <1>3, <1>4, <1>6 DEF Resting
<1>9. CASE rx.state = "STOP"
  <2>1. Regular(rx_baud) /\ L1 + 2 - L2 >= B1 - D1
    BY <1>9 DEF Resting
  <2>2. RxCounts
    BY <1>9, <2>1, RxStep DEF LinkStep
  <2>3. L2 \in 0..B2 - 1 /\ l2 = (IF L2 = 0 THEN B2 - 1 ELSE L2 - 1)
        /\ rx'.state = IF L2 = 0 THEN "HOLD" ELSE "STOP"
    BY <1>9, <1>a, <2>2 DEF RxCounts
  <2>4. /\ L2 # 0 => l1 + 2 - l2 >= B1 - D1
        /\ L2 = 0 => l1 >= B1 - D1 - 3 /\ l2 = B2 - 1
    BY <2>1, <2>3, <1>b, <1>0 DEF Sizes
  <2>5. CASE byte = NoByte
    BY <2>3, <2>4, <2>5, <1>0, <1>3, <1>4, <1>6, <1>a DEF Resting, SameSizes
  <2>6. CASE byte # NoByte
    <3>1. uart_rx_ff1' /\ uart_rx_ff2'
      BY <1>2, <2>6 DEF Quiet
    <3>2. Regular(tx_baud)' /\ Regular(rx_baud)' /\ tx'.state = "START" /\ tx'.bits = byte
      BY <1>3, <1>4, <2>6
    <3>3. B1' = B1 /\ D1' = D1 /\ B2' = B2 /\ D2' = D2
      BY <1>0 DEF SameSizes
    <3>4. L1' >= B1' - D1'
      BY <1>a, <1>b, <3>3
    <3>5. rx'.state = "STOP" => L1' + 2 - L2' >= B1' - D1'
      BY <1>a, <2>3, <2>4, <3>3
    <3>6. rx'.state = "HOLD" => L1' >= B1' - D1' - 3 /\ L2' = B2' - 1
      BY <1>a, <2>3, <2>4, <3>3
    <3> QED BY <2>3, <2>6, <3>1, <3>2, <3>4, <3>5, <3>6 DEF Calling
  <2> QED BY <2>5, <2>6
<1>10. CASE rx.state = "HOLD"
  <2>1. IF full THEN rx' = rx ELSE rx'.state = "IDLE"
    BY <1>1, <1>10, RxStep DEF LinkStep, RxIdles
  <2>2. CASE byte = NoByte
    BY <2>1, <2>2, <1>10, <1>3, <1>4, <1>6 DEF Resting
  <2>3. CASE byte # NoByte
    <3>1. uart_rx_ff1' /\ uart_rx_ff2' /\ rx'.state = "IDLE"
      BY <1>2, <2>1, <2>3, <1>10 DEF Quiet
    <3> QED BY <2>3, <3>1, <1>0, <1>3, <1>4, <1>a, <1>b DEF Calling, SameSizes
  <2> QED BY <2>2, <2>3
<1> QED
  BY <1>1, <1>7, <1>8, <1>9, <1>10

(* Both are inside the frame of b.                                         *)
Receiving(b) ==
  /\ Regular(tx_baud) /\ Regular(rx_baud)
  /\ Frame(b, tx.state, tx.bits, L1, rx.state, rx.bits, rx.start_valid, L2,
           uart_rx_ff1, uart_rx_ff2)

(* The receiver is done with a frame whose stop bit the sender has not     *)
(* ended.                                                                  *)
Ending ==
  /\ tx.state = "STOP" /\ rx.state \in {"IDLE", "HOLD"} /\ Regular(tx_baud)
  /\ uart_rx_ff1 /\ (rx.state = "IDLE" => uart_rx_ff2)

(* A frame ends, and the sender rests.                                     *)
LEMMA EndingStep ==
  ASSUME Fits, LinkType, Ending, NEW byte, NEW spike, LinkStep(byte, spike)
  PROVE  byte = NoByte /\ (Ending' \/ Resting')
<1>1. tx.state = "STOP" /\ rx.state \in {"IDLE", "HOLD"} /\ Regular(tx_baud)
      /\ uart_rx_ff1 /\ (rx.state = "IDLE" => uart_rx_ff2) /\ byte = NoByte /\ spike = FALSE
      /\ uart_rx_ff1 = TRUE
  BY DEF Ending, LinkStep, Wire, LinkType
<1>2. uart_rx_ff1' /\ uart_rx_ff2'
  BY <1>1 DEF LinkStep, Wire, uart_tx
<1>3. TxCounts /\ Regular(tx_baud)' /\ RxIdles
  BY <1>1, TxStep, RxStep DEF LinkStep
<1>4. tx'.state \in {"STOP", "IDLE"}
  BY <1>1, <1>3 DEF TxCounts
<1>5. rx'.state \in {"IDLE", "HOLD"}
  BY <1>1, <1>3 DEF RxIdles
<1> QED
  BY <1>1, <1>2, <1>3, <1>4, <1>5 DEF Ending, Resting

(* A start bit is seen in time, also by a receiver that comes from the     *)
(* stop bit of the frame before (bytes back to back), and both are inside  *)
(* the frame.                                                              *)
LEMMA CallingStep ==
  ASSUME Fits, LinkType, NEW b \in Octets, Calling(b), NEW byte, NEW spike,
         LinkStep(byte, spike), rx.state = "HOLD" => ~full
  PROVE  byte = NoByte /\ tx'.state = "START" /\ (Calling(b)' \/ Receiving(b)')
<1>0. Sizes /\ SameSizes
  BY FitsSizes, Unchanging DEF LinkType, LinkStep, LinkClock
<1>1. tx.state = "START" /\ tx.bits = b /\ rx.state \in {"IDLE", "STOP", "HOLD"}
      /\ Regular(tx_baud) /\ Regular(rx_baud) /\ byte = NoByte /\ spike = FALSE
      /\ uart_rx_ff1 \in BOOLEAN /\ uart_rx_ff2 \in BOOLEAN
  BY DEF Calling, LinkStep, Wire, LinkType
<1>2. uart_rx_ff1' = FALSE /\ uart_rx_ff2' = uart_rx_ff1
  BY <1>1 DEF LinkStep, Wire, uart_tx
<1>3. TxCounts /\ Regular(tx_baud)' /\ Regular(rx_baud)' /\ tx' \in TxType /\ RxPlain'
  BY <1>1, TxStep, RxStep DEF LinkStep
<1>4. /\ uart_rx_ff1 => uart_rx_ff2 /\ L1 >= B1 - D1
      /\ ~uart_rx_ff1 => L1 <= B1 - 2 /\ (uart_rx_ff2 => L1 >= B1 - D1 - 1)
      /\ ~uart_rx_ff2 => L1 <= B1 - 3
      /\ rx.state = "IDLE" =>
           uart_rx_ff2 \/ L1 >= B1 - D1 - 2 \/ (L1 >= B1 - D1 - 4 /\ L2 = B2 - 2)
      /\ rx.state = "STOP" => L1 + 2 - L2 >= B1 - D1
      /\ rx.state = "HOLD" => L1 >= B1 - D1 - 3 /\ L2 = B2 - 1
  BY DEF Calling
<1>5. L1 \in 0..B1 - 1 /\ L1' = (IF L1 = 0 THEN B1 - 1 ELSE L1 - 1)
      /\ tx'.bits = b /\ tx'.state = IF L1 = 0 THEN "DATA" ELSE "START"
  BY <1>1, <1>3 DEF TxCounts
<1>6. /\ rx.state \in {"IDLE", "HOLD"} =>
           /\ L2 \in B2 - D2..B2 /\ L2' \in B2 - D2..B2 - 1
           /\ L2 # B2 - D2 => L2' = L2 - 1
      /\ rx.state = "IDLE" =>
           rx'.bits = <<>> /\ rx'.state = IF uart_rx_ff2 THEN "IDLE" ELSE "START"
      /\ rx.state = "HOLD" => rx'.state = "IDLE"
  BY <1>1, RxStep DEF LinkStep, RxIdles
<1>7. rx.state = "STOP" =>
        /\ L2 \in 0..B2 - 1 /\ L2' = (IF L2 = 0 THEN B2 - 1 ELSE L2 - 1)
        /\ rx'.state = IF L2 = 0 THEN "HOLD" ELSE "STOP"
  BY <1>1, RxStep DEF LinkStep, RxCounts
<1>8. L1 > 0
  <2>1. B1 \in Nat /\ D1 \in Nat /\ D1 >= 3 /\ B1 >= 4 * D1
    BY <1>0 DEF Sizes
  <2>2. L1 \in Int
    BY <2>1, <1>5
  <2>3. CASE rx.state = "STOP"
    <3>1. L1 + 2 - L2 >= B1 - D1 /\ L2 >= 0 /\ L2 \in Int
      <4>1. B2 \in Nat
        BY <1>0 DEF Sizes
      <4> QED BY <4>1, <1>4, <1>7, <2>3
    <3> QED BY <3>1, <2>1, <2>2
  <2>4. CASE rx.state # "STOP"
    <3>1. L1 >= B1 - D1 - 4
      BY <1>1, <1>4, <2>1, <2>2, <2>4
    <3> QED BY <3>1, <2>1, <2>2
  <2> QED BY <2>3, <2>4
<1>9. PICK l, k : l = L1' /\ k = L2'
  OBVIOUS
<1>10. l = L1 - 1 /\ tx'.state = "START"
  BY <1>5, <1>8, <1>9
<1>11. /\ ~uart_rx_ff1 => l <= B1 - 3
       /\ l <= B1 - 2
       /\ uart_rx_ff1 => l >= B1 - D1 - 1
  BY <1>0, <1>1, <1>4, <1>5, <1>10 DEF Sizes
<1>12. B1' = B1 /\ D1' = D1 /\ B2' = B2 /\ D2' = D2 /\ H2' = H2 /\ Slip' = Slip /\ X' = X
  BY <1>0 DEF SameSizes
<1>13. ASSUME rx'.state \in {"IDLE", "STOP", "HOLD"},
              rx'.state = "IDLE" =>
                uart_rx_ff1 \/ l >= B1 - D1 - 2 \/ (l >= B1 - D1 - 4 /\ k = B2 - 2),
              rx'.state = "STOP" => l + 2 - k >= B1 - D1,
              rx'.state = "HOLD" => l >= B1 - D1 - 3 /\ k = B2 - 1
       PROVE  Calling(b)'
  <2>1. L1' <= B1' - 2 /\ (uart_rx_ff1 => L1' >= B1' - D1' - 1)
        /\ (~uart_rx_ff1 => L1' <= B1' - 3)
    BY <1>9, <1>11, <1>12
  <2>2. rx'.state = "IDLE" =>
          uart_rx_ff1 \/ L1' >= B1' - D1' - 2 \/ (L1' >= B1' - D1' - 4 /\ L2' = B2' - 2)
    BY <1>9, <1>12, <1>13
  <2>3. rx'.state = "STOP" => L1' + 2 - L2' >= B1' - D1'
    BY <1>9, <1>12, <1>13
  <2>4. rx'.state = "HOLD" => L1' >= B1' - D1' - 3 /\ L2' = B2' - 1
    BY <1>9, <1>12, <1>13
  <2> QED BY <2>1, <2>2, <2>3, <2>4, <1>1, <1>2, <1>3, <1>5, <1>10, <1>13 DEF Calling
<1>14. CASE rx.state = "IDLE" /\ uart_rx_ff2
  <2>1. rx'.state = "IDLE"
    BY <1>6, <1>14
  <2>2. uart_rx_ff1 \/ l >= B1 - D1 - 2
    BY <1>0, <1>4, <1>5, <1>10, <1>14 DEF Sizes
  <2> QED BY <2>1, <2>2, <1>1, <1>10, <1>13
<1>15. CASE rx.state = "STOP"
  <2>1. L2 \in 0..B2 - 1 /\ k = (IF L2 = 0 THEN B2 - 1 ELSE L2 - 1)
        /\ rx'.state = (IF L2 = 0 THEN "HOLD" ELSE "STOP") /\ L1 + 2 - L2 >= B1 - D1
    BY <1>4, <1>7, <1>9, <1>15
  <2>2. L2 # 0 => l + 2 - k >= B1 - D1
    BY <2>1, <1>0, <1>5, <1>10 DEF Sizes
  <2>3. L2 = 0 => l >= B1 - D1 - 3
    BY <2>1, <1>0, <1>5, <1>10 DEF Sizes
  <2> QED BY <2>1, <2>2, <2>3, <1>1, <1>10, <1>13
<1>16. CASE rx.state = "HOLD"
  <2>1. L2 = B2 - 1 /\ L1 >= B1 - D1 - 3 /\ rx'.state = "IDLE"
    BY <1>4, <1>6, <1>16
  <2>2. B2 - 1 # B2 - D2
    BY <1>0 DEF Sizes
  <2>3. k = B2 - 1 - 1
    BY <2>1, <2>2, <1>6, <1>9, <1>16
  <2>4. k = B2 - 2 /\ l >= B1 - D1 - 4
    BY <2>1, <2>3, <1>0, <1>5, <1>10 DEF Sizes
  <2> QED BY <2>1, <2>4, <1>1, <1>10, <1>13
<1>17. CASE rx.state = "IDLE" /\ ~uart_rx_ff2
  <2> DEFINE n == DataBits
             v == rx'.start_valid
  <2>1. rx'.state = "START" /\ rx'.bits = <<>> /\ ~uart_rx_ff1
    BY <1>4, <1>6, <1>17
  <2>2. k \in B2 - D2..B2 - 1 /\ (L2 # B2 - D2 => k = L2 - 1) /\ L2 \in B2 - D2..B2
    BY <1>6, <1>9, <1>17
  <2>3. l >= B1 - D1 - 3 \/ (l >= B1 - D1 - 5 /\ k = B2 - 3)
    BY <2>2, <1>0, <1>4, <1>5, <1>10, <1>17 DEF Sizes
  <2>4. l <= B1 - 4 /\ l \in 0..B1 - 1 /\ k \in 0..B2 - 1 /\ ~(k < H2)
    <3>1. L1 <= B1 - 3 /\ L1 \in 0..B1 - 1 /\ L1 > 0 /\ l = L1 - 1
      BY <1>4, <1>5, <1>8, <1>10, <1>17
    <3>2. B1 \in Nat /\ B2 \in Nat /\ D2 \in Nat /\ H2 \in Nat /\ D2 >= 1
          /\ H2 + 2 * D2 <= B2
      BY <1>0 DEF Sizes
    <3> QED BY <3>1, <3>2, <2>2
  <2>5. X - D1 <= l + 2 - k /\ l + 2 - k <= X + D2 - 2
    BY <2>2, <2>3, <2>4, <1>0 DEF Sizes
  <2>6. n \in Nat /\ n >= 1 /\ b \in [1..n -> BOOLEAN] /\ b \in Seq(BOOLEAN) /\ <<>> \in Seq(BOOLEAN)
        /\ Len(<<>>) = 0
    BY UartAssumption DEF Octets
  <2>7. TxOK(b, "START", b, l)
    BY <2>4, <2>6 DEF TxOK
  <2>8. RxOK(b, "START", <<>>, v, k)
    BY <2>4, <2>6 DEF RxOK
  <2>9. (n + 1) * B1 - (n + 1) * B2 = Slip /\ (n + 1) * B1 \in Int /\ (n + 1) * B2 \in Int
    BY <2>6, <1>0 DEF Sizes, Slip
  <2>10. /\ Slip + X - D1 <= ((n + 1) * B1 + l) + 2 - ((n + 1) * B2 + k)
         /\ ((n + 1) * B1 + l) + 2 - ((n + 1) * B2 + k) <= Slip + X + D2 - 2
    <3> DEFINE p == (n + 1) * B1
               q == (n + 1) * B2
    <3>1. p - q = Slip /\ p \in Int /\ q \in Int
      BY <2>9
    <3> HIDE DEF p, q
    <3>2. Slip + X - D1 <= (p + l) + 2 - (q + k) /\ (p + l) + 2 - (q + k) <= Slip + X + D2 - 2
      BY <3>1, <2>4, <2>5, <1>0 DEF Sizes
    <3> QED BY <3>2 DEF p, q
  <2>11. l + 1 < B1 /\ l + 2 < B1
    BY <2>4, <1>0 DEF Sizes
  <2>12. Level(n + 1, b) = FALSE
    <3>1. n + 1 # 0 /\ n + 1 > n
      BY <2>6
    <3> QED BY <3>1 DEF Level
  <2>13. FALSE = Seen(n + 1, l + 1, b) /\ FALSE = Seen(n + 1, l + 2, b)
    BY <2>11, <2>12 DEF Seen
  <2>14. TxLeft("START", b) = n + 1 /\ RxLeft("START", <<>>, k) = n + 1
    BY DEF TxLeft, RxLeft
  <2>15. Frame(b, "START", b, l, "START", <<>>, v, k, FALSE, FALSE)
    BY <2>7, <2>8, <2>10, <2>13, <2>14 DEF Frame
  <2>16. uart_rx_ff1' = FALSE /\ uart_rx_ff2' = FALSE
    BY <2>1, <1>1, <1>2
  <2>17. Receiving(b)'
    BY <2>1, <2>15, <2>16, <1>3, <1>5, <1>9, <1>10, <1>12
    DEF Receiving, Frame, TxOK, RxOK, TxLeft, RxLeft, Seen
  <2> QED BY <2>17, <1>1, <1>10
<1> QED
  BY <1>1, <1>10, <1>14, <1>15, <1>16, <1>17

(* A frame goes on until one of the two ends it; the receiver ends it with *)
(* the byte that was sent.                                                 *)
LEMMA ReceivingStep ==
  ASSUME Fits, LinkType, NEW b \in Octets, Receiving(b), NEW byte, NEW spike,
         LinkStep(byte, spike)
  PROVE  /\ byte = NoByte
         /\ \/ Receiving(b)'
            \/ /\ Resting' /\ rx.state = "STOP" /\ rx.bits = b
               /\ IF rx'.state = "STOP" THEN rx'.bits = b
                  ELSE rx'.state = "HOLD" /\ rx'.buffer = b
            \/ Ending' /\ rx.state = "STOP" /\ rx'.state = "HOLD" /\ rx'.buffer = b
<1>0. Sizes /\ SameSizes
  BY FitsSizes, Unchanging DEF LinkType, LinkStep, LinkClock
<1>1. /\ TxOK(b, tx.state, tx.bits, L1) /\ RxOK(b, rx.state, rx.bits, rx.start_valid, L2)
      /\ Frame(b, tx.state, tx.bits, L1, rx.state, rx.bits, rx.start_valid, L2,
               uart_rx_ff1, uart_rx_ff2)
      /\ ~(tx.state = "START" /\ rx.state = "STOP")
      /\ Regular(tx_baud) /\ Regular(rx_baud)
  BY DEF Receiving, Frame
<1>2. tx.state \in {"START", "DATA", "STOP"} /\ rx.state \in {"START", "DATA", "STOP"}
      /\ byte = NoByte /\ spike = FALSE
      /\ uart_rx_ff1 \in BOOLEAN /\ uart_rx_ff2 \in BOOLEAN /\ tx.bits \in Seq(BOOLEAN)
  BY <1>1 DEF LinkStep, Wire, LinkType, TxOK, RxOK
<1>3. TxCounts /\ RxCounts /\ Regular(tx_baud)' /\ Regular(rx_baud)' /\ tx' \in TxType /\ RxPlain'
  BY <1>1, <1>2, TxStep, RxStep DEF LinkStep
<1>4. PICK s2, x2, l2, r2, y2, v2, k2 :
        /\ s2 = tx'.state /\ x2 = tx'.bits /\ l2 = L1'
        /\ r2 = rx'.state /\ y2 = rx'.bits /\ v2 = rx'.start_valid /\ k2 = L2'
  OBVIOUS
<1>5. x2 \in Seq(BOOLEAN) /\ y2 \in Seq(BOOLEAN) /\ ~(r2 \in {"IDLE", "STOP", "HOLD"} /\ v2)
  BY <1>3, <1>4 DEF TxType, RxPlain, RxType
<1>6. TxMoves(tx.state, tx.bits, L1, s2, x2, l2)
  BY <1>3, <1>4 DEF TxCounts, TxMoves
<1>7. RxMoves(rx.state, rx.bits, rx.start_valid, L2, uart_rx_ff2, r2, y2, v2, k2)
  BY <1>3, <1>4 DEF RxCounts, RxMoves
<1>8. b \in [1..DataBits -> BOOLEAN] /\ b \in Seq(BOOLEAN) /\ Len(b) = DataBits
  BY UartAssumption DEF Octets
<1>9. uart_rx_ff1' = Level(TxLeft(tx.state, tx.bits), b) /\ uart_rx_ff2' = uart_rx_ff1
  <2>1. uart_rx_ff1' = uart_tx /\ uart_rx_ff2' = uart_rx_ff1
    BY <1>2 DEF LinkStep, Wire, uart_tx
  <2>2. Level(TxLeft(tx.state, tx.bits), b)
          <=> tx.state = "STOP" \/ (tx.state = "DATA" /\ Head(tx.bits))
    BY <1>0, <1>1, <1>8, TxLevel
  <2>3. TxLeft(tx.state, tx.bits) \in Nat
    <3>1. TxLeft(tx.state, tx.bits) \in 0..DataBits + 1
      BY <1>0, <1>1, <1>8, TxLevel
    <3> QED BY <3>1
  <2>4. Level(TxLeft(tx.state, tx.bits), b) \in BOOLEAN
    BY <2>3, <1>8, LevelType
  <2>5. uart_tx <=> Level(TxLeft(tx.state, tx.bits), b)
    BY <2>2, <1>2 DEF uart_tx
  <2>6. uart_tx \in BOOLEAN
    BY <1>2 DEF uart_tx
  <2> QED BY <2>1, <2>4, <2>5, <2>6
<1>10. B1' = B1 /\ D1' = D1 /\ B2' = B2 /\ D2' = D2 /\ H2' = H2 /\ Slip' = Slip /\ X' = X
  BY <1>0 DEF SameSizes
<1>11. /\ tx.state = "STOP" /\ L1 = 0 => rx.state = "STOP" /\ L2 <= 2 + D1 - Slip - X
       /\ rx.state = "STOP" => tx.state = "STOP" \/ L2 >= 1
  BY <1>0, <1>1, <1>8, FirstToEnd
<1>12. rx.state = "STOP" => rx.bits = b
  BY <1>1, <1>8 DEF RxOK
<1>13. rx.state = "STOP" => y2 = rx.bits
         /\ IF L2 = 0 THEN r2 = "HOLD" /\ rx'.buffer = rx.bits ELSE r2 = "STOP"
  BY <1>3, <1>4 DEF RxCounts
<1>14. CASE ~(tx.state = "STOP" /\ L1 = 0) /\ ~(rx.state = "STOP" /\ L2 = 0)
  <2>1. Frame(b, s2, x2, l2, r2, y2, v2, k2, Level(TxLeft(tx.state, tx.bits), b), uart_rx_ff1)
    BY <1>0, <1>1, <1>2, <1>5, <1>6, <1>7, <1>8, <1>14, FrameGoesOn
  <2>2. Receiving(b)'
    BY <2>1, <1>3, <1>4, <1>9, <1>10 DEF Receiving, Frame, TxOK, RxOK, TxLeft, RxLeft, Seen
  <2> QED BY <2>2, <1>2
<1>15. CASE tx.state = "STOP" /\ L1 = 0
  <2>1. tx'.state = "IDLE" /\ l2 = B1 - 1
    BY <1>3, <1>4, <1>15 DEF TxCounts
  <2>2. rx.state = "STOP" /\ L2 <= 2 + D1 - Slip - X /\ L2 \in 0..B2 - 1
    BY <1>11, <1>15, <1>3 DEF RxCounts
  <2>3. k2 = IF L2 = 0 THEN B2 - 1 ELSE L2 - 1
    BY <1>3, <1>4 DEF RxCounts
  <2>4. L2 # 0 => l2 + 2 - k2 >= B1 - D1
    BY <2>1, <2>2, <2>3, <1>0 DEF Sizes
  <2>5. L2 # 0 => L1' + 2 - L2' >= B1' - D1'
    BY <2>4, <1>4, <1>10
  <2>6. rx'.state = (IF L2 = 0 THEN "HOLD" ELSE "STOP")
        /\ IF rx'.state = "STOP" THEN rx'.bits = b ELSE rx'.state = "HOLD" /\ rx'.buffer = b
    BY <2>2, <1>4, <1>12, <1>13
  <2>7. uart_rx_ff1'
    <3>1. TxLeft(tx.state, tx.bits) = 0
      BY <1>15 DEF TxLeft
    <3> QED BY <3>1, <1>9 DEF Level
  <2>8. Resting'
    BY <2>1, <2>5, <2>6, <2>7, <1>3 DEF Resting
  <2> QED BY <2>2, <2>6, <2>8, <1>2, <1>12
<1>16. CASE rx.state = "STOP" /\ L2 = 0 /\ ~(tx.state = "STOP" /\ L1 = 0)
  <2>1. tx.state = "STOP" /\ L1 # 0
    BY <1>11, <1>16
  <2>2. tx'.state = "STOP"
    BY <2>1, <1>3 DEF TxCounts
  <2>3. rx'.state = "HOLD" /\ rx'.buffer = b
    BY <1>4, <1>12, <1>13, <1>16
  <2>4. uart_rx_ff1'
    <3>1. TxLeft(tx.state, tx.bits) = 0
      BY <2>1 DEF TxLeft
    <3> QED BY <3>1, <1>9 DEF Level
  <2>5. Ending'
    BY <2>2, <2>3, <2>4, <1>3 DEF Ending
  <2> QED BY <2>3, <2>5, <1>2, <1>16
<1> QED
  BY <1>14, <1>15, <1>16

-----------------------------------------------------------------------------
(* Bytes between sender and FIFO.                                          *)

Link(b) == Resting \/ Calling(b) \/ Receiving(b) \/ Ending

(* A step of the link keeps the types.                                     *)
LEMMA LinkTypeStep ==
  ASSUME Fits, LinkType, NEW b, Link(b), NEW byte, NEW spike, LinkStep(byte, spike)
  PROVE  LinkType'
<1>1. Sizes /\ SameSizes
  BY FitsSizes, Unchanging DEF LinkType, LinkStep, LinkClock
<1>2. /\ tx.state # "IDLE" => Regular(tx_baud)
      /\ rx.state \notin {"IDLE", "HOLD"} => Regular(rx_baud)
  <2>1. tx \in TxType /\ rx \in RxType
    BY DEF LinkType
  <2>2. CASE Resting
    BY <2>1, <2>2 DEF Resting, RxType
  <2>3. CASE Calling(b)
    BY <2>3 DEF Calling
  <2>4. CASE Receiving(b)
    BY <2>4 DEF Receiving
  <2>5. CASE Ending
    BY <2>5 DEF Ending
  <2> QED BY <2>2, <2>3, <2>4, <2>5 DEF Link
<1>3. byte \in Bytes \cup {NoByte} /\ LinkClock(byte) /\ spike \in BOOLEAN
  BY DEF LinkStep
<1>4. BaudOK(tx_baud, D1)' /\ BaudOK(rx_baud, D2)' /\ RxPlain'
  BY <1>2, <1>3, TxStep, RxStep
<1>5. tx' \in TxType /\ (tx'.state = "IDLE" => tx'.tick = 0)
      /\ (tx'.state \in {"START", "DATA"} => Len(tx'.bits) >= 1)
  BY <1>2, <1>3, TxStep
<1>6. uart_rx_ff1' \in BOOLEAN /\ uart_rx_ff2' \in BOOLEAN
  BY DEF LinkStep, Wire, LinkType
<1>7. rates' \in Rates
  BY <1>1 DEF SameSizes, LinkType
<1>8. RxType' = RxType /\ TxType' = TxType
  BY DEF RxType, TxType
<1>9. tx' \in TxType' /\ rx' \in RxType'
  BY <1>4, <1>5, <1>8 DEF RxPlain
<1> QED
  BY <1>4, <1>5, <1>6, <1>7, <1>9 DEF LinkType, RxPlain

(* Bytes between sender and reader: the one the receiver has, the one in   *)
(* the sender or on its way, the one that goes into the FIFO now, the one  *)
(* sent now.                                                               *)
Held ==
  IF rx.state = "HOLD" THEN <<rx.buffer>>
  ELSE IF rx.state = "STOP" /\ tx.state \in {"IDLE", "START"} THEN <<rx.bits>> ELSE <<>>
OnWire == tx.state # "IDLE" /\ ~(tx.state = "STOP" /\ rx.state \in {"HOLD", "IDLE"})
Wired(b) == IF OnWire THEN <<b>> ELSE <<>>
Pushed == IF rx_fifo_wr_fire THEN <<rx.buffer>> ELSE <<>>
Added(byte) == IF byte = NoByte THEN <<>> ELSE <<byte>>

(* What the receiver has it keeps until it goes into the FIFO.             *)
LEMMA RxKeeps ==
  ASSUME Fits, LinkType, NEW byte, LinkClock(byte),
         rx.state \notin {"IDLE", "HOLD"} => Regular(rx_baud) /\ tx.state \in {"IDLE", "START"}
                                           /\ tx'.state \in {"IDLE", "START"},
         rx.state # "DATA"
  PROVE  Pushed \o Held' = Held
<1>1. rx.state \in {"IDLE", "START", "STOP", "HOLD"} /\ (rx.valid <=> rx.state = "HOLD")
  BY DEF LinkType, RxType
<1>2. CASE rx.state = "IDLE"
  <2>1. rx'.state \in {"IDLE", "START"}
    BY <1>2, RxStep DEF RxIdles
  <2>2. Held = <<>> /\ Held' = <<>> /\ Pushed = <<>>
    BY <2>1, <1>1, <1>2 DEF Held, Pushed, rx_fifo_wr_fire
  <2> QED BY <2>2
<1>3. CASE rx.state = "START"
  <2>1. rx'.state \in {"IDLE", "START", "DATA"}
    BY <1>3, RxStep DEF RxCounts
  <2>2. Held = <<>> /\ Held' = <<>> /\ Pushed = <<>>
    BY <2>1, <1>1, <1>3 DEF Held, Pushed, rx_fifo_wr_fire
  <2> QED BY <2>2
<1>4. CASE rx.state = "STOP"
  <2>1. rx'.bits = rx.bits
        /\ IF L2 = 0 THEN rx'.state = "HOLD" /\ rx'.buffer = rx.bits ELSE rx'.state = "STOP"
    BY <1>4, RxStep DEF RxCounts
  <2>2. Held = <<rx.bits>> /\ Held' = <<rx.bits>> /\ Pushed = <<>>
    BY <2>1, <1>1, <1>4 DEF Held, Pushed, rx_fifo_wr_fire
  <2> QED BY <2>2
<1>5. CASE rx.state = "HOLD"
  <2>1. IF full THEN rx' = rx ELSE rx'.state = "IDLE"
    BY <1>5, RxStep DEF RxIdles
  <2>2. CASE full
    <3>1. Held = <<rx.buffer>> /\ Held' = <<rx.buffer>> /\ Pushed = <<>>
      BY <2>1, <2>2, <1>5 DEF Held, Pushed, rx_fifo_wr_fire
    <3> QED BY <3>1
  <2>3. CASE ~full
    <3>1. Held = <<rx.buffer>> /\ Held' = <<>> /\ Pushed = <<rx.buffer>>
      BY <2>1, <2>3, <1>1, <1>5 DEF Held, Pushed, rx_fifo_wr_fire
    <3> QED BY <3>1
  <2> QED BY <2>2, <2>3
<1> QED
  BY <1>1, <1>2, <1>3, <1>4, <1>5

Word == Seq(BOOLEAN) \cup {NoByte}

(* A byte is a sequence of DataBits bits.                                  *)
LEMMA OctetWord ==
  ASSUME NEW b \in Octets PROVE b \in Word /\ b \in Seq(BOOLEAN) /\ Len(b) = DataBits
BY UartAssumption DEF Octets, Word

(* What is in the link is bytes.                                           *)
LEMMA LinkWords ==
  ASSUME LinkType, NEW b \in Octets
  PROVE  Held \in Seq(Word) /\ Wired(b) \in Seq(Word) /\ Pushed \in Seq(Word)
<1>1. rx.buffer \in Word /\ rx.bits \in Word
  BY DEF LinkType, RxType, Word
<1>2. b \in Word
  BY OctetWord
<1>3. \A e \in Word : <<e>> \in Seq(Word)
  OBVIOUS
<1> QED
  BY <1>1, <1>2, <1>3 DEF Held, Wired, Pushed

(* Concatenation is associative.                                           *)
LEMMA HeldPasses ==
  ASSUME NEW S, NEW p \in Seq(S), NEW h2 \in Seq(S), NEW w \in Seq(S)
  PROVE  (p \o h2) \o w = p \o (h2 \o w)
BY ConcatAssociative

(* No byte is lost, doubled or changed between the sender and the FIFO:    *)
(* what the receiver had and the line carried, and the byte that begins,   *)
(* are what goes into the FIFO, what the receiver has and what the line    *)
(* carries.                                                                *)
LEMMA LinkNext ==
  ASSUME Fits, LinkType, NEW b \in Octets, Link(b), NEW byte, NEW spike,
         LinkStep(byte, spike),
         rx.state = "HOLD" /\ full => byte = NoByte /\ tx.state # "START"
  PROVE  LET nb == IF byte = NoByte THEN b ELSE byte
         IN /\ nb \in Octets /\ Link(nb)'
            /\ Pushed \o (Held' \o Wired(nb)') = (Held \o Wired(b)) \o Added(byte)
<1> DEFINE nb == IF byte = NoByte THEN b ELSE byte
<1>0. nb \in Octets /\ LinkClock(byte) /\ byte \in Bytes \cup {NoByte}
  BY UartAssumption DEF LinkStep, Octets
<1>a. LinkType'
  BY LinkTypeStep
<1>b. /\ Held \in Seq(Word) /\ Wired(b) \in Seq(Word) /\ Pushed \in Seq(Word)
      /\ Added(byte) \in Seq(Word)
  <2>1. \A e \in Word : <<e>> \in Seq(Word)
    OBVIOUS
  <2>2. byte # NoByte => byte \in Word
    BY UartAssumption DEF Word, LinkStep
  <2> QED BY <2>1, <2>2, LinkWords DEF Added
<1>c. Held' \in Seq(Word)
  <2>1. rx'.buffer \in Word /\ rx'.bits \in Word
    BY <1>a DEF LinkType, RxType, Word
  <2>2. \A e \in Word : <<e>> \in Seq(Word)
    OBVIOUS
  <2> QED BY <2>1, <2>2 DEF Held
<1>d. PICK h2 \in Seq(Word) : h2 = Held'
  BY <1>c
<1>1. CASE Resting
  <2>1. IF byte = NoByte THEN Resting' ELSE Calling(byte)'
    BY <1>1, RestingStep
  <2>2. tx.state = "IDLE" /\ (IF byte = NoByte THEN tx'.state = "IDLE" ELSE tx'.state = "START")
    BY <2>1, <1>1 DEF Resting, Calling
  <2>3. Pushed \o Held' = Held
    <3>1. /\ rx.state # "DATA"
          /\ rx.state \notin {"IDLE", "HOLD"} => Regular(rx_baud)
      BY <1>1 DEF Resting, LinkType, RxType
    <3>2. tx.state \in {"IDLE", "START"} /\ tx'.state \in {"IDLE", "START"}
      BY <2>2
    <3> QED BY <1>0, <3>1, <3>2, RxKeeps
  <2>4. Wired(b) = <<>> /\ Wired(nb)' = Added(byte)
    BY <2>2 DEF Wired, OnWire, Added
  <2>5. Link(nb)'
    BY <2>1 DEF Link
  <2>6. Held \o <<>> = Held
    BY <1>b, ConcatEmptySeq
  <2>7. Pushed \o (Held' \o Added(byte)) = Held \o Added(byte)
    <3>1. PICK p, h, w : p = Pushed /\ h = Held /\ w = Added(byte)
      OBVIOUS
    <3>2. p \in Seq(Word) /\ w \in Seq(Word) /\ p \o h2 = h
      BY <3>1, <1>b, <1>d, <2>3
    <3>3. p \o (h2 \o w) = h \o w
      <4>1. p \in Seq(Word) /\ w \in Seq(Word) /\ h2 \in Seq(Word)
        BY <3>2
      <4>2. (p \o h2) \o w = p \o (h2 \o w)
        BY ONLY <4>1, HeldPasses
      <4> QED BY <3>2, <4>2
    <3> QED BY <3>1, <3>3, <1>d
  <2> QED BY <1>0, <2>4, <2>5, <2>6, <2>7
<1>2. CASE Calling(b)
  <2>1. byte = NoByte /\ (Calling(b)' \/ Receiving(b)') /\ tx.state = "START" /\ nb = b
        /\ tx'.state = "START" /\ Regular(tx_baud) /\ Regular(rx_baud)
        /\ rx.state \in {"IDLE", "STOP", "HOLD"}
    BY <1>2, CallingStep DEF Calling
  <2>3. tx.state \in {"IDLE", "START"} /\ tx'.state \in {"IDLE", "START"} /\ rx.state # "DATA"
    BY <2>1
  <2>4. Pushed \o Held' = Held
    BY <1>0, <2>1, <2>3, RxKeeps
  <2>5. Wired(b) = <<b>> /\ Wired(nb)' = <<b>> /\ Added(byte) = <<>>
    BY <2>1 DEF Wired, OnWire, Added
  <2>6. Pushed \o (Held' \o <<b>>) = Held \o <<b>>
    <3>1. PICK p, h, w : p = Pushed /\ h = Held /\ w = <<b>>
      OBVIOUS
    <3>2. p \in Seq(Word) /\ w \in Seq(Word) /\ p \o h2 = h
      BY <3>1, <1>b, <1>d, <2>4, <2>5
    <3>3. p \o (h2 \o w) = h \o w
      <4>1. p \in Seq(Word) /\ w \in Seq(Word) /\ h2 \in Seq(Word)
        BY <3>2
      <4>2. (p \o h2) \o w = p \o (h2 \o w)
        BY ONLY <4>1, HeldPasses
      <4> QED BY <3>2, <4>2
    <3> QED BY <3>1, <3>3, <1>d
  <2>7. (Held \o <<b>>) \o <<>> = Held \o <<b>>
    BY <1>b, <2>5, ConcatProperties, ConcatEmptySeq
  <2>8. Link(nb)'
    BY <2>1 DEF Link
  <2> QED BY <1>0, <2>5, <2>6, <2>7, <2>8
<1>3. CASE Receiving(b)
  <2>1. /\ byte = NoByte /\ nb = b
        /\ \/ Receiving(b)'
           \/ /\ Resting' /\ rx.state = "STOP" /\ rx.bits = b
              /\ IF rx'.state = "STOP" THEN rx'.bits = b
                 ELSE rx'.state = "HOLD" /\ rx'.buffer = b
           \/ Ending' /\ rx.state = "STOP" /\ rx'.state = "HOLD" /\ rx'.buffer = b
    BY <1>3, ReceivingStep
  <2>2. /\ tx.state \in {"START", "DATA", "STOP"} /\ rx.state \in {"START", "DATA", "STOP"}
        /\ ~(tx.state = "START" /\ rx.state = "STOP")
    BY <1>3 DEF Receiving, Frame, TxOK, RxOK
  <2>3. Held = <<>> /\ Wired(b) = <<b>> /\ Pushed = <<>> /\ Added(byte) = <<>>
    BY <2>1, <2>2 DEF Held, Wired, OnWire, Pushed, rx_fifo_wr_fire, Added, LinkType
  <2>4. Held' \o Wired(b)' = <<b>>
    <3>1. CASE Receiving(b)'
      <4>1. /\ tx'.state \in {"START", "DATA", "STOP"} /\ rx'.state \in {"START", "DATA", "STOP"}
            /\ ~(tx'.state = "START" /\ rx'.state = "STOP")
        BY <3>1 DEF Receiving, Frame, TxOK, RxOK
      <4>2. Held' = <<>> /\ Wired(b)' = <<b>>
        BY <4>1 DEF Held, Wired, OnWire
      <4> QED BY <4>2
    <3>2. CASE Resting' /\ (IF rx'.state = "STOP" THEN rx'.bits = b
                            ELSE rx'.state = "HOLD" /\ rx'.buffer = b)
      <4>1. tx'.state = "IDLE"
        BY <3>2 DEF Resting
      <4>2. Held' = <<b>> /\ Wired(b)' = <<>>
        BY <4>1, <3>2 DEF Held, Wired, OnWire
      <4> QED BY <4>2
    <3>3. CASE Ending' /\ rx'.state = "HOLD" /\ rx'.buffer = b
      <4>1. tx'.state = "STOP"
        BY <3>3 DEF Ending
      <4>2. Held' = <<b>> /\ Wired(b)' = <<>>
        BY <4>1, <3>3 DEF Held, Wired, OnWire
      <4> QED BY <4>2
    <3> QED BY <2>1, <3>1, <3>2, <3>3
  <2>5. Link(nb)'
    BY <2>1 DEF Link
  <2>6. <<>> \o <<b>> = <<b>> /\ <<b>> \o <<>> = <<b>>
    BY <1>b, <2>3, ConcatEmptySeq
  <2> QED BY <1>0, <2>1, <2>3, <2>4, <2>5, <2>6
<1>4. CASE Ending
  <2>1. byte = NoByte /\ (Ending' \/ Resting') /\ nb = b /\ tx.state = "STOP"
        /\ rx.state \in {"IDLE", "HOLD"}
    BY <1>4, EndingStep DEF Ending
  <2>2. tx'.state = "IDLE" \/ (tx'.state = "STOP" /\ rx'.state \in {"IDLE", "HOLD"})
    BY <2>1 DEF Ending, Resting
  <2>3. Pushed \o Held' = Held
    BY <1>0, <2>1, RxKeeps
  <2>4. Wired(b) = <<>> /\ Wired(nb)' = <<>> /\ Added(byte) = <<>>
    BY <2>1, <2>2 DEF Wired, OnWire, Added
  <2>5. Held \o <<>> = Held /\ Held' \o <<>> = Held'
    BY <1>b, <1>c, ConcatEmptySeq
  <2>6. Link(nb)'
    BY <2>1 DEF Link
  <2> QED BY <1>0, <2>3, <2>4, <2>5, <2>6
<1> QED
  BY <1>1, <1>2, <1>3, <1>4 DEF Link

-----------------------------------------------------------------------------
(* Bytes in FIFO and output stage.                                         *)

(* The bytes in the output register and on their way to it from the FIFO.  *)
Out == IF out_valid THEN <<out_data>> ELSE <<>>
Popped == IF fifo_dout_valid THEN <<dout>> ELSE <<>>
Kept(rx_ready) == IF rx_fire(rx_ready) THEN <<>> ELSE Out

(* Types of the store.                                                     *)
StoreType ==
  /\ fifo \in Seq(Word) /\ sent \in Seq(Word)
  /\ dout \in Word /\ out_data \in Word
  /\ fifo_dout_valid \in BOOLEAN /\ out_valid \in BOOLEAN

(* All bytes find room; one byte at most waits in the FIFO while nothing   *)
(* is offered; and two bytes in a row leave the FIFO only for a reader     *)
(* that goes on.                                                           *)
Limits ==
  /\ Len(sent) <= Depth + 2 /\ Len(fifo) <= Depth
  /\ fifo # <<>> /\ ~out_valid /\ ~fifo_dout_valid => Len(fifo) = 1 /\ rx.state = "IDLE"
  /\ fifo_dout_valid /\ (out_valid \/ fifo # <<>>) => reading

(* The bytes sent and not read are, in order, those in the stages.         *)
Store(b) ==
  /\ StoreType /\ Limits
  /\ sent = Out \o (Popped \o (fifo \o (Held \o Wired(b))))

(* The part of Clock that is about FIFO, output stage and reader.          *)
StoreStep(byte, rx_ready) ==
  /\ Reads(rx_ready) /\ rx_ready \in BOOLEAN
  /\ byte # NoByte => Room
  /\ Fifo(rx_ready) /\ OutputStage(rx_ready)
  /\ reading' = rx_ready
  /\ sent' = (IF rx_fire(rx_ready) /\ sent # <<>> THEN Tail(sent) ELSE sent) \o Added(byte)

(* Lengths add up.                                                         *)
LEMMA Regrouped ==
  ASSUME NEW S, NEW k \in Seq(S), NEW p \in Seq(S), NEW f \in Seq(S), NEW y \in Seq(S)
  PROVE  Len(k \o (p \o (f \o y))) = Len(k) + Len(p) + Len(f) + Len(y)
BY ConcatProperties

(* The FIFO passes bytes on in order.                                      *)
LEMMA FifoMoves ==
  ASSUME StoreType, NEW rx_ready, Fifo(rx_ready), LinkType
  PROVE  /\ fifo' \in Seq(Word) /\ dout' \in Word /\ fifo_dout_valid' \in BOOLEAN
         /\ Popped' \o fifo' = fifo \o Pushed
         /\ IF rx_fifo_rd_en(rx_ready)
            THEN Len(fifo') = Len(fifo) - 1 + Len(Pushed) ELSE fifo' = fifo \o Pushed
<1>1. Pushed \in Seq(Word) /\ fifo \in Seq(Word) /\ \A e \in Word : <<e>> \in Seq(Word)
  <2>1. rx.buffer \in Word
    BY DEF LinkType, RxType, Word
  <2> QED BY <2>1 DEF Pushed, StoreType
<1>2. fifo' = (IF rx_fifo_rd_en(rx_ready) THEN Tail(fifo) ELSE fifo) \o Pushed
  BY DEF Fifo, Pushed
<1>3. CASE rx_fifo_rd_en(rx_ready)
  <2>1. fifo # <<>> /\ dout' = Head(fifo) /\ fifo_dout_valid' = TRUE
    BY <1>3 DEF Fifo, rx_fifo_rd_en
  <2>2. Head(fifo) \in Word /\ Tail(fifo) \in Seq(Word) /\ Len(Tail(fifo)) = Len(fifo) - 1
    BY <1>1, <2>1, HeadTailProperties
  <2>3. <<Head(fifo)>> \o Tail(fifo) = fifo
    BY <1>1, <2>1
  <2>4. PICK h, t, p : h = <<Head(fifo)>> /\ t = Tail(fifo) /\ p = Pushed
    OBVIOUS
  <2>5. h \in Seq(Word) /\ t \in Seq(Word) /\ p \in Seq(Word)
    BY <1>1, <2>2, <2>4
  <2>6. (h \o t) \o p = h \o (t \o p) /\ Len(t \o p) = Len(t) + Len(p) /\ t \o p \in Seq(Word)
    BY ONLY <2>5, HeldPasses, ConcatProperties
  <2>7. Popped' = h /\ fifo' = t \o p
    BY <1>2, <1>3, <2>1, <2>4 DEF Popped
  <2>8. Popped' \o fifo' = h \o (t \o p)
    BY ONLY <2>7
  <2>9. h \o t = fifo
    BY <2>3, <2>4
  <2>10. Popped' \o fifo' = fifo \o Pushed
    BY ONLY <2>4, <2>6, <2>8, <2>9
  <2>11. Len(fifo') = Len(fifo) - 1 + Len(Pushed) /\ fifo' \in Seq(Word)
    BY ONLY <2>2, <2>4, <2>6, <2>7
  <2> QED BY <1>3, <2>1, <2>2, <2>10, <2>11
<1>4. CASE ~rx_fifo_rd_en(rx_ready)
  <2>1. dout' = dout /\ fifo_dout_valid' = FALSE /\ fifo' = fifo \o Pushed
    BY <1>2, <1>4 DEF Fifo
  <2>2. fifo \o Pushed \in Seq(Word)
    BY <1>1, ConcatProperties
  <2>3. Popped' = <<>> /\ <<>> \o (fifo \o Pushed) = fifo \o Pushed
    BY <2>1, <2>2, ConcatEmptySeq DEF Popped
  <2>4. dout' \in Word
    BY <2>1 DEF StoreType
  <2> QED BY <1>4, <2>1, <2>2, <2>3, <2>4
<1> QED
  BY <1>3, <1>4

(* The output stage passes bytes on in order: a byte it has been given is  *)
(* not overwritten, since a reader that goes on takes it in the same       *)
(* clock.                                                                  *)
LEMMA OutMoves ==
  ASSUME StoreType, Limits, NEW rx_ready \in BOOLEAN, OutputStage(rx_ready),
         Drains, Reads(rx_ready)
  PROVE  /\ out_valid' \in BOOLEAN /\ out_data' \in Word
         /\ Out' = Kept(rx_ready) \o Popped
<1>1. /\ out_valid' = (fifo_dout_valid \/ (out_valid /\ ~rx_fire(rx_ready)))
      /\ out_data' = IF fifo_dout_valid THEN dout ELSE out_data
  BY DEF OutputStage
<1>2. fifo_dout_valid /\ out_valid => rx_fire(rx_ready)
  BY DEF Limits, Reads, rx_fifo_empty, rx_fire
<1>3. rx_fire(rx_ready) \in BOOLEAN /\ out_valid \in BOOLEAN /\ fifo_dout_valid \in BOOLEAN
  BY DEF rx_fire, StoreType
<1>4. out_valid' \in BOOLEAN /\ out_data' \in Word
  BY <1>1, <1>3 DEF StoreType
<1>5. CASE fifo_dout_valid
  <2>1. Out' = <<dout>> /\ Popped = <<dout>> /\ Kept(rx_ready) = <<>>
    BY <1>1, <1>2, <1>5 DEF Out, Popped, Kept
  <2>2. <<>> \o <<dout>> = <<dout>>
    OBVIOUS
  <2> QED BY <2>1, <2>2, <1>4
<1>6. CASE ~fifo_dout_valid
  <2>1. Out' = Kept(rx_ready) /\ Popped = <<>>
    BY <1>1, <1>3, <1>6 DEF Out, Popped, Kept, rx_fire
  <2>2. Kept(rx_ready) = <<>> \/ Kept(rx_ready) = <<out_data>>
    BY DEF Kept, Out
  <2>3. <<>> \o <<>> = <<>> /\ <<out_data>> \o <<>> = <<out_data>>
    OBVIOUS
  <2> QED BY <2>1, <2>2, <2>3, <1>4
<1> QED
  BY <1>5, <1>6

-----------------------------------------------------------------------------
(* The invariant and the theorem.                                          *)

(* The inductive invariant.                                                *)
IInv == LinkType /\ \E b \in Octets : Link(b) /\ Store(b)

(* The stages as sequences, and their lengths.                             *)
LEMMA Parts ==
  ASSUME LinkType, StoreType, NEW b \in Octets
  PROVE  /\ Out \in Seq(Word) /\ Popped \in Seq(Word) /\ fifo \in Seq(Word)
         /\ Held \in Seq(Word) /\ Wired(b) \in Seq(Word)
         /\ Held \o Wired(b) \in Seq(Word)
         /\ Len(Out) = (IF out_valid THEN 1 ELSE 0)
         /\ Len(Popped) = (IF fifo_dout_valid THEN 1 ELSE 0)
         /\ Len(Held \o Wired(b)) = Len(Held) + Len(Wired(b))
<1>1. \A e \in Word : <<e>> \in Seq(Word)
  OBVIOUS
<1>2. Out \in Seq(Word) /\ Popped \in Seq(Word) /\ fifo \in Seq(Word)
  BY <1>1 DEF StoreType, Out, Popped
<1>3. Len(Out) = (IF out_valid THEN 1 ELSE 0) /\ Len(Popped) = (IF fifo_dout_valid THEN 1 ELSE 0)
  BY DEF Out, Popped
<1>4. Held \in Seq(Word) /\ Wired(b) \in Seq(Word)
  BY LinkWords
<1>5. PICK h, w : h = Held /\ w = Wired(b)
  OBVIOUS
<1>6. h \in Seq(Word) /\ w \in Seq(Word)
  BY <1>4, <1>5
<1>7. h \o w \in Seq(Word) /\ Len(h \o w) = Len(h) + Len(w)
  BY ONLY <1>6, ConcatProperties
<1> QED
  BY <1>2, <1>3, <1>4, <1>5, <1>7

(* Behind a receiver that cannot hand its byte on there is no room: the    *)
(* FIFO is full, and it is so only behind an offered byte.                 *)
LEMMA FullWaits ==
  ASSUME LinkType, NEW b \in Octets, Store(b), rx.state = "HOLD", full
  PROVE  ~Room /\ tx.state # "START"
<1>1. StoreType /\ Limits /\ sent = Out \o (Popped \o (fifo \o (Held \o Wired(b))))
  BY DEF Store
<1>2. Depth \in Nat /\ Depth >= 1 /\ Len(fifo) = Depth
  BY UartAssumption DEF full
<1>3. fifo # <<>>
  BY <1>2
<1>4. out_valid \/ fifo_dout_valid
  BY <1>1, <1>3 DEF Limits
<1>5. Len(Held) = 1 /\ Len(Wired(b)) = IF tx.state = "START" THEN 1 ELSE Len(Wired(b))
  <2>1. Held = <<rx.buffer>>
    BY DEF Held
  <2>2. tx.state = "START" => Wired(b) = <<b>>
    BY DEF Wired, OnWire
  <2> QED BY <2>1, <2>2
<1>6. PICK o, p, f, y : o = Out /\ p = Popped /\ f = fifo /\ y = Held \o Wired(b)
  OBVIOUS
<1>7. o \in Seq(Word) /\ p \in Seq(Word) /\ f \in Seq(Word) /\ y \in Seq(Word)
  BY <1>1, <1>6, Parts
<1>8. Len(o \o (p \o (f \o y))) = Len(o) + Len(p) + Len(f) + Len(y)
  BY ONLY <1>7, Regrouped
<1>9. Len(sent) = Len(Out) + Len(Popped) + Len(fifo) + Len(Held \o Wired(b))
  BY <1>1, <1>6, <1>8
<1>10. PICK lo, lp, lh, lw :
         lo = Len(Out) /\ lp = Len(Popped) /\ lh = Len(Held) /\ lw = Len(Wired(b))
  OBVIOUS
<1>11. Len(sent) = lo + lp + Depth + (lh + lw)
  BY <1>1, <1>2, <1>9, <1>10, Parts
<1>12. lo \in 0..1 /\ lp \in 0..1 /\ lo + lp >= 1 /\ lh = 1 /\ lw \in 0..1
       /\ (tx.state = "START" => lw = 1)
  <2>1. Len(Wired(b)) \in 0..1
    BY DEF Wired
  <2> QED BY <2>1, <1>1, <1>4, <1>5, <1>10, Parts
<1>13. Len(sent) >= Depth + 2 /\ (tx.state = "START" => Len(sent) >= Depth + 3)
  BY <1>2, <1>11, <1>12
<1> QED
  BY <1>1, <1>2, <1>13 DEF Limits, Room

(* A clock keeps the bytes sent and not read in the stages, in order.      *)
LEMMA StoreNext ==
  ASSUME Drains, LinkType, NEW b \in Octets, Store(b), NEW nb, NEW byte, NEW rx_ready,
         byte \in Bytes \cup {NoByte}, StoreStep(byte, rx_ready),
         LinkType', nb \in Octets, RxEngine,
         Pushed \o (Held' \o Wired(nb)') = (Held \o Wired(b)) \o Added(byte)
  PROVE  Store(nb)'
<1>0. StoreType /\ Limits /\ sent = Out \o (Popped \o (fifo \o (Held \o Wired(b))))
      /\ rx_ready \in BOOLEAN /\ Reads(rx_ready)
  BY DEF Store, StoreStep
<1>1. /\ fifo' \in Seq(Word) /\ dout' \in Word /\ fifo_dout_valid' \in BOOLEAN
      /\ Popped' \o fifo' = fifo \o Pushed
      /\ IF rx_fifo_rd_en(rx_ready)
         THEN Len(fifo') = Len(fifo) - 1 + Len(Pushed) ELSE fifo' = fifo \o Pushed
  BY <1>0, FifoMoves DEF StoreStep
<1>2. out_valid' \in BOOLEAN /\ out_data' \in Word /\ Out' = Kept(rx_ready) \o Popped
  BY <1>0, OutMoves DEF StoreStep
<1>3. /\ Out \in Seq(Word) /\ Popped \in Seq(Word) /\ fifo \in Seq(Word)
      /\ Held \in Seq(Word) /\ Wired(b) \in Seq(Word) /\ Held \o Wired(b) \in Seq(Word)
  BY <1>0, Parts
<1>4. Pushed \in Seq(Word) /\ Added(byte) \in Seq(Word) /\ Kept(rx_ready) \in Seq(Word)
      /\ Popped' \in Seq(Word)
  <2>1. \A e \in Word : <<e>> \in Seq(Word)
    OBVIOUS
  <2>2. byte # NoByte => byte \in Word
    BY UartAssumption DEF Word
  <2> QED BY <2>1, <2>2, <1>1, <1>3, LinkWords DEF Added, Kept, Popped
<1>5. Held' \o Wired(nb)' \in Seq(Word)
  <2>1. rx'.buffer \in Word /\ rx'.bits \in Word
    BY DEF LinkType, RxType, Word
  <2>2. \A e \in Word : <<e>> \in Seq(Word)
    OBVIOUS
  <2>3. nb \in Word
    BY OctetWord
  <2>4. Held' \in Seq(Word) /\ Wired(nb)' \in Seq(Word)
    BY <2>1, <2>2, <2>3 DEF Held, Wired
  <2>5. PICK h, w : h = Held' /\ w = Wired(nb)'
    OBVIOUS
  <2>6. h \in Seq(Word) /\ w \in Seq(Word)
    BY <2>4, <2>5
  <2>7. h \o w \in Seq(Word)
    BY ONLY <2>6, ConcatProperties
  <2> QED BY <2>5, <2>7
<1>6. PICK k, o, p, f, u, y, z, a, p2, f2 :
        /\ k = Kept(rx_ready) /\ o = Out /\ p = Popped /\ f = fifo /\ u = Pushed
        /\ y = Held' \o Wired(nb)' /\ z = Held \o Wired(b) /\ a = Added(byte)
        /\ p2 = Popped' /\ f2 = fifo'
  OBVIOUS
<1>7. /\ k \in Seq(Word) /\ o \in Seq(Word) /\ p \in Seq(Word) /\ f \in Seq(Word)
      /\ u \in Seq(Word) /\ y \in Seq(Word) /\ z \in Seq(Word) /\ a \in Seq(Word)
      /\ p2 \in Seq(Word) /\ f2 \in Seq(Word)
  BY <1>1, <1>3, <1>4, <1>5, <1>6
<1>8. p2 \o f2 = f \o u /\ u \o y = z \o a
  BY <1>1, <1>6
<1>9. (k \o p) \o (p2 \o (f2 \o y)) = (k \o (p \o (f \o z))) \o a
  <2>1. p2 \o (f2 \o y) = (p2 \o f2) \o y
    <3>1. p2 \in Seq(Word) /\ f2 \in Seq(Word) /\ y \in Seq(Word)
      BY <1>7
    <3> QED BY ONLY <3>1, HeldPasses
  <2>2. (f \o u) \o y = f \o (u \o y)
    <3>1. f \in Seq(Word) /\ u \in Seq(Word) /\ y \in Seq(Word)
      BY <1>7
    <3> QED BY ONLY <3>1, HeldPasses
  <2>3. f \o (z \o a) = (f \o z) \o a
    <3>1. f \in Seq(Word) /\ z \in Seq(Word) /\ a \in Seq(Word)
      BY <1>7
    <3> QED BY ONLY <3>1, HeldPasses
  <2>4. PICK g : g = f \o z
    OBVIOUS
  <2>5. p2 \o (f2 \o y) = g \o a
    BY ONLY <2>1, <2>2, <2>3, <2>4, <1>8, Zenon
  <2>6. PICK h, q : h = g \o a /\ q = p \o g
    OBVIOUS
  <2>7. k \in Seq(Word) /\ p \in Seq(Word) /\ a \in Seq(Word) /\ g \in Seq(Word)
    BY ONLY <1>7, <2>4, ConcatProperties
  <2>8. h \in Seq(Word) /\ q \in Seq(Word)
    BY ONLY <2>7, <2>6, ConcatProperties
  <2>9. (k \o p) \o h = k \o (p \o h)
    BY ONLY <2>7, <2>8, HeldPasses
  <2>10. p \o (g \o a) = (p \o g) \o a
    BY ONLY <2>7, HeldPasses
  <2>11. k \o (q \o a) = (k \o q) \o a
    <3>1. k \in Seq(Word) /\ q \in Seq(Word) /\ a \in Seq(Word)
      BY ONLY <2>7, <2>8
    <3> QED BY ONLY <3>1, HeldPasses
  <2> QED
    BY ONLY <2>4, <2>5, <2>6, <2>9, <2>10, <2>11, Zenon
<1>10. PICK rest : rest = p \o (f \o z)
  OBVIOUS
<1>11. rest \in Seq(Word)
  BY ONLY <1>7, <1>10, ConcatProperties
<1>12. sent = o \o rest
  BY <1>0, <1>6, <1>10
<1>13. (IF rx_fire(rx_ready) /\ sent # <<>> THEN Tail(sent) ELSE sent) = k \o rest
  <2>1. CASE rx_fire(rx_ready)
    <3>1. o = <<out_data>> /\ k = <<>>
      BY <2>1, <1>6 DEF Out, Kept, rx_fire
    <3>2. out_data \in Word
      BY <1>0 DEF StoreType
    <3>3. <<out_data>> \o rest # <<>> /\ Tail(<<out_data>> \o rest) = rest
      BY <3>2, <1>11
    <3>4. <<>> \o rest = rest
      BY <1>11, ConcatEmptySeq
    <3> QED BY <2>1, <3>1, <3>3, <3>4, <1>12
  <2>2. CASE ~rx_fire(rx_ready)
    BY <2>2, <1>6, <1>12 DEF Kept
  <2> QED BY <2>1, <2>2
<1>14. sent' = (k \o rest) \o a
  BY <1>6, <1>13 DEF StoreStep
<1>15. sent' = Out' \o (Popped' \o (fifo' \o (Held' \o Wired(nb)')))
  BY <1>2, <1>6, <1>9, <1>10, <1>14
<1>16. sent' \in Seq(Word) /\ Len(sent') = Len(k) + Len(rest) + Len(a)
  <2>1. (k \o rest) \o a \in Seq(Word) /\ Len((k \o rest) \o a) = Len(k) + Len(rest) + Len(a)
    BY ONLY <1>7, <1>11, ConcatProperties
  <2> QED BY <2>1, <1>14
<1>17. StoreType'
  BY <1>1, <1>2, <1>16 DEF StoreType
<1>18. Len(sent') <= Depth + 2
  <2>1. Len(sent) = Len(o) + Len(rest)
    BY <1>7, <1>11, <1>12, ConcatProperties
  <2>2. Len(k) <= Len(o) /\ Len(k) \in Nat /\ Len(o) \in Nat /\ Len(rest) \in Nat
    BY <1>6, <1>7, <1>11 DEF Kept, Out
  <2>3. Len(a) = IF byte = NoByte THEN 0 ELSE 1
    BY <1>6 DEF Added
  <2>4. byte # NoByte => Len(sent) < Depth + 2
    BY DEF StoreStep, Room
  <2>5. Len(sent) <= Depth + 2 /\ Depth \in Nat
    BY <1>0, UartAssumption DEF Limits
  <2>6. PICK lk, lo, lr, la : lk = Len(k) /\ lo = Len(o) /\ lr = Len(rest) /\ la = Len(a)
    OBVIOUS
  <2>7. lk + lr + la <= Depth + 2
    BY <2>1, <2>2, <2>3, <2>4, <2>5, <2>6
  <2> QED BY <1>16, <2>6, <2>7
<1>19. /\ Pushed = <<>> \/ Len(Pushed) = 1
       /\ Len(Pushed) = 1 => Len(fifo) # Depth /\ rx.state = "HOLD" /\ rx'.state = "IDLE"
  <2>1. rx.valid => rx.state = "HOLD"
    BY DEF LinkType
  <2>2. CASE rx_fifo_wr_fire
    <3>1. rx.state = "HOLD" /\ ~full
      BY <2>1, <2>2 DEF rx_fifo_wr_fire
    <3>2. rx'.state = "IDLE"
      BY <3>1 DEF RxEngine, LinkType, RxType
    <3> QED BY <2>2, <3>1, <3>2 DEF Pushed, full
  <2>3. CASE ~rx_fifo_wr_fire
    BY <2>3 DEF Pushed
  <2> QED BY <2>2, <2>3
<1>20. Len(fifo) \in Nat /\ Len(fifo) <= Depth /\ Depth \in Nat
       /\ Len(<<>>) = 0 /\ (fifo # <<>> <=> Len(fifo) >= 1)
  BY <1>0, UartAssumption, EmptySeq DEF StoreType, Limits
<1>21. Len(fifo') = (IF rx_fifo_rd_en(rx_ready) THEN Len(fifo) - 1 ELSE Len(fifo)) + Len(Pushed)
       /\ (fifo' # <<>> <=> Len(fifo') >= 1)
  <2>1. Len(fifo \o Pushed) = Len(fifo) + Len(Pushed)
    BY <1>3, <1>4, ConcatProperties
  <2> QED BY <1>1, <2>1, EmptySeq
<1>22. PICK n, m, c : n = Len(fifo) /\ m = Len(fifo') /\ c = Len(Pushed)
  OBVIOUS
<1>23. /\ n \in 0..Depth /\ c \in 0..1
       /\ c = 1 => n # Depth /\ rx.state = "HOLD" /\ rx'.state = "IDLE"
       /\ m = (IF rx_fifo_rd_en(rx_ready) THEN n - 1 ELSE n) + c
       /\ fifo # <<>> <=> n >= 1
       /\ fifo' # <<>> <=> m >= 1
  BY <1>19, <1>20, <1>21, <1>22
<1>24. /\ fifo_dout_valid' <=> (~out_valid \/ rx_ready) /\ n >= 1
       /\ out_valid' <=> fifo_dout_valid \/ (out_valid /\ ~rx_ready)
       /\ reading' <=> rx_ready
       /\ m = (IF (~out_valid \/ rx_ready) /\ n >= 1 THEN n - 1 ELSE n) + c
  <2>1. rx_fifo_rd_en(rx_ready) <=> (~out_valid \/ rx_ready) /\ n >= 1
    BY <1>23 DEF rx_fifo_rd_en, rx_fire
  <2>2. rx_fire(rx_ready) <=> out_valid /\ rx_ready
    BY DEF rx_fire
  <2> QED BY <1>23, <2>1, <2>2 DEF StoreStep, Fifo, OutputStage
<1>25. /\ n >= 1 /\ ~out_valid /\ ~fifo_dout_valid => n = 1 /\ rx.state = "IDLE"
       /\ fifo_dout_valid /\ (out_valid \/ n >= 1) => reading
       /\ reading /\ (n >= 1 \/ out_valid) => rx_ready
  BY <1>0, <1>22, <1>23 DEF Limits, Reads, rx_fifo_empty
<1>26. m <= Depth
  BY <1>20, <1>23, <1>24
<1>27. ASSUME m >= 1, ~out_valid', ~fifo_dout_valid' PROVE m = 1 /\ rx'.state = "IDLE"
  <2>1. n = 0
    BY <1>20, <1>23, <1>24, <1>27
  <2>2. c = 1 /\ m = 1
    BY <2>1, <1>23, <1>24, <1>27
  <2> QED BY <2>2, <1>23
<1>28. ASSUME fifo_dout_valid', out_valid' \/ m >= 1 PROVE reading'
  <2>1. n >= 1 /\ (~out_valid \/ rx_ready)
    BY <1>24, <1>28
  <2>2. CASE fifo_dout_valid
    BY <2>1, <2>2, <1>24, <1>25
  <2>3. CASE ~fifo_dout_valid /\ ~out_valid
    <3>1. n = 1 /\ rx.state = "IDLE"
      BY <2>1, <2>3, <1>25
    <3>2. c = 0
      BY <3>1, <1>23
    <3>3. m = 0
      BY <3>1, <3>2, <2>3, <1>24
    <3> QED BY <3>3, <2>3, <1>24, <1>28
  <2>4. CASE out_valid
    BY <2>1, <2>4, <1>24
  <2> QED BY <2>2, <2>3, <2>4
<1>29. Len(fifo') <= Depth
       /\ (fifo' # <<>> /\ ~out_valid' /\ ~fifo_dout_valid' => Len(fifo') = 1 /\ rx'.state = "IDLE")
       /\ (fifo_dout_valid' /\ (out_valid' \/ fifo' # <<>>) => reading')
  BY <1>22, <1>23, <1>26, <1>27, <1>28
<1> QED
  BY <1>15, <1>17, <1>18, <1>29 DEF Store, Limits

(* Every step of Next is a step of the link and one of the store.          *)
LEMMA Clocks ==
  ASSUME Next
  PROVE  \E byte \in Bytes \cup {NoByte}, spike \in BOOLEAN, rx_ready \in BOOLEAN :
           LinkStep(byte, spike) /\ StoreStep(byte, rx_ready)
<1>1. ASSUME NEW byte \in Bytes \cup {NoByte}, NEW spike \in BOOLEAN, NEW rx_ready \in BOOLEAN,
             Reads(rx_ready), Clock(byte, spike, rx_ready),
             byte # NoByte => Sends(byte) /\ ~spike, spike => Spikes
      PROVE  LinkStep(byte, spike) /\ StoreStep(byte, rx_ready)
  <2>1. LinkStep(byte, spike)
    BY <1>1 DEF LinkStep, LinkClock, Wire, Clock, Sends, Spikes
  <2>2. StoreStep(byte, rx_ready)
    BY <1>1 DEF StoreStep, Clock, Sends, Added
  <2> QED BY <2>1, <2>2
<1>2. PICK rx_ready \in BOOLEAN :
        /\ Reads(rx_ready)
        /\ \/ \E byte \in Bytes : Sends(byte) /\ Clock(byte, FALSE, rx_ready)
           \/ Spikes /\ Clock(NoByte, TRUE, rx_ready)
           \/ Clock(NoByte, FALSE, rx_ready)
  BY DEF Next
<1>3. ASSUME NEW byte \in Bytes, Sends(byte), Clock(byte, FALSE, rx_ready)
      PROVE  LinkStep(byte, FALSE) /\ StoreStep(byte, rx_ready)
  BY <1>1, <1>2, <1>3
<1>4. ASSUME Spikes, Clock(NoByte, TRUE, rx_ready)
      PROVE  LinkStep(NoByte, TRUE) /\ StoreStep(NoByte, rx_ready)
  BY <1>1, <1>2, <1>4
<1>5. ASSUME Clock(NoByte, FALSE, rx_ready)
      PROVE  LinkStep(NoByte, FALSE) /\ StoreStep(NoByte, rx_ready)
  BY <1>1, <1>2, <1>5
<1> QED
  BY <1>2, <1>3, <1>4, <1>5

(* The invariant holds in every initial state.                             *)
LEMMA Starts ==
  ASSUME Fits, Init PROVE IInv
<1>1. rates \in Rates
  BY DEF Init
<1>2. Sizes
  BY <1>1, FitsSizes
<1>3. BaudOK(tx_baud, D1) /\ BaudOK(rx_baud, D2)
  <2>1. PICK i \in 0..D1 - 1, j \in 0..D2 - 1 :
          tx_baud = [cnt |-> i, tick |-> FALSE] /\ rx_baud = [cnt |-> j, tick |-> FALSE]
    BY DEF Init, D1, D2
  <2> QED BY <2>1, <1>2 DEF BaudOK, BaudType, Sizes
<1>4. /\ tx.state = "IDLE" /\ tx.tick = 0 /\ tx \in TxType
      /\ rx.state = "IDLE" /\ rx.tick = 0 /\ ~rx.valid /\ ~rx.start_valid /\ rx \in RxType
  BY UartAssumption DEF Init, TxType, RxType
<1>5. LinkType
  BY <1>1, <1>3, <1>4 DEF LinkType, Init
<1>6. Resting
  BY <1>4 DEF Resting, Init
<1>7. PICK b \in Octets : b = [i \in 1..DataBits |-> TRUE]
  BY DEF Octets
<1>8. Out = <<>> /\ Popped = <<>> /\ Held = <<>> /\ Wired(b) = <<>> /\ fifo = <<>> /\ sent = <<>>
  BY <1>4 DEF Out, Popped, Held, Wired, OnWire, Init
<1>9. StoreType
  <2>1. NoByte \in Word /\ <<>> \in Seq(Word)
    BY DEF Word
  <2> QED BY <2>1 DEF StoreType, Init
<1>10. Limits
  BY UartAssumption DEF Limits, Init
<1>11. <<>> \o (<<>> \o (<<>> \o (<<>> \o <<>>))) = <<>>
  OBVIOUS
<1>12. Store(b)
  BY <1>8, <1>9, <1>10, <1>11 DEF Store
<1> QED
  BY <1>5, <1>6, <1>12 DEF IInv, Link

(* Every step keeps the invariant.                                         *)
LEMMA Steps ==
  ASSUME Fits, IInv, [Next]_vars PROVE IInv'
<1>0. Drains
  BY DEF Fits
<1>1. LinkType
  BY DEF IInv
<1>2. PICK b \in Octets : Link(b) /\ Store(b)
  BY DEF IInv
<1>3. CASE Next
  <2>1. PICK byte \in Bytes \cup {NoByte}, spike \in BOOLEAN, rx_ready \in BOOLEAN :
          LinkStep(byte, spike) /\ StoreStep(byte, rx_ready)
    BY <1>3, Clocks
  <2>2. rx.state = "HOLD" /\ full => byte = NoByte /\ tx.state # "START"
    BY <1>1, <1>2, <2>1, FullWaits DEF StoreStep
  <2> DEFINE nb == IF byte = NoByte THEN b ELSE byte
  <2>3. /\ nb \in Octets /\ Link(nb)'
        /\ Pushed \o (Held' \o Wired(nb)') = (Held \o Wired(b)) \o Added(byte)
    BY <1>1, <1>2, <2>1, <2>2, LinkNext
  <2>4. LinkType'
    BY <1>1, <1>2, <2>1, LinkTypeStep
  <2>5. RxEngine
    BY <2>1 DEF LinkStep, LinkClock
  <2>6. Store(nb)'
    BY <1>0, <1>1, <1>2, <2>1, <2>3, <2>4, <2>5, StoreNext
  <2>7. PICK nc : nc = nb
    OBVIOUS
  <2> HIDE DEF nb
  <2>8. nc \in Octets /\ Link(nc)' /\ Store(nc)'
    BY <2>3, <2>6, <2>7
  <2>9. Octets' = Octets
    BY DEF Octets
  <2> QED BY <2>4, <2>8, <2>9 DEF IInv
<1>4. CASE UNCHANGED vars
  <2>1. SameSizes
    BY <1>4, Unchanging DEF vars
  <2>2. /\ tx_baud' = tx_baud /\ rx_baud' = rx_baud /\ tx' = tx /\ rx' = rx
        /\ uart_rx_ff1' = uart_rx_ff1 /\ uart_rx_ff2' = uart_rx_ff2 /\ rates' = rates
    BY <1>4 DEF vars, link
  <2>3. /\ fifo' = fifo /\ dout' = dout /\ fifo_dout_valid' = fifo_dout_valid
        /\ out_valid' = out_valid /\ out_data' = out_data
        /\ reading' = reading /\ sent' = sent
    BY <1>4 DEF vars, store
  <2>4. D1' = D1 /\ D2' = D2 /\ B1' = B1 /\ B2' = B2 /\ L1' = L1 /\ L2' = L2
    BY <2>1, <2>2 DEF SameSizes, L1, L2, Left
  <2>5. LinkType'
    BY <1>1, <2>2, <2>4 DEF LinkType, BaudOK, TxType, RxType
  <2>6. Resting = Resting' /\ Ending = Ending'
    BY <2>2, <2>4 DEF Resting, Ending, Regular
  <2>7. Calling(b) = Calling(b)'
    BY <2>2, <2>4 DEF Calling, Regular
  <2>8. Receiving(b) = Receiving(b)'
    BY <2>1, <2>2, <2>4
    DEF Receiving, Regular, SameSizes, Frame, TxOK, RxOK, TxLeft, RxLeft, Seen
  <2>9. Link(b)'
    BY <1>2, <2>6, <2>7, <2>8 DEF Link
  <2>10. Held' = Held /\ Wired(b)' = Wired(b) /\ Out' = Out /\ Popped' = Popped
    BY <2>2, <2>3 DEF Held, Wired, OnWire, Out, Popped
  <2>11. StoreType' /\ Limits'
    BY <1>2, <2>2, <2>3 DEF Store, StoreType, Limits
  <2>12. Store(b)'
    BY <1>2, <2>3, <2>10, <2>11 DEF Store
  <2>13. Octets' = Octets
    BY DEF Octets
  <2> QED BY <2>5, <2>9, <2>12, <2>13 DEF IInv
<1> QED
  BY <1>3, <1>4

(* Whatever the phases of the two baud clocks, however closely bytes       *)
(* follow each other, and whatever spikes pass on the idle line, what a    *)
(* reader that drains the FIFO is offered is the oldest byte sent that it  *)
(* has not read: for rates that fit and every depth, byte length, number   *)
(* of ticks to a bit and reader.                                           *)
THEOREM Offers == Fits => (Spec => []OffersNext)
<1>1. ASSUME IInv PROVE OffersNext
  <2>1. PICK b \in Octets : Store(b)
    BY <1>1 DEF IInv
  <2>2. LinkType /\ StoreType /\ sent = Out \o (Popped \o (fifo \o (Held \o Wired(b))))
    BY <1>1, <2>1 DEF IInv, Store
  <2>3. PICK r : r = Popped \o (fifo \o (Held \o Wired(b)))
    OBVIOUS
  <2>4. r \in Seq(Word)
    <3>1. PICK p, f, y : p = Popped /\ f = fifo /\ y = Held \o Wired(b)
      OBVIOUS
    <3>2. p \in Seq(Word) /\ f \in Seq(Word) /\ y \in Seq(Word)
      BY <2>2, <3>1, Parts
    <3>3. p \o (f \o y) \in Seq(Word)
      BY ONLY <3>2, ConcatProperties
    <3> QED BY <2>3, <3>1, <3>3
  <2>5. ASSUME out_valid PROVE sent # <<>> /\ out_data = Head(sent)
    <3>1. sent = <<out_data>> \o r /\ out_data \in Word
      BY <2>2, <2>3, <2>5 DEF Out, StoreType
    <3> QED BY <2>4, <3>1
  <2> QED BY <2>5 DEF OffersNext
<1> QED
  <2>1. ASSUME Fits PROVE Spec => []OffersNext
    <3>1. Init => IInv
      BY <2>1, Starts
    <3>2. IInv /\ [Next]_vars => IInv'
      BY <2>1, Steps
    <3> QED BY <1>1, <3>1, <3>2, PTL DEF Spec
  <2> QED BY <2>1

(* In particular two ports with the same divisor, of at least three clocks *)
(* to a baud tick, understand each other, with any number of bits to a     *)
(* byte.                                                                   *)
THEOREM EqualRates ==
  Ticks >= 4 /\ Drains
  /\ (\A r \in Rates : div_eff(r[1]) = div_eff(r[2]) /\ div_eff(r[1]) >= 3)
    => (Spec => []OffersNext)
<1> SUFFICES ASSUME Ticks >= 4, Drains,
                    \A r \in Rates : div_eff(r[1]) = div_eff(r[2]) /\ div_eff(r[1]) >= 3
             PROVE  Fits
  BY Offers
<1>1. ASSUME NEW r \in Rates
      PROVE  LET d == div_eff(r[1])
             IN (DataBits + 1) * (Ticks * d - Ticks * d) + d + (Ticks - Ticks \div 2) * d
                  <= Ticks * d + 1
  <2>1. PICK d : d = div_eff(r[1])
    OBVIOUS
  <2>2. d \in Nat
    <3>1. r[1] \in Nat
      BY UartAssumption
    <3> QED BY <2>1, <3>1 DEF div_eff, DEFAULT_DIV_X16
  <2>3. PICK h \in Nat, g \in Nat : h = Ticks \div 2 /\ g = Ticks - h /\ h >= 2 /\ Ticks = g + h
    <3>1. /\ Ticks \div 2 \in Nat /\ Ticks - Ticks \div 2 \in Nat /\ Ticks \div 2 >= 2
          /\ Ticks = (Ticks - Ticks \div 2) + Ticks \div 2
      BY UartAssumption
    <3> QED BY <3>1
  <2>4. Ticks * d = g * d + h * d /\ g * d \in Nat /\ h * d \in Nat
    BY <2>2, <2>3
  <2>5. h * d >= d
    <3>1. PICK i \in Nat : h = 1 + i
      <4>1. h - 1 \in Nat /\ h = 1 + (h - 1)
        BY <2>3
      <4> QED BY <4>1
    <3>2. h * d = d + i * d /\ i * d \in Nat
      BY <2>2, <3>1
    <3> QED BY <2>2, <3>2
  <2>6. (DataBits + 1) * (Ticks * d - Ticks * d) = 0
    <3>1. Ticks * d - Ticks * d = 0
      BY <2>2, UartAssumption
    <3> QED BY <3>1, UartAssumption
  <2>7. (Ticks - Ticks \div 2) * d = g * d
    BY <2>3
  <2>8. (DataBits + 1) * (Ticks * d - Ticks * d) + d + (Ticks - Ticks \div 2) * d
          <= Ticks * d + 1
    BY <2>2, <2>4, <2>5, <2>6, <2>7
  <2> QED BY <2>1, <2>8
<1>2. \A r \in Rates : div_eff(r[2]) <= div_eff(r[1])
  <2>1. ASSUME NEW r \in Rates PROVE div_eff(r[1]) \in Nat
    <3>1. r[1] \in Nat
      BY UartAssumption
    <3> QED BY <3>1 DEF div_eff, DEFAULT_DIV_X16
  <2> QED BY <2>1
<1>3. RatesFit
  BY <1>1, <1>2 DEF RatesFit
<1> QED
  BY <1>3 DEF Fits

=============================================================================
