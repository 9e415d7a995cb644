------------------------------- MODULE MCUart -------------------------------
(* Two bytes and two pairs of baud rates for TLC: equal, and a receiver    *)
(* that is a sixth faster.                                                 *)
EXTENDS Uart

MCBytes == {<<TRUE, FALSE>>, <<FALSE, TRUE>>}
MCRates == {<<3, 3>>, <<6, 5>>}
=============================================================================
