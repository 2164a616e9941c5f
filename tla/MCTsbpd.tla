------------------------------ MODULE MCTsbpd ------------------------------
(* The time base under a wrapping remote clock (MCTsbpd.cfg), and the      *)
(* samples against those of the offline model (MCTsbpdExit.cfg).           *)
EXTENDS Tsbpd

\* At the start of the second turn, just before the last moments of the first one,
\* and in the very last of it.
MCFirstTimes == {TIMESTAMPS, TIMESTAMPS - 1 - TSBPD_WRAP_PERIOD, TIMESTAMPS - 1}
\* A tick more than a whole turn.
MCOutages == {10}
MCNoOutages == {}
MCAtStart == {0}
MCDelays == {0, 3}
\* The RTT of a miss, -1, and another: their half is not a whole number.
MCRtts == {-1, 2}
MCOneRtt == {2}
=============================================================================
