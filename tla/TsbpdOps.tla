------------------------------ MODULE TsbpdOps ------------------------------
(***************************************************************************)
(* The class tsbpd of app/tsbpd.hpp and app/tsbpd.cpp as a value.  Times   *)
(* are whole microseconds; a timestamp is the remote's clock modulo        *)
(* TIMESTAMPS, and a base of 0 means that there was no ACKACK yet.         *)
(***************************************************************************)
EXTENDS DriftTracerOps, Timestamps

NewTsbpd == [base |-> 0, wrapCheck |-> FALSE, first_rtt |-> 0, tracer |-> NewTracer]

get_pkt_time_base(p, ts) ==
  p.base + IF p.wrapCheck /\ ts < TSBPD_WRAP_PERIOD THEN TIMESTAMPS ELSE 0

\* Mutant: the wrap period ends and the base stays.
updateTsbPdWrapOnly(p, ts) ==
  IF p.wrapCheck
  THEN [p EXCEPT !.wrapCheck = ts \notin TSBPD_WRAP_PERIOD .. 2 * TSBPD_WRAP_PERIOD]
  ELSE [p EXCEPT !.wrapCheck = ts >= TIMESTAMPS - TSBPD_WRAP_PERIOD]

\* Mutant: the base moves and the wrap period does not end.
updateTsbPdForEver(p, ts) ==
  IF p.wrapCheck
  THEN IF ts \in TSBPD_WRAP_PERIOD .. 2 * TSBPD_WRAP_PERIOD
       THEN [p EXCEPT !.base = @ + TIMESTAMPS]
       ELSE p
  ELSE [p EXCEPT !.wrapCheck = ts >= TIMESTAMPS - TSBPD_WRAP_PERIOD]

\* Mutant: MAX_TIMESTAMP is taken for the number of timestamps.
updateTsbPdOneLate(p, ts) ==
  IF p.wrapCheck
  THEN IF ts \in TSBPD_WRAP_PERIOD .. 2 * TSBPD_WRAP_PERIOD
       THEN [p EXCEPT !.wrapCheck = FALSE, !.base = @ + TIMESTAMPS]
       ELSE p
  ELSE [p EXCEPT !.wrapCheck = ts > TIMESTAMPS - TSBPD_WRAP_PERIOD]

\* The wrap period begins with a timestamp from the last 30 s of the clock and
\* ends with one between 30 s and 60 s.
updateTsbPdTimeBase(p, ts) ==
  IF p.wrapCheck
  THEN IF ts \in TSBPD_WRAP_PERIOD .. 2 * TSBPD_WRAP_PERIOD
       THEN [p EXCEPT !.wrapCheck = FALSE, !.base = @ + TIMESTAMPS]
       ELSE p
  ELSE [p EXCEPT !.wrapCheck = ts >= TIMESTAMPS - TSBPD_WRAP_PERIOD]

\* Mutant: the change of the whole round trip is taken off.
DriftSampleUnhalved(p, ts, rtt, recvtime) ==
  recvtime - (get_pkt_time_base(p, ts) + ts) - (rtt - p.first_rtt)

DriftSample(p, ts, rtt, recvtime) ==
  recvtime - (get_pkt_time_base(p, ts) + ts) - TruncDiv(rtt - p.first_rtt, 2)

IsFirst(p) == p.base = 0

\* The result of on_ackack.
Sampled(p, ts, rtt, recvtime) ==
  IF IsFirst(p) THEN 0 ELSE DriftSample(p, ts, rtt, recvtime)

\* The object after on_ackack.
OnAckAck(p, ts, rtt, recvtime) ==
  IF IsFirst(p)
  THEN [p EXCEPT !.base = recvtime - ts, !.first_rtt = rtt]
  ELSE LET tracer == Update(p.tracer, DriftSample(p, ts, rtt, recvtime))
           shift  == IF CompletesSpan(p.tracer) THEN tracer.overdrift ELSE 0
       IN  updateTsbPdTimeBase([p EXCEPT !.tracer = tracer, !.base = @ + shift], ts)

=============================================================================
