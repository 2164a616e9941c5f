-------------------------------- MODULE Tsbpd --------------------------------
(***************************************************************************)
(* g_tsbpd under the ACKACKs of one remote whose 32-bit clock wraps round, *)
(* the trace it leaves, and what the scripts make of that.  The remote's   *)
(* clock is kept without wrapping in `newest' (the highest send time of an *)
(* ACKACK so far); the packet shows it modulo TIMESTAMPS.                  *)
(*                                                                         *)
(* ACKACKs come in up to Reorder earlier, by their send time, than the     *)
(* newest one, and up to Gap later or, after an outage, one of Outages     *)
(* later.  The remote answers every ACK (10 ms), so 30 s hold some 3000 of *)
(* them.  A local clock reading is the send time plus ClockOffset plus the *)
(* delay of the packet.  The RTT is compensated only with --compensate-rtt;*)
(* it is logged in either mode.                                            *)
(*                                                                         *)
(* Bounds: MaxTime caps the remote clock, Delays and Rtts the inputs.      *)
(***************************************************************************)
EXTENDS TsbpdOps, TraceOps

CONSTANTS FirstTimes,    \* send times the first ACKACK may have
          MaxTime, Gap, Outages, Reorder,
          ClockOffset, StartTime,   \* StartTime: g_start_time_std
          Delays, Rtts

ASSUME EnvironmentAssumption ==
  /\ MaxTime \in Nat
  /\ FirstTimes \subseteq 0 .. MaxTime
  /\ Gap \in 1 .. TSBPD_WRAP_PERIOD
  /\ Outages \subseteq Nat
  /\ Reorder \in 0 .. TSBPD_WRAP_PERIOD - 1
  /\ ClockOffset \in Int /\ StartTime \in Int /\ Delays \subseteq Nat /\ Rtts \subseteq Int

\* A base of 0 stands for none: no base ever is 0 if the local clock is past its
\* zero, by half of what the RTTs differ in, when the remote's clock starts.
ASSUME ClockAssumption ==
  \A delay \in Delays, r, s \in Rtts : TruncDiv(r - s, 2) < ClockOffset + delay

VARIABLES compensate_rtt,   \* of the configuration, the same for the whole run
          tsbpd,      \* g_tsbpd
          newest,     \* highest send time seen, -1 before the first ACKACK
          anchor,     \* history: local minus remote time of the first ACKACK
          shifted,    \* history: the sum of the overdrifts logged so far
          early,      \* history: the first ACKACK was not from the end of a turn
          turned,     \* history: the remote clock has wrapped since the first ACKACK
          strayed,    \* history: one from the turn before the first one's came after it
          regular,    \* history: early, not strayed, and no outage hid a turn
          offline,    \* plot-drift-model.py after the last line of the trace
          off,        \* history: by how much that line is off
          exit        \* history: that line ended a wrap period

vars == <<compensate_rtt, tsbpd, newest, anchor, shifted, early, turned, strayed,
          regular, offline, off, exit>>

Init == /\ compensate_rtt \in BOOLEAN
        /\ tsbpd = NewTsbpd
        /\ newest = -1
        /\ anchor = 0 /\ shifted = 0
        /\ early = TRUE /\ turned = FALSE /\ strayed = FALSE /\ regular = TRUE
        /\ offline = [base |-> 0, rtt_base |-> 0, check |-> FALSE]
        /\ off = [base |-> 0, sample |-> 0, modelled |-> 0, plotted |-> 0, rtt |-> 0]
        /\ exit = FALSE

\* Mutant: the option is not looked at.
CompensatedAlways(rtt) == rtt

\* The RTT that on_ackack is given.
Compensated(rtt) == IF compensate_rtt THEN rtt ELSE 0

\* The line of an ACKACK in the trace.
LineOf(p, after, ts, rtt, recvtime) ==
  Line(recvtime - StartTime, ts, rtt, Sampled(p, ts, Compensated(rtt), recvtime),
       after.tracer.drift, after.tracer.overdrift, get_pkt_time_base(after, ts))

\* By how much a line is off, `before' and `since' being the sums of the
\* overdrifts above it and with it, and `script' the script when it comes to it:
\*   base      its base against the send time, the corrections counted in,
\*   sample    its sample against the base of the first ACKACK, likewise, with
\*             the half of an RTT change that the program takes off,
\*   modelled  its base against the base of the script,
\*   plotted   twice what plot-drift.py shows against the drift of the script,
\*   rtt       (no error) the change of the RTT that the script takes off.
Off(line, script, sendtime, first, half, before, since) ==
  LET Logged(name) == Column(line, name)
      std == sendtime + first
  IN  [ base     |-> Logged("TsbpdTimeBaseStd") + Logged("usAckAckTimestampStd")
                       - (std + since),
        sample   |-> Logged("usDriftSampleStd")
                       - (Logged("usElapsedStd") + StartTime - (std + before) - half),
        modelled |-> Logged("TsbpdTimeBaseStd")
                       - (StartTime + get_time_base(script, line) + since),
        plotted  |-> 2 * (Plotted(line, since) - Logged("usOverdriftStd"))
                       - TwiceDrift(script, line),
        rtt      |-> Logged("usRTTStd") - script.rtt_base ]

\* One ACKACK goes through on_ackack and into the trace.
Handle(sendtime, delay, rtt) ==
  LET ts == sendtime % TIMESTAMPS
      recvtime == sendtime + ClockOffset + delay
      after == OnAckAck(tsbpd, ts, Compensated(rtt), recvtime)
      half == TruncDiv(Compensated(rtt) - after.first_rtt, 2)
      line == LineOf(tsbpd, after, ts, rtt, recvtime)
      script == IF newest = -1 THEN FirstOffline(line) ELSE offline
  IN  /\ tsbpd' = after
      /\ shifted' = shifted + after.tracer.overdrift
      /\ offline' = ReadLine(script, line)
      /\ off' = Off(line, script, sendtime, anchor', half, shifted, shifted')
      /\ exit' = (tsbpd.wrapCheck /\ ~ after.wrapCheck)

\* The last 30 s of a turn are when its end is noticed.
AtEnd(t) == t % TIMESTAMPS >= TIMESTAMPS - TSBPD_WRAP_PERIOD

FirstAckAck(sendtime, delay, rtt) ==
  /\ newest = -1
  /\ newest' = sendtime
  /\ anchor' = ClockOffset + delay
  /\ early' = ~ AtEnd(sendtime)
  /\ regular' = early'
  /\ UNCHANGED <<compensate_rtt, turned, strayed>>
  /\ Handle(sendtime, delay, rtt)

\* Nothing is missed between two times of one turn if its first 30 s are over by
\* the one or the next 30 s are not over by the other.
Harmless(t, u) == /\ t \div TIMESTAMPS = u \div TIMESTAMPS
                  /\ \/ t % TIMESTAMPS >= TSBPD_WRAP_PERIOD
                     \/ u % TIMESTAMPS <= 2 * TSBPD_WRAP_PERIOD

NextAckAck(sendtime, delay, rtt) ==
  /\ newest # -1
  /\ sendtime >= 0 /\ sendtime <= MaxTime
  /\ newest' = IF sendtime > newest THEN sendtime ELSE newest
  /\ turned' = (turned \/ newest' \div TIMESTAMPS # newest \div TIMESTAMPS)
  /\ strayed' = ( \/ strayed
                  \/ ~ turned /\ sendtime \div TIMESTAMPS < newest \div TIMESTAMPS )
  /\ regular' = ( /\ regular /\ ~ strayed'
                  /\ sendtime - newest <= Gap \/ Harmless(newest, sendtime) )
  /\ UNCHANGED <<compensate_rtt, anchor, early>>
  /\ Handle(sendtime, delay, rtt)

Next == \E delay \in Delays, rtt \in Rtts :
          \/ \E sendtime \in FirstTimes : FirstAckAck(sendtime, delay, rtt)
          \/ \E d \in (-Reorder .. Gap) \cup Outages : NextAckAck(newest + d, delay, rtt)

Spec == Init /\ [][Next]_vars

-----------------------------------------------------------------------------
Started == newest # -1

\* The fields of g_tsbpd and of its tracer stay in range.
TypeOK ==
  /\ compensate_rtt \in BOOLEAN
  /\ tsbpd.base \in Int /\ tsbpd.wrapCheck \in BOOLEAN /\ tsbpd.first_rtt \in Int
  /\ tsbpd.tracer.span \in 0 .. MAX_SPAN - 1
  /\ tsbpd.tracer.overdrift \in {-MAX_DRIFT, 0, MAX_DRIFT}
  /\ newest \in -1 .. MaxTime
  /\ early \in BOOLEAN /\ turned \in BOOLEAN
  /\ strayed \in BOOLEAN /\ regular \in BOOLEAN

\* The base a packet is given accounts for every wrap of the remote's clock and
\* for every correction in the trace, no more and no less: the timestamp, its
\* logged base and the corrections give back the send time that did not wrap
\* (app/tsbpd.cpp:7-36, app/tsbpd.hpp:23-33).  Gaps of 30 s and less, and longer
\* ones that hide no end of a turn, make no difference.  A first ACKACK from the
\* start of a turn with one from the turn before it to follow does.
BaseFollowsClock == Started /\ regular => off.base = 0

\* Whatever the outages: a turn can be missed, as nothing in a packet tells of
\* it, but none is ever counted twice, or too early.  The exception is the turn
\* that the first ACKACK begins, when one from before it strays in afterwards:
\* it looks like the end of that turn, and the base is a turn ahead for good.
NeverAhead ==
  Started /\ ~ strayed => off.base <= 0 /\ off.base % TIMESTAMPS = 0

\* The drift of every packet is exact except for the one that ends a wrap
\* period: that one is measured against a base that has not been moved on and
\* against no carry, and comes out one full turn of the clock too high.
SampleExact ==
  Started /\ regular => off.sample = IF exit THEN TIMESTAMPS ELSE 0

-----------------------------------------------------------------------------
\* The base that plot-drift-model.py works out from the trace alone and the base
\* in the trace, the corrections taken off, are the same for every line, through
\* wraps, outages and missed turns (scripts/plot-drift-model.py:27-39).  If the
\* first line is from the end of a turn only the script takes notice.
OfflineAgrees == Started /\ early => off.modelled = 0

\* With --compensate-rtt plot-drift.py shows the drift of plot-drift-model.py, to
\* half a microsecond.  By default it shows more by exactly half of what the RTT
\* has risen since the first line: only the script takes that off, as it does not
\* know the option (app/start.cpp:129, scripts/plot-drift-model.py:50-52).  Two
\* kinds of line are apart: one that makes a correction, where the correction is
\* added to the sample it was made after (scripts/plot-drift.py:19), and one that
\* ends a wrap period, which is a turn higher.
PlotsAgree ==
  Started /\ early =>
    AbsInt( off.plotted - (IF exit THEN 2 * TIMESTAMPS ELSE 0)
                        - (IF compensate_rtt THEN 0 ELSE off.rtt) )
      <= IF compensate_rtt THEN 1 ELSE 0

-----------------------------------------------------------------------------
\* The model of scripts/plot-drift-model.py:27-39 moves the base on before it
\* measures: with the RTT compensated no sample would differ from its sample, the
\* corrections before the line taken into account.
SamplesAsModelled == Started /\ early /\ compensate_rtt => AbsInt(off.plotted) <= 1

=============================================================================
