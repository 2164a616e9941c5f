---------------------------- MODULE TsbpdProofs ----------------------------
(***************************************************************************)
(* Proofs about Tsbpd: for every length of the remote's clock and of the   *)
(* wrap period, every span and correction, every delay, RTT and outage.    *)
(*                                                                         *)
(* Taken off the corrections and the distance of the two clocks, the base  *)
(* is the beginning of a turn of the remote's clock.  The argument follows *)
(* that turn (Held) against the one that the newest ACKACK is in.          *)
(***************************************************************************)
EXTENDS Tsbpd, TLAPS

-----------------------------------------------------------------------------
(* Turns of the remote's clock.                                            *)

\* When the turn that holds t began.
TurnOf(t) == t - (t % TIMESTAMPS)

\* A time is in its turn.
LEMMA TurnHolds ==
  ASSUME NEW t \in Int
  PROVE  /\ t % TIMESTAMPS \in 0 .. TIMESTAMPS - 1
         /\ TurnOf(t) \in Int /\ TurnOf(t) % TIMESTAMPS = 0
         /\ TurnOf(t) = TIMESTAMPS * (t \div TIMESTAMPS) /\ t \div TIMESTAMPS \in Int
         /\ TurnOf(t) <= t /\ t < TurnOf(t) + TIMESTAMPS
         /\ t = TurnOf(t) + (t % TIMESTAMPS)
  BY WrapAssumption DEF TurnOf

\* Two turns that are not the same are at least one turn apart.
LEMMA TurnsApart ==
  ASSUME NEW a \in Int, NEW b \in Int, a < b,
         a % TIMESTAMPS = 0, b % TIMESTAMPS = 0
  PROVE  a + TIMESTAMPS <= b
<1>1. TIMESTAMPS \in Nat \ {0}
  BY WrapAssumption
<1>2. PICK q \in Int : a = TIMESTAMPS * q
  BY <1>1
<1>3. PICK r \in Int : b = TIMESTAMPS * r
  BY <1>1
<1>4. q < r
  BY <1>1, <1>2, <1>3
<1>5. TIMESTAMPS * (q + 1) <= TIMESTAMPS * r
  BY <1>1, <1>4
<1> QED
  BY <1>1, <1>2, <1>3, <1>5

\* The turn after a turn, and the distance of two turns, are whole turns.
LEMMA TurnsAdd ==
  ASSUME NEW a \in Int, a % TIMESTAMPS = 0
  PROVE  /\ (a + TIMESTAMPS) % TIMESTAMPS = 0
         /\ \A b \in Int : b % TIMESTAMPS = 0 => (a - b) % TIMESTAMPS = 0
<1>1. TIMESTAMPS \in Nat \ {0}
  BY WrapAssumption
<1>2. PICK q \in Int : a = TIMESTAMPS * q
  BY <1>1
<1>3. a + TIMESTAMPS = TIMESTAMPS * (q + 1)
  BY <1>1, <1>2
<1>4. \A b \in Int : b % TIMESTAMPS = 0 => (a - b) % TIMESTAMPS = 0
  <2> SUFFICES ASSUME NEW b \in Int, b % TIMESTAMPS = 0
               PROVE  (a - b) % TIMESTAMPS = 0
    OBVIOUS
  <2>1. PICK r \in Int : b = TIMESTAMPS * r
    BY <1>1
  <2>2. a - b = TIMESTAMPS * (q - r)
    BY <1>1, <1>2, <2>1
  <2> QED
    BY <1>1, <2>2
<1>5. (TIMESTAMPS * (q + 1)) % TIMESTAMPS = 0
  BY <1>1
<1> QED
  BY <1>3, <1>4, <1>5

\* The order of turns is that of their numbers.
LEMMA TurnNumbers ==
  ASSUME NEW t \in Int, NEW u \in Int
  PROVE  /\ t \div TIMESTAMPS = u \div TIMESTAMPS <=> TurnOf(t) = TurnOf(u)
         /\ t \div TIMESTAMPS < u \div TIMESTAMPS <=> TurnOf(t) < TurnOf(u)
<1>1. TIMESTAMPS \in Nat \ {0}
  BY WrapAssumption
<1>2. \A q, r \in Int : /\ q = r <=> TIMESTAMPS * q = TIMESTAMPS * r
                        /\ q < r <=> TIMESTAMPS * q < TIMESTAMPS * r
  BY <1>1
<1>3. /\ t \div TIMESTAMPS \in Int /\ TurnOf(t) = TIMESTAMPS * (t \div TIMESTAMPS)
      /\ u \div TIMESTAMPS \in Int /\ TurnOf(u) = TIMESTAMPS * (u \div TIMESTAMPS)
  BY TurnHolds
<1> QED
  BY <1>2, <1>3

-----------------------------------------------------------------------------
(* The line of an ACKACK.                                                  *)

\* What is written under a name is read under it.
LEMMA ColumnsOfLine ==
  ASSUME NEW elapsed, NEW ts, NEW rtt, NEW sample, NEW drift, NEW overdrift, NEW base
  PROVE  LET line == Line(elapsed, ts, rtt, sample, drift, overdrift, base)
         IN  /\ Column(line, "usElapsedStd") = elapsed
             /\ Column(line, "usAckAckTimestampStd") = ts
             /\ Column(line, "usRTTStd") = rtt
             /\ Column(line, "usDriftSampleStd") = sample
             /\ Column(line, "usDriftStd") = drift
             /\ Column(line, "usOverdriftStd") = overdrift
             /\ Column(line, "TsbpdTimeBaseStd") = base
  BY DEF Column, Line, Header

-----------------------------------------------------------------------------
(* The object and the script as values.                                    *)

TracerType == [ drift : Int, overdrift : {-MAX_DRIFT, 0, MAX_DRIFT},
                sum : Int, span : 0 .. MAX_SPAN - 1 ]

TsbpdType == [base : Int, wrapCheck : BOOLEAN, first_rtt : Int, tracer : TracerType]

ScriptType == [base : Int, rtt_base : Int, check : BOOLEAN]

\* A timestamp that ends the wrap period.
Ends(check, ts) == check /\ ts \in TSBPD_WRAP_PERIOD .. 2 * TSBPD_WRAP_PERIOD

\* What it adds to the base, and what is added for a packet while it lasts.
Turn(check, ts) == IF Ends(check, ts) THEN TIMESTAMPS ELSE 0
Carry(check, ts) == IF check /\ ts < TSBPD_WRAP_PERIOD THEN TIMESTAMPS ELSE 0

\* Whether it lasts on.
Lasts(check, ts) == IF check THEN ~ Ends(check, ts)
                             ELSE ts >= TIMESTAMPS - TSBPD_WRAP_PERIOD

LEMMA TruncDivInt ==
  ASSUME NEW a \in Int, NEW n \in Nat \ {0}
  PROVE  TruncDiv(a, n) \in Int
  BY DEF TruncDiv

\* Halving rounds by at most a half.
LEMMA Halves ==
  ASSUME NEW a \in Int
  PROVE  TruncDiv(a, 2) \in Int /\ a - 2 * TruncDiv(a, 2) \in -1 .. 1
  BY DEF TruncDiv

\* The mean is no less than what each of the samples is at least.
LEMMA MeanAtLeast ==
  ASSUME NEW a \in Int, NEW n \in Nat \ {0}, NEW c \in Int, a >= n * c
  PROVE  TruncDiv(a, n) >= c
<1>1. CASE a >= 0
  <2> DEFINE q == a \div n
  <2>1. q \in Int /\ a < n * (q + 1)
    OBVIOUS
  <2>2. n * c < n * (q + 1)
    BY <2>1
  <2>3. c < q + 1
    BY <2>1, <2>2
  <2> QED
    BY <1>1, <2>1, <2>3 DEF TruncDiv
<1>2. CASE a < 0
  <2> DEFINE m == (-a) \div n
  <2>1. m \in Int /\ n * m <= -a
    OBVIOUS
  <2>2. n * c <= n * (-m)
    BY <2>1
  <2>3. c <= -m
    BY <2>1, <2>2
  <2> QED
    BY <1>2, <2>1, <2>3 DEF TruncDiv
<1> QED
  BY <1>1, <1>2

\* What a sample makes of the tracer.
LEMMA TracerUpdated ==
  ASSUME NEW t \in TracerType, NEW v \in Int
  PROVE  LET u == Update(t, v)
         IN  /\ u \in TracerType
             /\ ~ CompletesSpan(t) =>
                  u.overdrift = 0 /\ u.sum = t.sum + v /\ u.span = t.span + 1
             /\ CompletesSpan(t) =>
                  /\ u.sum = 0 /\ u.span = 0
                  /\ u.overdrift = Excess(TruncDiv(t.sum + v, t.span + 1))
<1> DEFINE u == Update(t, v)
           mean == MeanWith(t, v)
<1>1. /\ t.sum \in Int /\ t.span \in 0 .. MAX_SPAN - 1 /\ t.drift \in Int
      /\ t.sum + v \in Int /\ t.span + 1 \in Nat \ {0}
  BY SpanAssumption DEF TracerType
<1>2. CASE CompletesSpan(t)
  <2>1. mean \in Int /\ mean = TruncDiv(t.sum + v, t.span + 1)
    BY <1>1, TruncDivInt DEF MeanWith
  <2>2. Excess(mean) \in {-MAX_DRIFT, 0, MAX_DRIFT} /\ Excess(mean) \in Int
    BY MaxDriftAssumption DEF Excess
  <2>3. u = [drift |-> mean - Excess(mean), overdrift |-> Excess(mean), sum |-> 0, span |-> 0]
    BY <1>2 DEF Update
  <2> HIDE DEF mean, u
  <2>4. u \in TracerType
    BY <2>1, <2>2, <2>3, SpanAssumption DEF TracerType
  <2> QED
    BY <1>2, <2>1, <2>3, <2>4 DEF u
<1>3. CASE ~ CompletesSpan(t)
  <2>1. u = [t EXCEPT !.sum = @ + v, !.span = @ + 1, !.overdrift = 0]
    BY <1>3 DEF Update
  <2>2. t.span + 1 \in 0 .. MAX_SPAN - 1
    BY <1>1, <1>3, SpanAssumption DEF CompletesSpan
  <2> HIDE DEF u
  <2>3. u.sum = t.sum + v /\ u.span = t.span + 1 /\ u.overdrift = 0
    BY <2>1 DEF TracerType
  <2>4. u \in TracerType
    BY <1>1, <2>1, <2>2, MaxDriftAssumption DEF TracerType
  <2> QED
    BY <1>3, <2>3, <2>4 DEF u
<1> QED
  BY <1>2, <1>3

\* The first ACKACK sets the base and makes no correction.
LEMMA FirstHandled ==
  ASSUME NEW ts \in Int, NEW rtt \in Int, NEW recvtime \in Int
  PROVE  LET a == OnAckAck(NewTsbpd, ts, rtt, recvtime)
         IN  /\ a = [ base |-> recvtime - ts, wrapCheck |-> FALSE, first_rtt |-> rtt,
                      tracer |-> NewTracer ]
             /\ a \in TsbpdType
<1> DEFINE a == OnAckAck(NewTsbpd, ts, rtt, recvtime)
<1>1. a = [ base |-> recvtime - ts, wrapCheck |-> FALSE, first_rtt |-> rtt,
            tracer |-> NewTracer ]
  BY DEF OnAckAck, IsFirst, NewTsbpd
<1>2. NewTracer \in TracerType
  BY SpanAssumption, MaxDriftAssumption DEF NewTracer, TracerType
<1> HIDE DEF a
<1>3. a \in TsbpdType
  BY <1>1, <1>2 DEF TsbpdType
<1> QED
  BY <1>1, <1>3 DEF a

\* Every other one moves it by the correction that the trace shows, and by a
\* turn if it ends a wrap period.
LEMMA NextHandled ==
  ASSUME NEW p \in TsbpdType, p.base # 0,
         NEW ts \in Int, NEW rtt \in Int, NEW recvtime \in Int
  PROVE  LET a == OnAckAck(p, ts, rtt, recvtime)
         IN  /\ a \in TsbpdType
             /\ a.tracer = Update(p.tracer, DriftSample(p, ts, rtt, recvtime))
             /\ a.base = p.base + a.tracer.overdrift + Turn(p.wrapCheck, ts)
             /\ a.first_rtt = p.first_rtt
             /\ a.wrapCheck <=> Lasts(p.wrapCheck, ts)
<1> DEFINE v == DriftSample(p, ts, rtt, recvtime)
           t == Update(p.tracer, v)
           shift == IF CompletesSpan(p.tracer) THEN t.overdrift ELSE 0
           m == [p EXCEPT !.tracer = t, !.base = @ + shift]
           a == OnAckAck(p, ts, rtt, recvtime)
<1>1. /\ p.base \in Int /\ p.wrapCheck \in BOOLEAN /\ p.first_rtt \in Int
      /\ p.tracer \in TracerType
  BY DEF TsbpdType
<1>2. TIMESTAMPS \in Int /\ TSBPD_WRAP_PERIOD \in Int
  BY WrapAssumption
<1>3. get_pkt_time_base(p, ts) \in Int
  BY <1>1, <1>2 DEF get_pkt_time_base
<1>4. v \in Int
  BY <1>1, <1>3, TruncDivInt DEF DriftSample
<1>5. t \in TracerType /\ t.overdrift \in Int /\ shift = t.overdrift
  <2>1. t \in TracerType /\ (~ CompletesSpan(p.tracer) => t.overdrift = 0)
    BY <1>1, <1>4, TracerUpdated
  <2>2. t.overdrift \in Int
    BY <2>1, MaxDriftAssumption DEF TracerType
  <2> QED
    BY <2>1, <2>2
<1>6. a = updateTsbPdTimeBase(m, ts)
  BY DEF OnAckAck, IsFirst
<1> HIDE DEF v, t, shift
<1>7. /\ m \in TsbpdType /\ m.tracer = t /\ m.base = p.base + t.overdrift
      /\ m.first_rtt = p.first_rtt /\ m.wrapCheck = p.wrapCheck
  <2>1. p.base + shift \in Int
    BY <1>1, <1>5
  <2>2. m = [ base |-> p.base + shift, wrapCheck |-> p.wrapCheck,
              first_rtt |-> p.first_rtt, tracer |-> t ]
    <3>1. p = [ base |-> p.base, wrapCheck |-> p.wrapCheck,
                first_rtt |-> p.first_rtt, tracer |-> p.tracer ]
      BY DEF TsbpdType
    <3>2. m = [p EXCEPT !.tracer = t, !.base = p.base + shift]
      OBVIOUS
    <3> HIDE DEF m
    <3> QED
      BY <3>1, <3>2
  <2> HIDE DEF m
  <2> QED
    BY <1>1, <1>5, <2>1, <2>2 DEF TsbpdType
<1> HIDE DEF m, a
<1>8. CASE Ends(p.wrapCheck, ts)
  <2>1. a = [m EXCEPT !.wrapCheck = FALSE, !.base = @ + TIMESTAMPS]
    BY <1>6, <1>7, <1>8 DEF updateTsbPdTimeBase, Ends
  <2>2. /\ a \in TsbpdType /\ a.tracer = t /\ a.first_rtt = p.first_rtt
        /\ a.base = p.base + t.overdrift + TIMESTAMPS /\ ~ a.wrapCheck
    <3>1. m.base \in Int /\ m.base + TIMESTAMPS \in Int
      BY <1>1, <1>2, <1>5, <1>7
    <3>2. a = [ base |-> m.base + TIMESTAMPS, wrapCheck |-> FALSE,
                first_rtt |-> m.first_rtt, tracer |-> m.tracer ]
      BY <1>7, <2>1 DEF TsbpdType
    <3> QED
      BY <1>1, <1>5, <1>7, <3>1, <3>2 DEF TsbpdType
  <2>3. p.wrapCheck
    BY <1>8 DEF Ends
  <2> QED
    BY <1>8, <2>2, <2>3 DEF Turn, Lasts, a, t, v
<1>9. CASE ~ Ends(p.wrapCheck, ts) /\ p.wrapCheck
  <2>1. a = m
    BY <1>6, <1>7, <1>9 DEF updateTsbPdTimeBase, Ends
  <2>2. m.base = p.base + t.overdrift + 0
    BY <1>1, <1>5, <1>7
  <2>3. Turn(p.wrapCheck, ts) = 0 /\ Lasts(p.wrapCheck, ts)
    BY <1>9 DEF Turn, Lasts
  <2> QED
    BY <1>7, <1>9, <2>1, <2>2, <2>3 DEF a, t, v
<1>10. CASE ~ p.wrapCheck
  <2>1. a = [m EXCEPT !.wrapCheck = ts >= TIMESTAMPS - TSBPD_WRAP_PERIOD]
    BY <1>6, <1>7, <1>10 DEF updateTsbPdTimeBase
  <2>2. /\ a \in TsbpdType /\ a.tracer = t /\ a.first_rtt = p.first_rtt
        /\ a.base = p.base + t.overdrift + 0
        /\ a.wrapCheck <=> ts >= TIMESTAMPS - TSBPD_WRAP_PERIOD
    <3>1. m.base \in Int /\ m.base = p.base + t.overdrift + 0
      BY <1>1, <1>5, <1>7
    <3>2. a = [ base |-> m.base, wrapCheck |-> ts >= TIMESTAMPS - TSBPD_WRAP_PERIOD,
                first_rtt |-> m.first_rtt, tracer |-> m.tracer ]
      BY <1>7, <2>1 DEF TsbpdType
    <3>3. (ts >= TIMESTAMPS - TSBPD_WRAP_PERIOD) \in BOOLEAN
      OBVIOUS
    <3> HIDE DEF a
    <3> QED
      BY <1>1, <1>5, <1>7, <3>1, <3>2, <3>3 DEF TsbpdType
  <2>3. Turn(p.wrapCheck, ts) = 0
        /\ (Lasts(p.wrapCheck, ts) <=> ts >= TIMESTAMPS - TSBPD_WRAP_PERIOD)
    BY <1>10 DEF Turn, Lasts, Ends
  <2> QED
    BY <2>2, <2>3 DEF a, t, v
<1> QED
  BY <1>1, <1>8, <1>9, <1>10

\* The script does with a line what the program did with the packet.
LEMMA ScriptReads ==
  ASSUME NEW script \in ScriptType, NEW line, NEW ts \in Int,
         Column(line, "usAckAckTimestampStd") = ts
  PROVE  LET o == ReadLine(script, line)
         IN  /\ o \in ScriptType
             /\ o.base = script.base + Turn(script.check, ts)
             /\ o.rtt_base = script.rtt_base
             /\ o.check <=> Lasts(script.check, ts)
             /\ get_time_base(script, line) = o.base + Carry(script.check, ts)
<1> DEFINE o == ReadLine(script, line)
<1>1. /\ script.base \in Int /\ script.rtt_base \in Int /\ script.check \in BOOLEAN
      /\ script = [ base |-> script.base, rtt_base |-> script.rtt_base,
                    check |-> script.check ]
      /\ TIMESTAMPS \in Int
  BY WrapAssumption DEF ScriptType
<1>2. get_time_base(script, line) = o.base + Carry(script.check, ts)
  BY DEF get_time_base, Carry
<1>3. CASE Ends(script.check, ts)
  <2>1. o = [script EXCEPT !.check = FALSE, !.base = @ + TIMESTAMPS]
    BY <1>3 DEF ReadLine, Ends
  <2>2. o = [ base |-> script.base + TIMESTAMPS, rtt_base |-> script.rtt_base,
              check |-> FALSE ]
    BY <1>1, <2>1
  <2>3. script.check
    BY <1>3 DEF Ends
  <2> HIDE DEF o
  <2> QED
    BY <1>1, <1>2, <1>3, <2>2, <2>3 DEF Turn, Lasts, ScriptType, o
<1>4. CASE ~ Ends(script.check, ts) /\ script.check
  <2>1. o = script
    BY <1>4 DEF ReadLine, Ends
  <2>2. Turn(script.check, ts) = 0 /\ Lasts(script.check, ts)
    BY <1>4 DEF Turn, Lasts
  <2> HIDE DEF o
  <2>3. o.base = script.base + Turn(script.check, ts)
    BY <1>1, <2>1, <2>2
  <2>4. o.check <=> Lasts(script.check, ts)
    BY <1>4, <2>1, <2>2, Zenon
  <2> QED
    BY <1>2, <2>1, <2>3, <2>4 DEF o
<1>5. CASE ~ script.check
  <2>1. o = [script EXCEPT !.check = ts >= TIMESTAMPS - TSBPD_WRAP_PERIOD]
    BY <1>5 DEF ReadLine
  <2>2. o = [ base |-> script.base, rtt_base |-> script.rtt_base,
              check |-> ts >= TIMESTAMPS - TSBPD_WRAP_PERIOD ]
    BY <1>1, <2>1
  <2>3. /\ Turn(script.check, ts) = 0
        /\ Lasts(script.check, ts) <=> ts >= TIMESTAMPS - TSBPD_WRAP_PERIOD
    BY <1>5 DEF Turn, Lasts, Ends
  <2>4. (ts >= TIMESTAMPS - TSBPD_WRAP_PERIOD) \in BOOLEAN
    OBVIOUS
  <2> HIDE DEF o
  <2>5. o \in ScriptType
    BY <1>1, <2>2, <2>4 DEF ScriptType
  <2>6. o.base = script.base + Turn(script.check, ts) /\ o.rtt_base = script.rtt_base
    BY <1>1, <2>2, <2>3
  <2>7. o.check = (ts >= TIMESTAMPS - TSBPD_WRAP_PERIOD)
    BY <2>2
  <2>8. o.check <=> Lasts(script.check, ts)
    BY <2>3, <2>7, Zenon
  <2> QED
    BY <1>2, <2>5, <2>6, <2>8 DEF o
<1> QED
  BY <1>1, <1>3, <1>4, <1>5

\* The columns of the line of an ACKACK.
LEMMA LineColumns ==
  ASSUME NEW p, NEW a, NEW ts, NEW rtt, NEW recvtime
  PROVE  LET line == LineOf(p, a, ts, rtt, recvtime)
         IN  /\ Column(line, "usElapsedStd") = recvtime - StartTime
             /\ Column(line, "usAckAckTimestampStd") = ts
             /\ Column(line, "usRTTStd") = rtt
             /\ Column(line, "usDriftSampleStd") = Sampled(p, ts, Compensated(rtt), recvtime)
             /\ Column(line, "usOverdriftStd") = a.tracer.overdrift
             /\ Column(line, "TsbpdTimeBaseStd") = a.base + Carry(a.wrapCheck, ts)
<1>1. get_pkt_time_base(a, ts) = a.base + Carry(a.wrapCheck, ts)
  BY DEF get_pkt_time_base, Carry
<1> QED
  BY <1>1, ColumnsOfLine DEF LineOf

-----------------------------------------------------------------------------
(* The invariant.                                                          *)

\* The turn that the base stands for, the corrections taken off.
Held == tsbpd.base - anchor - shifted

Types ==
  /\ compensate_rtt \in BOOLEAN
  /\ tsbpd \in TsbpdType
  /\ newest \in -1 .. MaxTime
  /\ anchor \in Int /\ shifted \in Int
  /\ early \in BOOLEAN /\ turned \in BOOLEAN /\ strayed \in BOOLEAN /\ regular \in BOOLEAN
  /\ offline \in ScriptType

\* The RTTs that on_ackack is given.
Given == IF compensate_rtt THEN Rtts ELSE {0}

\* There is no base before the first ACKACK and a positive one after it: every
\* sample says that the base should be at least 1, and so does their sum.
BaseSet ==
  IF Started
  THEN /\ tsbpd.base >= 1 /\ tsbpd.first_rtt \in Given
       /\ tsbpd.tracer.sum >= tsbpd.tracer.span * (1 - tsbpd.base)
       /\ tsbpd.wrapCheck => newest >= TIMESTAMPS - TSBPD_WRAP_PERIOD
  ELSE tsbpd = NewTsbpd /\ shifted = 0 /\ ~ turned /\ ~ strayed

\* The base stands for a turn, and not for one to come.  If it is the newest one,
\* then no ACKACK that is still to come can be taken for the end of it too early.
Behind ==
  Started =>
    /\ Held % TIMESTAMPS = 0
    /\ ~ strayed =>
         /\ Held <= TurnOf(newest)
         /\ Held = TurnOf(newest) =>
              IF tsbpd.wrapCheck
              THEN AtEnd(newest)
              ELSE newest % TIMESTAMPS >= TSBPD_WRAP_PERIOD \/ ~ turned

\* With nothing missed it stands for the newest turn, or for the one before while
\* the first 30 s of the newest are not over; the wrap period is those and the
\* 30 s before them.
OnTime ==
  Started /\ regular =>
    /\ early /\ ~ strayed
    /\ IF tsbpd.wrapCheck
       THEN \/ Held = TurnOf(newest) /\ AtEnd(newest)
            \/ /\ Held = TurnOf(newest) - TIMESTAMPS
               /\ newest % TIMESTAMPS < TSBPD_WRAP_PERIOD
       ELSE Held = TurnOf(newest) /\ ~ AtEnd(newest)

\* The script goes along with the program.
Alike ==
  Started /\ early =>
    /\ offline.base + StartTime + shifted = tsbpd.base
    /\ compensate_rtt => offline.rtt_base = tsbpd.first_rtt
    /\ offline.check <=> tsbpd.wrapCheck

Inv == Types /\ BaseSet /\ Behind /\ OnTime /\ Alike

\* What the properties say of the last line.
LineOK == BaseFollowsClock /\ NeverAhead /\ SampleExact /\ OfflineAgrees /\ PlotsAgree

-----------------------------------------------------------------------------
(* What a step does, in terms of turns.                                    *)

\* The constants and the inputs are integers.
LEMMA InputTypes ==
  ASSUME NEW sendtime \in Int, NEW delay \in Delays, NEW rtt \in Rtts
  PROVE  /\ TIMESTAMPS \in Int /\ TSBPD_WRAP_PERIOD \in Int
         /\ StartTime \in Int /\ ClockOffset \in Int /\ delay \in Int /\ rtt \in Int
         /\ sendtime % TIMESTAMPS \in Int
         /\ sendtime + ClockOffset + delay \in Int
<1>1. /\ TIMESTAMPS \in Int /\ TSBPD_WRAP_PERIOD \in Int
      /\ StartTime \in Int /\ ClockOffset \in Int /\ delay \in Int /\ rtt \in Int
  BY WrapAssumption, EnvironmentAssumption
<1>2. sendtime % TIMESTAMPS \in Int
  BY TurnHolds
<1> QED
  BY <1>1, <1>2

\* What on_ackack is given, and how far the half of its change goes.
LEMMA GivenRtt ==
  ASSUME Types, NEW delay \in Delays, NEW rtt \in Rtts
  PROVE  /\ Compensated(rtt) \in Given /\ Compensated(rtt) \in Int
         /\ \A first \in Given : /\ first \in Int
                                /\ TruncDiv(Compensated(rtt) - first, 2) < ClockOffset + delay
<1>1. rtt \in Int
  BY EnvironmentAssumption
<1>2. CASE compensate_rtt
  <2>1. Given = Rtts /\ Compensated(rtt) = rtt
    BY <1>2 DEF Given, Compensated
  <2> QED
    BY <1>1, <2>1, ClockAssumption, EnvironmentAssumption
<1>3. CASE ~ compensate_rtt
  <2>1. Given = {0} /\ Compensated(rtt) = 0
    BY <1>3 DEF Given, Compensated
  <2>2. TruncDiv(rtt - rtt, 2) < ClockOffset + delay
    BY ClockAssumption
  <2>3. rtt - rtt = 0
    BY <1>1
  <2>4. TruncDiv(0 - 0, 2) < ClockOffset + delay
    BY <2>2, <2>3
  <2> QED
    BY <2>1, <2>4
<1> QED
  BY <1>2, <1>3 DEF Types

\* A later ACKACK: the base moves by the correction in the trace and by a turn if
\* the wrap period ends; the script's moves by that turn.
LEMMA NextFacts ==
  ASSUME Inv, NEW sendtime \in Int, NEW delay \in Delays, NEW rtt \in Rtts,
         NextAckAck(sendtime, delay, rtt)
  PROVE  LET ts == sendtime % TIMESTAMPS
         IN  /\ Started /\ Started' /\ Types'
             /\ tsbpd'.tracer = Update(tsbpd.tracer,
                  DriftSample(tsbpd, ts, Compensated(rtt), sendtime + ClockOffset + delay))
             /\ tsbpd'.base = tsbpd.base + tsbpd'.tracer.overdrift + Turn(tsbpd.wrapCheck, ts)
             /\ tsbpd'.first_rtt = tsbpd.first_rtt
             /\ tsbpd'.wrapCheck <=> Lasts(tsbpd.wrapCheck, ts)
             /\ shifted' = shifted + tsbpd'.tracer.overdrift
             /\ Held' = Held + Turn(tsbpd.wrapCheck, ts)
             /\ offline'.base = offline.base + Turn(offline.check, ts)
             /\ offline'.rtt_base = offline.rtt_base
             /\ offline'.check <=> Lasts(offline.check, ts)
             /\ exit' <=> Ends(tsbpd.wrapCheck, ts)
<1> DEFINE ts == sendtime % TIMESTAMPS
           recvtime == sendtime + ClockOffset + delay
           used == Compensated(rtt)
           line == LineOf(tsbpd, tsbpd', ts, rtt, recvtime)
<1>1. /\ newest # -1 /\ sendtime \in 0 .. MaxTime /\ newest \in -1 .. MaxTime
      /\ newest' = IF sendtime > newest THEN sendtime ELSE newest
  BY EnvironmentAssumption DEF NextAckAck, Inv, Types
<1>2. /\ tsbpd' = OnAckAck(tsbpd, ts, used, recvtime)
      /\ shifted' = shifted + tsbpd'.tracer.overdrift
      /\ offline' = ReadLine(offline, line)
      /\ exit' = (tsbpd.wrapCheck /\ ~ tsbpd'.wrapCheck)
      /\ anchor' = anchor /\ early' = early /\ compensate_rtt' = compensate_rtt
  BY <1>1 DEF NextAckAck, Handle
<1>3. /\ TIMESTAMPS \in Int /\ ts \in Int /\ recvtime \in Int /\ used \in Int
  BY InputTypes, GivenRtt DEF Inv
<1>4. /\ tsbpd \in TsbpdType /\ shifted \in Int /\ anchor \in Int /\ offline \in ScriptType
      /\ tsbpd.base >= 1 /\ tsbpd.base \in Int
  BY <1>1 DEF Inv, Types, BaseSet, Started, TsbpdType
<1>5. Started /\ Started'
  BY <1>1, EnvironmentAssumption DEF Started
<1> HIDE DEF ts, recvtime, used
<1>6. /\ tsbpd' \in TsbpdType
      /\ tsbpd'.tracer = Update(tsbpd.tracer, DriftSample(tsbpd, ts, used, recvtime))
      /\ tsbpd'.base = tsbpd.base + tsbpd'.tracer.overdrift + Turn(tsbpd.wrapCheck, ts)
      /\ tsbpd'.first_rtt = tsbpd.first_rtt
      /\ tsbpd'.wrapCheck <=> Lasts(tsbpd.wrapCheck, ts)
  <2>1. tsbpd.base # 0
    BY <1>4
  <2> QED
    BY <1>2, <1>3, <1>4, <2>1, NextHandled
<1>7. tsbpd'.tracer.overdrift \in Int /\ Turn(tsbpd.wrapCheck, ts) \in Int
  BY <1>3, <1>6, MaxDriftAssumption DEF TsbpdType, TracerType, Turn
<1>8. shifted' \in Int /\ anchor' \in Int
  BY <1>2, <1>4, <1>7
<1>9. Held' = Held + Turn(tsbpd.wrapCheck, ts)
  BY <1>2, <1>4, <1>6, <1>7, <1>8 DEF Held
<1> HIDE DEF line
<1>10. /\ offline' \in ScriptType
       /\ offline'.base = offline.base + Turn(offline.check, ts)
       /\ offline'.rtt_base = offline.rtt_base
       /\ offline'.check <=> Lasts(offline.check, ts)
  <2>1. Column(line, "usAckAckTimestampStd") = ts
    BY LineColumns DEF line
  <2> QED
    BY <1>2, <1>3, <1>4, <2>1, ScriptReads
<1>11. exit' <=> Ends(tsbpd.wrapCheck, ts)
  BY <1>2, <1>6 DEF Lasts, Ends
<1>12. Types'
  <2>1. newest' \in -1 .. MaxTime
    BY <1>1, EnvironmentAssumption
  <2>2. /\ compensate_rtt' \in BOOLEAN /\ early' \in BOOLEAN 
        /\ turned' \in BOOLEAN /\ strayed' \in BOOLEAN /\ regular' \in BOOLEAN
    BY <1>2 DEF NextAckAck, Inv, Types
  <2> QED
    BY <1>6, <1>8, <1>10, <2>1, <2>2 DEF Types
<1> QED
  BY <1>2, <1>5, <1>6, <1>9, <1>10, <1>11, <1>12 DEF ts, recvtime, used

-----------------------------------------------------------------------------
(* The base stays set.                                                     *)

\* No sample asks for a base below 1.
LEMMA SampleAtLeast ==
  ASSUME Inv, NEW sendtime \in Int, NEW delay \in Delays, NEW rtt \in Rtts,
         NextAckAck(sendtime, delay, rtt), sendtime >= newest - Reorder
  PROVE  LET v == DriftSample(tsbpd, sendtime % TIMESTAMPS, Compensated(rtt),
                              sendtime + ClockOffset + delay)
         IN  v \in Int /\ v >= 1 - tsbpd.base
<1> DEFINE ts == sendtime % TIMESTAMPS
           used == Compensated(rtt)
           half == TruncDiv(used - tsbpd.first_rtt, 2)
           carry == Carry(tsbpd.wrapCheck, ts)
<1>1. /\ TIMESTAMPS \in Int /\ TSBPD_WRAP_PERIOD \in Int /\ ClockOffset \in Int
      /\ delay \in Int /\ used \in Int
  BY InputTypes, GivenRtt DEF Inv
<1>2. /\ Started /\ newest \in Int /\ sendtime >= 0
      /\ tsbpd.base \in Int /\ tsbpd.first_rtt \in Int /\ tsbpd.first_rtt \in Given
      /\ tsbpd.wrapCheck => newest >= TIMESTAMPS - TSBPD_WRAP_PERIOD
  BY DEF NextAckAck, Inv, Types, TsbpdType, BaseSet, Started
<1>3. half \in Int /\ half < ClockOffset + delay
  <2>1. half < ClockOffset + delay
    BY <1>2, GivenRtt DEF Inv
  <2> QED
    BY <1>1, <1>2, <2>1, Halves
<1>4. /\ ts \in 0 .. TIMESTAMPS - 1 /\ TurnOf(sendtime) \in Int
      /\ sendtime = TurnOf(sendtime) + ts /\ TurnOf(sendtime) % TIMESTAMPS = 0
  BY TurnHolds
<1>5. carry \in Int /\ carry <= TurnOf(sendtime)
  <2>1. 0 % TIMESTAMPS = 0 /\ (-TIMESTAMPS) % TIMESTAMPS = 0
    BY WrapAssumption
  <2>2. TurnOf(sendtime) >= 0
    <3>1. TurnOf(sendtime) > -TIMESTAMPS
      BY <1>1, <1>2, <1>4
    <3> QED
      BY <1>1, <1>4, <2>1, <3>1, TurnsApart
  <2>3. CASE tsbpd.wrapCheck /\ ts < TSBPD_WRAP_PERIOD
    <3>1. sendtime >= TSBPD_WRAP_PERIOD
      BY <1>1, <1>2, <2>3, WrapAssumption, EnvironmentAssumption
    <3>2. TurnOf(sendtime) > 0
      BY <1>1, <1>4, <2>2, <2>3, <3>1
    <3>3. TurnOf(sendtime) >= TIMESTAMPS
      BY <1>1, <1>4, <2>1, <3>2, TurnsApart
    <3> QED
      BY <1>1, <2>3, <3>3 DEF Carry
  <2>4. CASE ~ (tsbpd.wrapCheck /\ ts < TSBPD_WRAP_PERIOD)
    BY <2>2, <2>4 DEF Carry
  <2> QED
    BY <2>3, <2>4
<1>6. DriftSample(tsbpd, ts, used, sendtime + ClockOffset + delay)
        = (sendtime + ClockOffset + delay) - ((tsbpd.base + carry) + ts) - half
  <2>1. get_pkt_time_base(tsbpd, ts) = tsbpd.base + carry
    BY DEF get_pkt_time_base, Carry
  <2>2. DriftSample(tsbpd, ts, used, sendtime + ClockOffset + delay)
          = (sendtime + ClockOffset + delay) - (get_pkt_time_base(tsbpd, ts) + ts) - half
    BY DEF DriftSample
  <2> HIDE DEF ts, carry, half, used
  <2> QED
    BY <2>1, <2>2
<1> HIDE DEF ts, half, carry, used
<1> QED
  BY <1>1, <1>2, <1>3, <1>4, <1>5, <1>6 DEF ts, used

LEMMA NextBaseSet ==
  ASSUME Inv, NEW sendtime \in Int, NEW delay \in Delays, NEW rtt \in Rtts,
         NextAckAck(sendtime, delay, rtt), sendtime >= newest - Reorder
  PROVE  BaseSet'
<1> DEFINE ts == sendtime % TIMESTAMPS
           v == DriftSample(tsbpd, ts, Compensated(rtt), sendtime + ClockOffset + delay)
           t == tsbpd.tracer
           b == tsbpd.base
           turn == Turn(tsbpd.wrapCheck, ts)
<1>1. /\ Started /\ Started' /\ Types'
      /\ tsbpd'.tracer = Update(t, v)
      /\ tsbpd'.base = b + tsbpd'.tracer.overdrift + turn
      /\ tsbpd'.first_rtt = tsbpd.first_rtt
      /\ tsbpd'.wrapCheck <=> Lasts(tsbpd.wrapCheck, ts)
  BY NextFacts
<1>2. v \in Int /\ v >= 1 - b
  BY SampleAtLeast
<1>3. /\ TIMESTAMPS \in Int /\ TSBPD_WRAP_PERIOD \in Int
      /\ TIMESTAMPS > 0 /\ ts \in Int /\ ts <= sendtime
  <2>1. sendtime >= 0
    BY DEF NextAckAck
  <2>2. ts <= sendtime
    BY <2>1, WrapAssumption
  <2> QED
    BY <2>2, InputTypes, WrapAssumption
<1>4. /\ t \in TracerType /\ b \in Int /\ b >= 1 /\ tsbpd.wrapCheck \in BOOLEAN
      /\ t.sum >= t.span * (1 - b) /\ tsbpd.first_rtt \in Given
      /\ tsbpd.wrapCheck => newest >= TIMESTAMPS - TSBPD_WRAP_PERIOD
      /\ newest \in Int /\ newest' \in Int
      /\ newest' >= newest /\ newest' >= sendtime /\ Given' = Given
  <2>1. /\ t \in TracerType /\ b \in Int /\ tsbpd.wrapCheck \in BOOLEAN /\ newest \in Int
    BY DEF Inv, Types, TsbpdType
  <2>2. newest' = IF sendtime > newest THEN sendtime ELSE newest
    BY DEF NextAckAck
  <2>3. Given' = Given
    BY DEF NextAckAck, Given
  <2> QED
    BY <1>1, <2>1, <2>2, <2>3 DEF Inv, BaseSet
<1>5. turn \in Int /\ turn >= 0
  BY <1>3 DEF Turn
<1> HIDE DEF ts, v, t, b, turn
<1>6. /\ t.span \in Nat /\ t.sum \in Int
  BY <1>4, SpanAssumption DEF TracerType
<1>7. t.sum + v >= (t.span + 1) * (1 - b)
  BY <1>2, <1>4, <1>6
<1>8. /\ tsbpd'.base >= 1
      /\ tsbpd'.tracer.sum >= tsbpd'.tracer.span * (1 - tsbpd'.base)
  <2>1. CASE CompletesSpan(t)
    <3> DEFINE mean == TruncDiv(t.sum + v, t.span + 1)
    <3>1. mean \in Int /\ mean >= 1 - b
      BY <1>2, <1>4, <1>6, <1>7, MeanAtLeast, TruncDivInt
    <3>2. tsbpd'.tracer.overdrift = Excess(mean)
          /\ tsbpd'.tracer.sum = 0 /\ tsbpd'.tracer.span = 0
      <4>1. LET u == Update(t, v)
            IN  u.sum = 0 /\ u.span = 0 /\ u.overdrift = Excess(mean)
        BY <1>2, <1>4, <2>1, TracerUpdated
      <4> QED
        BY <1>1, <4>1
    <3> HIDE DEF mean
    <3>3. Excess(mean) \in Int /\ b + Excess(mean) >= 1
      BY <1>4, <3>1, MaxDriftAssumption DEF Excess, AbsInt
    <3>4. tsbpd'.base \in Int /\ tsbpd'.base >= 1
      BY <1>1, <1>4, <1>5, <3>2, <3>3
    <3> QED
      BY <3>2, <3>4
  <2>2. CASE ~ CompletesSpan(t)
    <3>1. /\ tsbpd'.tracer.overdrift = 0
          /\ tsbpd'.tracer.sum = t.sum + v /\ tsbpd'.tracer.span = t.span + 1
      <4>1. LET u == Update(t, v)
            IN  u.overdrift = 0 /\ u.sum = t.sum + v /\ u.span = t.span + 1
        BY <1>2, <1>4, <2>2, TracerUpdated
      <4> QED
        BY <1>1, <4>1
    <3>2. tsbpd'.base = b + turn
      BY <1>1, <1>4, <1>5, <3>1
    <3>3. (t.span + 1) * (1 - b) >= (t.span + 1) * (1 - (b + turn))
      BY <1>4, <1>5, <1>6
    <3>4. t.sum + v >= (t.span + 1) * (1 - (b + turn))
      BY <1>2, <1>4, <1>5, <1>6, <1>7, <3>3
    <3> QED
      BY <1>4, <1>5, <3>1, <3>2, <3>4
  <2> QED
    BY <2>1, <2>2
<1>9. tsbpd'.wrapCheck => newest' >= TIMESTAMPS - TSBPD_WRAP_PERIOD
  <2>1. tsbpd'.wrapCheck => \/ tsbpd.wrapCheck
                            \/ ts >= TIMESTAMPS - TSBPD_WRAP_PERIOD
    BY <1>1 DEF Lasts
  <2> QED
    BY <1>3, <1>4, <2>1
<1> QED
  BY <1>1, <1>4, <1>8, <1>9 DEF BaseSet

-----------------------------------------------------------------------------
(* The base follows the turns.                                             *)

\* Where an ACKACK, the newest one and the base are, before and after: all that
\* the two lemmas after this one need of the turns.
LEMMA NextTurns ==
  ASSUME Inv, NEW sendtime \in Int, NEW delay \in Delays, NEW rtt \in Rtts,
         NextAckAck(sendtime, delay, rtt)
  PROVE  LET ts == sendtime % TIMESTAMPS
         IN  /\ newest \in Int /\ newest' \in Int /\ Held \in Int /\ Held' \in Int
             /\ ts \in 0 .. TIMESTAMPS - 1 /\ sendtime = TurnOf(sendtime) + ts
             /\ newest = TurnOf(newest) + (newest % TIMESTAMPS)
             /\ newest % TIMESTAMPS \in 0 .. TIMESTAMPS - 1
             /\ newest' = IF sendtime > newest THEN sendtime ELSE newest
             /\ TurnOf(sendtime) \in Int /\ TurnOf(newest) \in Int
             /\ TurnOf(sendtime) < TurnOf(newest) =>
                  TurnOf(sendtime) + TIMESTAMPS <= TurnOf(newest)
             /\ TurnOf(newest) < TurnOf(sendtime) =>
                  TurnOf(newest) + TIMESTAMPS <= TurnOf(sendtime)
             /\ Held % TIMESTAMPS = 0 =>
                  /\ Held < TurnOf(newest) => Held + TIMESTAMPS <= TurnOf(newest)
                  /\ Held < TurnOf(sendtime) => Held + TIMESTAMPS <= TurnOf(sendtime)
                  /\ TurnOf(sendtime) < Held => TurnOf(sendtime) + TIMESTAMPS <= Held
             /\ Held' = Held + Turn(tsbpd.wrapCheck, ts)
             /\ tsbpd'.wrapCheck <=> Lasts(tsbpd.wrapCheck, ts)
             /\ tsbpd.wrapCheck \in BOOLEAN /\ tsbpd'.wrapCheck \in BOOLEAN
             /\ turned' = (turned \/ TurnOf(newest') # TurnOf(newest))
             /\ strayed' = (strayed \/ (~ turned /\ TurnOf(sendtime) < TurnOf(newest)))
<1> DEFINE ts == sendtime % TIMESTAMPS
<1>1. /\ Types' /\ Types
      /\ Held' = Held + Turn(tsbpd.wrapCheck, ts)
      /\ tsbpd'.wrapCheck <=> Lasts(tsbpd.wrapCheck, ts)
  BY NextFacts DEF Inv
<1>2. newest' = IF sendtime > newest THEN sendtime ELSE newest
  BY DEF NextAckAck
<1>3. /\ newest \in Int /\ newest' \in Int /\ Held \in Int
      /\ tsbpd.wrapCheck \in BOOLEAN /\ tsbpd'.wrapCheck \in BOOLEAN
  BY <1>1 DEF Types, TsbpdType, Held
<1>4. Held' \in Int
  BY <1>1 DEF Types, TsbpdType, Held
<1>5. /\ ts \in 0 .. TIMESTAMPS - 1 /\ sendtime = TurnOf(sendtime) + ts
      /\ TurnOf(sendtime) \in Int /\ TurnOf(sendtime) % TIMESTAMPS = 0
  BY TurnHolds
<1>6. /\ newest = TurnOf(newest) + (newest % TIMESTAMPS)
      /\ newest % TIMESTAMPS \in 0 .. TIMESTAMPS - 1
      /\ TurnOf(newest) \in Int /\ TurnOf(newest) % TIMESTAMPS = 0
  BY <1>3, TurnHolds
<1>7. turned' = (turned \/ TurnOf(newest') # TurnOf(newest))
  <2>1. turned' = (turned \/ newest' \div TIMESTAMPS # newest \div TIMESTAMPS)
    BY DEF NextAckAck
  <2>2. newest' \div TIMESTAMPS = newest \div TIMESTAMPS <=> TurnOf(newest') = TurnOf(newest)
    BY <1>3, TurnNumbers
  <2> QED
    BY <2>1, <2>2, Zenon
<1>8. strayed' = (strayed \/ (~ turned /\ TurnOf(sendtime) < TurnOf(newest)))
  <2>1. strayed' = ( \/ strayed
                     \/ ~ turned /\ sendtime \div TIMESTAMPS < newest \div TIMESTAMPS )
    BY DEF NextAckAck
  <2>2. sendtime \div TIMESTAMPS < newest \div TIMESTAMPS
          <=> TurnOf(sendtime) < TurnOf(newest)
    BY <1>3, TurnNumbers
  <2> QED
    BY <2>1, <2>2, Zenon
<1>9. /\ TurnOf(sendtime) < TurnOf(newest) =>
           TurnOf(sendtime) + TIMESTAMPS <= TurnOf(newest)
      /\ TurnOf(newest) < TurnOf(sendtime) =>
           TurnOf(newest) + TIMESTAMPS <= TurnOf(sendtime)
  BY <1>5, <1>6, TurnsApart
<1>10. Held % TIMESTAMPS = 0 =>
         /\ Held < TurnOf(newest) => Held + TIMESTAMPS <= TurnOf(newest)
         /\ Held < TurnOf(sendtime) => Held + TIMESTAMPS <= TurnOf(sendtime)
         /\ TurnOf(sendtime) < Held => TurnOf(sendtime) + TIMESTAMPS <= Held
  BY <1>3, <1>5, <1>6, TurnsApart
<1> QED
  BY <1>1, <1>2, <1>3, <1>4, <1>5, <1>6, <1>7, <1>8, <1>9, <1>10

LEMMA NextBehind ==
  ASSUME Inv, NEW sendtime \in Int, NEW delay \in Delays, NEW rtt \in Rtts,
         NextAckAck(sendtime, delay, rtt), sendtime >= newest - Reorder
  PROVE  /\ Behind'
         /\ ~ strayed' => Held' + Carry(tsbpd'.wrapCheck, sendtime % TIMESTAMPS)
                            <= TurnOf(sendtime)
<1> DEFINE ts == sendtime % TIMESTAMPS
           ph == newest % TIMESTAMPS
           here == TurnOf(sendtime)
           there == TurnOf(newest)
           wc == tsbpd.wrapCheck
<1>1. /\ TIMESTAMPS \in Int /\ TSBPD_WRAP_PERIOD \in Int /\ TSBPD_WRAP_PERIOD >= 1
      /\ 4 * TSBPD_WRAP_PERIOD < TIMESTAMPS /\ Reorder \in Int
      /\ Reorder <= TSBPD_WRAP_PERIOD - 1
  BY WrapAssumption, EnvironmentAssumption
<1>2. /\ newest \in Int /\ newest' \in Int /\ Held \in Int /\ Held' \in Int
      /\ ts \in 0 .. TIMESTAMPS - 1 /\ sendtime = here + ts
      /\ newest = there + ph /\ ph \in 0 .. TIMESTAMPS - 1
      /\ newest' = IF sendtime > newest THEN sendtime ELSE newest
      /\ here \in Int /\ there \in Int
  BY NextTurns
<1>3. /\ here < there => here + TIMESTAMPS <= there
      /\ there < here => there + TIMESTAMPS <= here
      /\ Held % TIMESTAMPS = 0 =>
           /\ Held < there => Held + TIMESTAMPS <= there
           /\ Held < here => Held + TIMESTAMPS <= here
           /\ here < Held => here + TIMESTAMPS <= Held
  BY NextTurns
<1>4. /\ Held' = Held + Turn(wc, ts)
      /\ tsbpd'.wrapCheck <=> Lasts(wc, ts)
      /\ wc \in BOOLEAN /\ tsbpd'.wrapCheck \in BOOLEAN
      /\ turned' = (turned \/ TurnOf(newest') # there)
      /\ strayed' = (strayed \/ (~ turned /\ here < there))
  BY NextTurns
<1>5. /\ Started /\ Started' /\ strayed \in BOOLEAN /\ turned \in BOOLEAN
  BY NextFacts DEF Inv, Types
<1>6. /\ Held % TIMESTAMPS = 0
      /\ ~ strayed =>
           /\ Held <= there
           /\ Held = there =>
                IF wc THEN ph >= TIMESTAMPS - TSBPD_WRAP_PERIOD
                      ELSE ph >= TSBPD_WRAP_PERIOD \/ ~ turned
  BY <1>5 DEF Inv, Behind, AtEnd
<1>7. IF sendtime > newest THEN newest' = sendtime /\ TurnOf(newest') = here
                                /\ newest' % TIMESTAMPS = ts
                           ELSE newest' = newest /\ TurnOf(newest') = there
                                /\ newest' % TIMESTAMPS = ph
  BY <1>2
<1> HIDE DEF ts, ph, here, there, wc
<1>8. Held' % TIMESTAMPS = 0
  <2>1. Held' = Held \/ Held' = Held + TIMESTAMPS
    <3>1. Turn(wc, ts) = 0 \/ Turn(wc, ts) = TIMESTAMPS
      BY DEF Turn
    <3>2. Held' = Held + Turn(wc, ts)
      BY <1>4
    <3> QED
      BY <1>1, <1>2, <3>1, <3>2
  <2> QED
    BY <1>2, <1>6, <2>1, TurnsAdd
<1>9. ASSUME ~ strayed'
      PROVE  /\ Held' + Carry(tsbpd'.wrapCheck, ts) <= here
             /\ Held' <= TurnOf(newest')
             /\ Held' = TurnOf(newest') =>
                  IF tsbpd'.wrapCheck
                  THEN newest' % TIMESTAMPS >= TIMESTAMPS - TSBPD_WRAP_PERIOD
                  ELSE newest' % TIMESTAMPS >= TSBPD_WRAP_PERIOD \/ ~ turned'
  <2>1. ~ strayed /\ (turned \/ here >= there)
    <3>1. ~ strayed /\ (turned \/ ~ (here < there))
      BY <1>4, <1>9, Zenon
    <3> QED
      BY <1>2, <3>1
  <2>2. /\ Held <= there
        /\ Held = there => IF wc THEN ph >= TIMESTAMPS - TSBPD_WRAP_PERIOD
                                 ELSE ph >= TSBPD_WRAP_PERIOD \/ ~ turned
    BY <1>6, <2>1
  <2>3. CASE wc /\ Ends(wc, ts)
    <3>1. /\ ts >= TSBPD_WRAP_PERIOD /\ ts <= 2 * TSBPD_WRAP_PERIOD
          /\ Held' = Held + TIMESTAMPS /\ ~ tsbpd'.wrapCheck
      <4>1. ts \in TSBPD_WRAP_PERIOD .. 2 * TSBPD_WRAP_PERIOD
        BY <2>3 DEF Ends
      <4>2. Turn(wc, ts) = TIMESTAMPS /\ ~ Lasts(wc, ts)
        BY <2>3 DEF Turn, Lasts
      <4>3. Held' = Held + TIMESTAMPS /\ ~ tsbpd'.wrapCheck
        BY <1>4, <4>2
      <4> QED
        BY <1>1, <1>2, <4>1, <4>3
    <3>2. Carry(tsbpd'.wrapCheck, ts) = 0
      BY <3>1 DEF Carry
    <3>3. Held + TIMESTAMPS <= here
      BY <1>1, <1>2, <1>3, <1>6, <2>2, <2>3, <3>1
    <3> QED
      BY <1>1, <1>2, <1>3, <1>7, <3>1, <3>2, <3>3
  <2>4. CASE wc /\ ~ Ends(wc, ts)
    <3>1. /\ Held' = Held /\ tsbpd'.wrapCheck
          /\ ~ (ts >= TSBPD_WRAP_PERIOD /\ ts <= 2 * TSBPD_WRAP_PERIOD)
      <4>1. ts \notin TSBPD_WRAP_PERIOD .. 2 * TSBPD_WRAP_PERIOD
        BY <2>4 DEF Ends
      <4>2. Turn(wc, ts) = 0 /\ Lasts(wc, ts)
        BY <2>4 DEF Turn, Lasts
      <4> QED
        BY <1>1, <1>2, <1>4, <4>1, <4>2
    <3>2. Carry(tsbpd'.wrapCheck, ts) = IF ts < TSBPD_WRAP_PERIOD THEN TIMESTAMPS ELSE 0
      BY <3>1 DEF Carry
    <3>3. Held + (IF ts < TSBPD_WRAP_PERIOD THEN TIMESTAMPS ELSE 0) <= here
      BY <1>1, <1>2, <1>3, <1>6, <2>2, <2>4, <3>1
    <3>4. Held' + Carry(tsbpd'.wrapCheck, ts) <= here
      BY <3>1, <3>2, <3>3
    <3>5. CASE sendtime > newest
      <4>1. newest' = sendtime /\ TurnOf(newest') = here /\ newest' % TIMESTAMPS = ts
        BY <1>7, <3>5
      <4>2. Held <= here /\ (Held = here => ts >= TIMESTAMPS - TSBPD_WRAP_PERIOD)
        BY <1>1, <1>2, <1>3, <1>6, <2>2, <2>4, <3>1, <3>3, <3>5
      <4> QED
        BY <3>1, <3>4, <4>1, <4>2
    <3>6. CASE ~ (sendtime > newest)
      <4>1. newest' = newest /\ TurnOf(newest') = there /\ newest' % TIMESTAMPS = ph
        BY <1>7, <3>6
      <4> QED
        BY <2>2, <2>4, <3>1, <3>4, <4>1
    <3> QED
      BY <3>5, <3>6
  <2>5. CASE ~ wc
    <3>1. /\ Held' = Held
          /\ tsbpd'.wrapCheck <=> ts >= TIMESTAMPS - TSBPD_WRAP_PERIOD
      <4>1. Turn(wc, ts) = 0 /\ (Lasts(wc, ts) <=> ts >= TIMESTAMPS - TSBPD_WRAP_PERIOD)
        BY <2>5 DEF Turn, Lasts, Ends
      <4>2. Held' = Held + 0 /\ (tsbpd'.wrapCheck <=> ts >= TIMESTAMPS - TSBPD_WRAP_PERIOD)
        BY <1>4, <4>1, Zenon
      <4> QED
        BY <1>2, <4>2
    <3>2. Carry(tsbpd'.wrapCheck, ts) = 0
      BY <1>1, <1>2, <3>1 DEF Carry
    <3>3. Held <= here
      BY <1>1, <1>2, <1>3, <1>6, <2>1, <2>2, <2>5
    <3> QED
      BY <1>1, <1>2, <1>3, <1>4, <1>5, <1>6, <1>7, <2>1, <2>2, <2>5, <3>1, <3>2, <3>3
  <2> QED
    BY <1>4, <2>3, <2>4, <2>5
<1>10. Behind'
  BY <1>8, <1>9 DEF Behind, AtEnd
<1> QED
  BY <1>9, <1>10 DEF ts, here

\* While nothing is missed the base is exact after every ACKACK, and before it but
\* for the turn that this one ends.
LEMMA NextOnTime ==
  ASSUME Inv, NEW sendtime \in Int, NEW delay \in Delays, NEW rtt \in Rtts,
         NextAckAck(sendtime, delay, rtt), sendtime >= newest - Reorder
  PROVE  LET ts == sendtime % TIMESTAMPS
         IN  /\ OnTime'
             /\ regular' =>
                  /\ Held' + Carry(tsbpd'.wrapCheck, ts) = TurnOf(sendtime)
                  /\ Held + Carry(tsbpd.wrapCheck, ts) + Turn(tsbpd.wrapCheck, ts)
                       = TurnOf(sendtime)
<1> DEFINE ts == sendtime % TIMESTAMPS
           ph == newest % TIMESTAMPS
           here == TurnOf(sendtime)
           there == TurnOf(newest)
           wc == tsbpd.wrapCheck
<1>1. /\ TIMESTAMPS \in Int /\ TSBPD_WRAP_PERIOD \in Int /\ TSBPD_WRAP_PERIOD >= 1
      /\ 4 * TSBPD_WRAP_PERIOD < TIMESTAMPS /\ Reorder \in Int /\ Gap \in Int
      /\ Reorder <= TSBPD_WRAP_PERIOD - 1 /\ Gap <= TSBPD_WRAP_PERIOD
  BY WrapAssumption, EnvironmentAssumption
<1>2. /\ newest \in Int /\ newest' \in Int /\ Held \in Int /\ Held' \in Int
      /\ ts \in 0 .. TIMESTAMPS - 1 /\ sendtime = here + ts
      /\ newest = there + ph /\ ph \in 0 .. TIMESTAMPS - 1
      /\ newest' = IF sendtime > newest THEN sendtime ELSE newest
      /\ here \in Int /\ there \in Int
      /\ here < there => here + TIMESTAMPS <= there
      /\ there < here => there + TIMESTAMPS <= here
  BY NextTurns
<1>3. Held' = Held + Turn(wc, ts) /\ (tsbpd'.wrapCheck <=> Lasts(wc, ts))
  BY NextTurns
<1>4. strayed' = (strayed \/ (~ turned /\ here < there))
  BY NextTurns
<1>5. Started /\ Started' /\ early' = early
  BY NextFacts DEF NextAckAck
<1>6. IF sendtime > newest THEN TurnOf(newest') = here /\ newest' % TIMESTAMPS = ts
                           ELSE TurnOf(newest') = there /\ newest' % TIMESTAMPS = ph
  BY <1>2
<1>7. SUFFICES ASSUME regular'
               PROVE  /\ early' /\ ~ strayed'
                      /\ IF tsbpd'.wrapCheck
                         THEN \/ Held' = TurnOf(newest') /\ AtEnd(newest')
                              \/ /\ Held' = TurnOf(newest') - TIMESTAMPS
                                 /\ newest' % TIMESTAMPS < TSBPD_WRAP_PERIOD
                         ELSE Held' = TurnOf(newest') /\ ~ AtEnd(newest')
                      /\ Held' + Carry(tsbpd'.wrapCheck, ts) = here
                      /\ Held + Carry(wc, ts) + Turn(wc, ts) = here
  BY DEF OnTime, AtEnd
<1>8. /\ regular /\ ~ strayed'
      /\ \/ sendtime - newest <= Gap
         \/ /\ here = there
            /\ ph >= TSBPD_WRAP_PERIOD \/ ts <= 2 * TSBPD_WRAP_PERIOD
  <2>1. /\ regular /\ ~ strayed'
        /\ \/ sendtime - newest <= Gap
           \/ Harmless(newest, sendtime)
    BY <1>7 DEF NextAckAck
  <2>2. Harmless(newest, sendtime) =>
          here = there /\ (ph >= TSBPD_WRAP_PERIOD \/ ts <= 2 * TSBPD_WRAP_PERIOD)
    BY <1>2, TurnNumbers DEF Harmless
  <2> QED
    BY <2>1, <2>2
<1>9. /\ early /\ ~ strayed
      /\ IF wc THEN \/ Held = there /\ ph >= TIMESTAMPS - TSBPD_WRAP_PERIOD
                    \/ Held = there - TIMESTAMPS /\ ph < TSBPD_WRAP_PERIOD
               ELSE Held = there /\ ph < TIMESTAMPS - TSBPD_WRAP_PERIOD
  <2>1. ph < TIMESTAMPS - TSBPD_WRAP_PERIOD <=> ~ (ph >= TIMESTAMPS - TSBPD_WRAP_PERIOD)
    BY <1>1, <1>2
  <2> QED
    BY <1>5, <1>8, <2>1 DEF Inv, OnTime, AtEnd
<1>10. ~ wc => here >= there
  <2>1. ~ wc => ph >= TSBPD_WRAP_PERIOD \/ ~ turned
    BY <1>5, <1>9 DEF Inv, Behind
  <2>2. ~ (~ turned /\ here < there)
    BY <1>4, <1>8, Zenon
  <2> QED
    BY <1>1, <1>2, <2>1, <2>2
<1>11. early' /\ ~ strayed'
  BY <1>5, <1>8, <1>9
<1>12. /\ there + TIMESTAMPS < here => there + TIMESTAMPS + TIMESTAMPS <= here
       /\ here + TIMESTAMPS < there => here + TIMESTAMPS + TIMESTAMPS <= there
  <2>1. /\ here % TIMESTAMPS = 0 /\ (here + TIMESTAMPS) % TIMESTAMPS = 0
        /\ there % TIMESTAMPS = 0 /\ (there + TIMESTAMPS) % TIMESTAMPS = 0
    BY <1>2, TurnHolds, TurnsAdd
  <2> QED
    BY <1>1, <1>2, <2>1, TurnsApart
<1> HIDE DEF ts, ph, here, there, wc
<1>13. CASE wc /\ Ends(wc, ts)
  <2>1. ts >= TSBPD_WRAP_PERIOD /\ ts <= 2 * TSBPD_WRAP_PERIOD
    BY <1>1, <1>2, <1>13 DEF Ends
  <2>2. Turn(wc, ts) = TIMESTAMPS /\ ~ Lasts(wc, ts)
    BY <1>13 DEF Turn, Lasts
  <2>3. Carry(wc, ts) = 0
    BY <1>1, <1>2, <2>1 DEF Carry
  <2>4. ~ tsbpd'.wrapCheck /\ Carry(tsbpd'.wrapCheck, ts) = 0 /\ Held' = Held + TIMESTAMPS
    BY <1>3, <2>2 DEF Carry
  <2>5. Held + TIMESTAMPS = here
    BY <1>1, <1>2, <1>8, <1>9, <1>13, <2>1
  <2>6. Held' = TurnOf(newest') /\ ~ AtEnd(newest')
    BY <1>1, <1>2, <1>6, <1>9, <1>13, <2>1, <2>4, <2>5 DEF AtEnd
  <2> QED
    BY <1>1, <1>2, <1>11, <2>2, <2>3, <2>4, <2>5, <2>6
<1>14. CASE wc /\ ~ Ends(wc, ts)
  <2>1. ~ (ts >= TSBPD_WRAP_PERIOD /\ ts <= 2 * TSBPD_WRAP_PERIOD)
    BY <1>1, <1>2, <1>14 DEF Ends
  <2>2. Turn(wc, ts) = 0 /\ Lasts(wc, ts)
    BY <1>14 DEF Turn, Lasts
  <2>3. tsbpd'.wrapCheck /\ Held' = Held
    BY <1>2, <1>3, <2>2
  <2> DEFINE due == IF ts < TSBPD_WRAP_PERIOD THEN TIMESTAMPS ELSE 0
  <2>4. Carry(wc, ts) = due /\ Carry(tsbpd'.wrapCheck, ts) = due
    BY <1>14, <2>3 DEF Carry
  <2>5. /\ ts < TSBPD_WRAP_PERIOD => Held + TIMESTAMPS = here
        /\ ~ (ts < TSBPD_WRAP_PERIOD) => Held = here
    <3>1. CASE Held = there /\ ph >= TIMESTAMPS - TSBPD_WRAP_PERIOD
      <4>1. here >= there
        BY <1>1, <1>2, <2>1, <3>1
      <4>2. CASE here = there
        BY <1>1, <1>2, <3>1, <4>2
      <4>3. CASE here > there
        <5>1. sendtime <= newest + TSBPD_WRAP_PERIOD
          BY <1>1, <1>2, <1>8, <4>3
        <5> QED
          BY <1>1, <1>2, <1>12, <3>1, <4>3, <5>1
      <4> QED
        BY <1>2, <4>1, <4>2, <4>3
    <3>2. CASE Held = there - TIMESTAMPS /\ ph < TSBPD_WRAP_PERIOD
      <4>1. CASE here < there
        BY <1>1, <1>2, <1>12, <3>2, <4>1
      <4>2. CASE here = there
        <5>1. ts < TSBPD_WRAP_PERIOD
          BY <1>1, <1>2, <1>8, <2>1, <3>2, <4>2
        <5> QED
          BY <1>1, <1>2, <3>2, <4>2, <5>1
      <4>3. CASE here > there
        BY <1>1, <1>2, <1>8, <3>2, <4>3
      <4> QED
        BY <1>2, <4>1, <4>2, <4>3
    <3> QED
      BY <1>9, <1>14, <3>1, <3>2
  <2>6. \/ Held' = TurnOf(newest') /\ AtEnd(newest')
        \/ Held' = TurnOf(newest') - TIMESTAMPS /\ newest' % TIMESTAMPS < TSBPD_WRAP_PERIOD
    <3>1. CASE sendtime > newest
      BY <1>1, <1>2, <1>6, <1>8, <1>9, <1>14, <2>1, <2>3, <2>5, <3>1 DEF AtEnd
    <3>2. CASE ~ (sendtime > newest)
      BY <1>1, <1>2, <1>6, <1>9, <1>14, <2>3, <3>2 DEF AtEnd
    <3> QED
      BY <3>1, <3>2
  <2>7. /\ Held' + Carry(tsbpd'.wrapCheck, ts) = here
        /\ Held + Carry(wc, ts) + Turn(wc, ts) = here
    <3>1. Held + due = here /\ due \in Int
      BY <1>1, <1>2, <2>5
    <3> HIDE DEF due
    <3>2. Held + due + 0 = here
      BY <1>2, <3>1
    <3> QED
      BY <2>2, <2>3, <2>4, <3>1, <3>2
  <2> QED
    BY <1>11, <2>3, <2>6, <2>7
<1>15. CASE ~ wc
  <2>1. Turn(wc, ts) = 0 /\ (Lasts(wc, ts) <=> ts >= TIMESTAMPS - TSBPD_WRAP_PERIOD)
    BY <1>15 DEF Turn, Lasts, Ends
  <2>2. Held' = Held /\ (tsbpd'.wrapCheck <=> ts >= TIMESTAMPS - TSBPD_WRAP_PERIOD)
    <3>1. Held' = Held + 0 /\ (tsbpd'.wrapCheck <=> ts >= TIMESTAMPS - TSBPD_WRAP_PERIOD)
      BY <1>3, <2>1, Zenon
    <3> QED
      BY <1>2, <3>1
  <2>3. Carry(wc, ts) = 0 /\ Carry(tsbpd'.wrapCheck, ts) = 0
    BY <1>1, <1>2, <1>15, <2>2 DEF Carry
  <2>4. Held = here
    BY <1>1, <1>2, <1>8, <1>9, <1>10, <1>15
  <2>5. TurnOf(newest') = here
        /\ (AtEnd(newest') <=> ts >= TIMESTAMPS - TSBPD_WRAP_PERIOD)
    <3>1. CASE sendtime > newest
      BY <1>6, <3>1 DEF AtEnd
    <3>2. CASE ~ (sendtime > newest)
      BY <1>1, <1>2, <1>6, <1>9, <1>15, <2>4, <3>2 DEF AtEnd
    <3> QED
      BY <3>1, <3>2
  <2> QED
    BY <1>2, <1>11, <2>1, <2>2, <2>3, <2>4, <2>5
<1> QED
  BY <1>13, <1>14, <1>15

-----------------------------------------------------------------------------
(* What is in the trace.                                                   *)

\* The script stays with the program.
LEMMA NextAlike ==
  ASSUME Inv, NEW sendtime \in Int, NEW delay \in Delays, NEW rtt \in Rtts,
         NextAckAck(sendtime, delay, rtt)
  PROVE  Alike'
<1> DEFINE ts == sendtime % TIMESTAMPS
           od == tsbpd'.tracer.overdrift
<1>1. /\ Started /\ Types'
      /\ tsbpd'.base = tsbpd.base + od + Turn(tsbpd.wrapCheck, ts)
      /\ tsbpd'.first_rtt = tsbpd.first_rtt
      /\ tsbpd'.wrapCheck <=> Lasts(tsbpd.wrapCheck, ts)
      /\ shifted' = shifted + od
      /\ offline'.base = offline.base + Turn(offline.check, ts)
      /\ offline'.rtt_base = offline.rtt_base
      /\ offline'.check <=> Lasts(offline.check, ts)
  BY NextFacts
<1>2. SUFFICES ASSUME early'
               PROVE  /\ offline'.base + StartTime + shifted' = tsbpd'.base
                      /\ compensate_rtt' => offline'.rtt_base = tsbpd'.first_rtt
                      /\ offline'.check <=> tsbpd'.wrapCheck
  BY DEF Alike
<1>3. early /\ compensate_rtt' = compensate_rtt
  BY <1>2 DEF NextAckAck
<1>4. /\ offline.base + StartTime + shifted = tsbpd.base
      /\ compensate_rtt => offline.rtt_base = tsbpd.first_rtt
      /\ offline.check <=> tsbpd.wrapCheck
  BY <1>1, <1>3 DEF Inv, Alike
<1>5. /\ offline.base \in Int /\ shifted \in Int /\ tsbpd.base \in Int /\ StartTime \in Int
      /\ offline.check \in BOOLEAN /\ tsbpd.wrapCheck \in BOOLEAN
  BY EnvironmentAssumption DEF Inv, Types, TsbpdType, ScriptType
<1>6. od \in Int
  BY <1>1, MaxDriftAssumption DEF Types, TsbpdType, TracerType
<1>7. offline.check = tsbpd.wrapCheck
  BY <1>4, <1>5
<1>8. Turn(tsbpd.wrapCheck, ts) \in Int
  BY WrapAssumption DEF Turn
<1> HIDE DEF ts, od
<1>9. offline'.base = offline.base + Turn(tsbpd.wrapCheck, ts)
  BY <1>1, <1>7
<1>10. offline'.base + StartTime + shifted' = tsbpd'.base
  BY <1>1, <1>4, <1>5, <1>6, <1>8, <1>9
<1>11. offline'.check <=> tsbpd'.wrapCheck
  BY <1>1, <1>7
<1> QED
  BY <1>1, <1>3, <1>4, <1>10, <1>11

\* By how much a line is off, in terms of turns.
LEMMA NextOff ==
  ASSUME Inv, NEW sendtime \in Int, NEW delay \in Delays, NEW rtt \in Rtts,
         NextAckAck(sendtime, delay, rtt)
  PROVE  LET ts == sendtime % TIMESTAMPS
         IN  /\ off'.base = Held' + Carry(tsbpd'.wrapCheck, ts) - TurnOf(sendtime)
             /\ off'.sample = TurnOf(sendtime) - (Held + Carry(tsbpd.wrapCheck, ts))
             /\ off'.rtt \in Int
             /\ early =>
                  /\ off'.modelled = 0 /\ off'.plotted \in Int
                  /\ IF compensate_rtt
                     THEN off'.plotted - 2 * Turn(tsbpd.wrapCheck, ts) \in -1 .. 1
                     ELSE off'.plotted = 2 * Turn(tsbpd.wrapCheck, ts) + off'.rtt
<1> DEFINE ts == sendtime % TIMESTAMPS
           recvtime == sendtime + ClockOffset + delay
           line == LineOf(tsbpd, tsbpd', ts, rtt, recvtime)
           od == tsbpd'.tracer.overdrift
           used == Compensated(rtt)
           half == TruncDiv(used - tsbpd.first_rtt, 2)
           carry == Carry(tsbpd.wrapCheck, ts)
           then == Carry(tsbpd'.wrapCheck, ts)
           turn == Turn(tsbpd.wrapCheck, ts)
           sample == Sampled(tsbpd, ts, used, recvtime)
<1>1. /\ Started /\ Types /\ Types'
      /\ tsbpd'.base = tsbpd.base + od + turn
      /\ tsbpd'.first_rtt = tsbpd.first_rtt
      /\ tsbpd'.wrapCheck <=> Lasts(tsbpd.wrapCheck, ts)
      /\ shifted' = shifted + od
      /\ Held' = Held + turn
      /\ offline'.base = offline.base + Turn(offline.check, ts)
  BY NextFacts DEF Inv
<1>2. /\ anchor' = anchor /\ newest # -1
      /\ offline' = ReadLine(offline, line)
      /\ off' = Off(line, offline, sendtime, anchor',
                     TruncDiv(used - tsbpd'.first_rtt, 2), shifted, shifted')
  BY DEF NextAckAck, Handle
<1>3. /\ TIMESTAMPS \in Int /\ StartTime \in Int /\ ts \in Int /\ recvtime \in Int
      /\ rtt \in Int /\ sendtime = TurnOf(sendtime) + ts /\ TurnOf(sendtime) \in Int
      /\ used \in Int
  BY <1>1, InputTypes, TurnHolds, GivenRtt
<1>4. /\ tsbpd.base \in Int /\ tsbpd.base # 0 /\ tsbpd.first_rtt \in Int
      /\ tsbpd'.base \in Int /\ anchor \in Int /\ shifted \in Int /\ shifted' \in Int
      /\ offline \in ScriptType /\ offline.base \in Int /\ offline.rtt_base \in Int
      /\ tsbpd.first_rtt \in Given
  BY <1>1 DEF Inv, Types, TsbpdType, ScriptType, BaseSet
<1>5. od \in Int
  BY <1>1, MaxDriftAssumption DEF Types, TsbpdType, TracerType
<1>6. carry \in Int /\ then \in Int /\ turn \in Int
  BY <1>3 DEF Carry, Turn
<1>7. half \in Int /\ (used - tsbpd.first_rtt) - 2 * half \in -1 .. 1
  BY <1>3, <1>4, Halves
<1>8. sample = recvtime - ((tsbpd.base + carry) + ts) - half
  <2>1. sample = DriftSample(tsbpd, ts, used, recvtime)
    BY <1>4 DEF Sampled, IsFirst
  <2>2. get_pkt_time_base(tsbpd, ts) = tsbpd.base + carry
    BY DEF get_pkt_time_base, Carry
  <2> QED
    BY <2>1, <2>2 DEF DriftSample
<1>9. /\ Column(line, "usElapsedStd") = recvtime - StartTime
      /\ Column(line, "usAckAckTimestampStd") = ts
      /\ Column(line, "usRTTStd") = rtt
      /\ Column(line, "usDriftSampleStd") = sample
      /\ Column(line, "usOverdriftStd") = od
      /\ Column(line, "TsbpdTimeBaseStd") = tsbpd'.base + then
  BY LineColumns
<1>10. get_time_base(offline, line) = offline'.base + Carry(offline.check, ts)
  <2> HIDE DEF line, ts
  <2> QED
    BY <1>2, <1>3, <1>4, <1>9, ScriptReads
<1> HIDE DEF ts, recvtime, line, od, used, half, carry, then, turn, sample
<1>11. off'.base = Held' + then - TurnOf(sendtime)
  <2>1. off'.base = (tsbpd'.base + then) + ts - (sendtime + anchor + shifted')
    BY <1>2, <1>9 DEF Off
  <2>2. Held' = tsbpd'.base - anchor - shifted'
    BY <1>2 DEF Held
  <2> QED
    BY <1>3, <1>4, <1>6, <2>1, <2>2
<1>12. off'.sample = TurnOf(sendtime) - (Held + carry)
  <2>1. off'.sample = sample - ( (recvtime - StartTime) + StartTime
                                   - (sendtime + anchor + shifted) - half )
    BY <1>1, <1>2, <1>9 DEF Off, half
  <2> QED
    BY <1>3, <1>4, <1>6, <1>7, <1>8, <2>1 DEF Held
<1>13. off'.rtt = rtt - offline.rtt_base /\ off'.rtt \in Int
  <2>1. off'.rtt = rtt - offline.rtt_base
    BY <1>2, <1>9 DEF Off
  <2> QED
    BY <1>3, <1>4, <2>1
<1>14. ASSUME early
       PROVE  /\ off'.modelled = 0
              /\ off'.plotted = 2 * turn + ((rtt - offline.rtt_base) - 2 * half)
  <2>1. Alike' /\ early' /\ Started'
    BY <1>14, NextAlike, NextFacts DEF NextAckAck
  <2>2. /\ offline'.base + StartTime + shifted' = tsbpd'.base
        /\ offline.check <=> tsbpd.wrapCheck
    BY <1>1, <1>14, <2>1 DEF Alike, Inv
  <2>3. Carry(offline.check, ts) = carry
    BY <2>2 DEF Carry, carry
  <2>4. then = carry
    BY <1>1, <1>3, WrapAssumption DEF Carry, Lasts, Ends, carry, then
  <2>5. offline'.base \in Int
    BY <1>1 DEF Types, ScriptType
  <2>6. off'.modelled = (tsbpd'.base + then) - (StartTime + (offline'.base + carry) + shifted')
    BY <1>2, <1>9, <1>10, <2>3 DEF Off
  <2>7. off'.modelled = 0
    BY <1>3, <1>4, <1>6, <2>2, <2>4, <2>5, <2>6
  <2>8. off'.plotted = 2 * ((sample + shifted') - od)
                         - ( 2 * ((recvtime - StartTime) - ((offline'.base + carry) + ts))
                               - (rtt - offline.rtt_base) )
    BY <1>2, <1>9, <1>10, <2>3 DEF Off, Plotted, TwiceDrift
  <2>9. off'.plotted = 2 * turn + ((rtt - offline.rtt_base) - 2 * half)
    BY <1>1, <1>3, <1>4, <1>5, <1>6, <1>7, <1>8, <2>2, <2>5, <2>8
  <2> QED
    BY <2>7, <2>9
<1>15. ASSUME early, compensate_rtt
       PROVE  off'.plotted - 2 * turn \in -1 .. 1
  <2>1. used = rtt /\ offline.rtt_base = tsbpd.first_rtt
    BY <1>1, <1>15 DEF Inv, Alike, Compensated, used
  <2>2. off'.plotted = 2 * turn + ((used - tsbpd.first_rtt) - 2 * half)
    BY <1>14, <1>15, <2>1
  <2> QED
    BY <1>3, <1>4, <1>6, <1>7, <2>2
<1>16. ASSUME early, ~ compensate_rtt
       PROVE  off'.plotted = 2 * turn + off'.rtt
  <2>1. used = 0 /\ tsbpd.first_rtt = 0
    BY <1>4, <1>16 DEF Given, Compensated, used
  <2>2. half = 0
    BY <2>1 DEF half, TruncDiv
  <2> QED
    BY <1>3, <1>4, <1>6, <1>13, <1>14, <1>16, <2>2
<1>17. early => off'.plotted \in Int
  BY <1>3, <1>4, <1>6, <1>7, <1>14
<1> QED
  BY <1>11, <1>12, <1>13, <1>14, <1>15, <1>16, <1>17 DEF ts, carry, then, turn

\* What the properties say holds of the line of a later ACKACK.
LEMMA NextLineOK ==
  ASSUME Inv, NEW sendtime \in Int, NEW delay \in Delays, NEW rtt \in Rtts,
         NextAckAck(sendtime, delay, rtt), sendtime >= newest - Reorder
  PROVE  LineOK'
<1> DEFINE ts == sendtime % TIMESTAMPS
           here == TurnOf(sendtime)
           turn == Turn(tsbpd.wrapCheck, ts)
           carry == Carry(tsbpd.wrapCheck, ts)
           then == Carry(tsbpd'.wrapCheck, ts)
<1>1. /\ off'.base = Held' + then - here
      /\ off'.sample = here - (Held + carry)
      /\ off'.rtt \in Int
      /\ early => /\ off'.modelled = 0 /\ off'.plotted \in Int
                  /\ IF compensate_rtt THEN off'.plotted - 2 * turn \in -1 .. 1
                                       ELSE off'.plotted = 2 * turn + off'.rtt
  BY NextOff
<1>2. /\ Held \in Int /\ Held' \in Int /\ here \in Int
      /\ TIMESTAMPS \in Int /\ here % TIMESTAMPS = 0
  BY NextTurns, InputTypes, TurnHolds
<1>3. carry \in Int /\ then \in Int /\ turn \in Int
  BY <1>2 DEF Carry, Turn
<1>4. /\ early' = early /\ compensate_rtt' = compensate_rtt /\ Started'
      /\ exit' <=> Ends(tsbpd.wrapCheck, ts)
  BY NextFacts DEF NextAckAck
<1>5. turn = IF exit' THEN TIMESTAMPS ELSE 0
  BY <1>4 DEF Turn
<1>6. /\ ~ strayed' => Held' + then <= here
      /\ Held' % TIMESTAMPS = 0
  BY <1>4, NextBehind DEF Behind
<1>7. regular' => Held' + then = here /\ Held + carry + turn = here
  BY NextOnTime
<1>8. (Held' + then - here) % TIMESTAMPS = 0
  <2>1. (Held' + then) % TIMESTAMPS = 0
    <3>1. then = 0 \/ then = TIMESTAMPS
      BY DEF Carry
    <3>2. Held' % TIMESTAMPS = 0 /\ (Held' + TIMESTAMPS) % TIMESTAMPS = 0
      BY <1>2, <1>6, TurnsAdd
    <3> HIDE DEF then
    <3>3. Held' + then = Held' \/ Held' + then = Held' + TIMESTAMPS
      BY <1>2, <3>1
    <3> QED
      BY <3>2, <3>3
  <2> DEFINE with == Held' + then
  <2>2. with \in Int /\ with % TIMESTAMPS = 0
    BY <1>2, <1>3, <2>1
  <2>3. Held' + then - here = with - here
    BY <1>2, <1>3
  <2> HIDE DEF with
  <2>4. (with - here) % TIMESTAMPS = 0
    BY <1>2, <2>2, TurnsAdd
  <2> QED
    BY <2>3, <2>4
<1> HIDE DEF ts, here, turn, carry, then
<1>9. BaseFollowsClock'
  <2>1. off'.base = Held' + then - here /\ Held' \in Int /\ here \in Int
    BY <1>1, <1>2
  <2>2. Held' + then = here => off'.base = 0
    <3>1. \A a, b, c \in Int : a + b = c => a + b - c = 0
      OBVIOUS
    <3> QED
      BY <1>3, <2>1, <3>1
  <2> QED
    BY <1>7, <2>2 DEF BaseFollowsClock
<1>10. NeverAhead'
  <2>1. off'.base = Held' + then - here /\ Held' \in Int /\ here \in Int
    BY <1>1, <1>2
  <2>2. Held' + then <= here => off'.base <= 0
    <3>1. \A a, b, c \in Int : a + b <= c => a + b - c <= 0
      OBVIOUS
    <3> QED
      BY <1>3, <2>1, <3>1
  <2>3. off'.base % TIMESTAMPS = 0
    BY <1>8, <2>1
  <2> QED
    BY <1>6, <2>2, <2>3 DEF NeverAhead
<1>11. SampleExact'
  <2>1. regular' => off'.sample = turn
    BY <1>1, <1>2, <1>3, <1>7
  <2> QED
    BY <1>5, <2>1 DEF SampleExact
<1>12. OfflineAgrees'
  BY <1>1, <1>4 DEF OfflineAgrees
<1>13. PlotsAgree'
  <2> DEFINE shown == IF exit' THEN 2 * TIMESTAMPS ELSE 0
  <2>1. shown = 2 * turn /\ shown \in Int
    BY <1>2, <1>5
  <2> HIDE DEF shown
  <2>2. early /\ compensate_rtt => AbsInt(off'.plotted - shown - 0) <= 1
    BY <1>1, <2>1 DEF AbsInt
  <2>3. early /\ ~ compensate_rtt => AbsInt(off'.plotted - shown - off'.rtt) <= 0
    BY <1>1, <2>1 DEF AbsInt
  <2> QED
    BY <1>4, <2>2, <2>3 DEF PlotsAgree, shown
<1> QED
  BY <1>9, <1>10, <1>11, <1>12, <1>13 DEF LineOK

-----------------------------------------------------------------------------
(* The first ACKACK.                                                       *)

LEMMA FirstStep ==
  ASSUME Inv, NEW sendtime \in FirstTimes, NEW delay \in Delays, NEW rtt \in Rtts,
         FirstAckAck(sendtime, delay, rtt)
  PROVE  Inv' /\ LineOK'
<1> DEFINE ts == sendtime % TIMESTAMPS
           recvtime == sendtime + ClockOffset + delay
           line == LineOf(tsbpd, tsbpd', ts, rtt, recvtime)
           script == FirstOffline(line)
           used == Compensated(rtt)
           here == TurnOf(sendtime)
<1>1. /\ sendtime \in Int /\ sendtime \in 0 .. MaxTime /\ MaxTime \in Nat
      /\ delay \in Int /\ delay >= 0 /\ rtt \in Int /\ ClockOffset \in Int /\ StartTime \in Int
      /\ compensate_rtt \in BOOLEAN /\ used \in Int /\ used \in Given
  BY EnvironmentAssumption, GivenRtt DEF Inv, Types
<1>2. /\ newest = -1 /\ newest' = sendtime /\ anchor' = ClockOffset + delay
      /\ early' = ~ AtEnd(sendtime) /\ regular' = early'
      /\ turned' = turned /\ strayed' = strayed /\ compensate_rtt' = compensate_rtt
  BY DEF FirstAckAck
<1>3. /\ tsbpd = NewTsbpd /\ shifted = 0 /\ ~ turned /\ ~ strayed
      /\ strayed' \in BOOLEAN /\ turned' \in BOOLEAN
  BY <1>2 DEF Inv, BaseSet, Types, Started
<1>4. /\ TIMESTAMPS \in Int /\ TSBPD_WRAP_PERIOD \in Int /\ TSBPD_WRAP_PERIOD >= 1
      /\ 4 * TSBPD_WRAP_PERIOD < TIMESTAMPS
      /\ ts \in 0 .. TIMESTAMPS - 1 /\ recvtime \in Int
      /\ here \in Int /\ here % TIMESTAMPS = 0 /\ sendtime = here + ts
  BY <1>1, TurnHolds, WrapAssumption
<1>5. /\ tsbpd' = OnAckAck(tsbpd, ts, used, recvtime)
      /\ shifted' = shifted + tsbpd'.tracer.overdrift
      /\ offline' = ReadLine(script, line)
      /\ off' = Off(line, script, sendtime, anchor',
                     TruncDiv(used - tsbpd'.first_rtt, 2), shifted, shifted')
      /\ exit' = (tsbpd.wrapCheck /\ ~ tsbpd'.wrapCheck)
  BY <1>2 DEF FirstAckAck, Handle
<1>6. /\ tsbpd' = [ base |-> recvtime - ts, wrapCheck |-> FALSE, first_rtt |-> used,
                    tracer |-> NewTracer ]
      /\ tsbpd' \in TsbpdType
  <2>1. tsbpd' = OnAckAck(NewTsbpd, ts, used, recvtime)
    BY <1>3, <1>5
  <2>2. ts \in Int
    BY <1>4
  <2> QED
    BY <1>1, <1>4, <2>1, <2>2, FirstHandled
<1>7. /\ Column(line, "usElapsedStd") = recvtime - StartTime
      /\ Column(line, "usAckAckTimestampStd") = ts
      /\ Column(line, "usRTTStd") = rtt
      /\ Column(line, "usDriftSampleStd") = Sampled(tsbpd, ts, used, recvtime)
      /\ Column(line, "usOverdriftStd") = tsbpd'.tracer.overdrift
      /\ Column(line, "TsbpdTimeBaseStd") = tsbpd'.base + Carry(tsbpd'.wrapCheck, ts)
  BY LineColumns
<1> HIDE DEF ts, recvtime, line, here, used
<1>8. /\ tsbpd'.base = recvtime - ts /\ ~ tsbpd'.wrapCheck /\ tsbpd'.first_rtt = used
      /\ tsbpd'.tracer.overdrift = 0 /\ tsbpd'.tracer.sum = 0 /\ tsbpd'.tracer.span = 0
      /\ Carry(tsbpd'.wrapCheck, ts) = 0 /\ Sampled(tsbpd, ts, used, recvtime) = 0
  BY <1>3, <1>6 DEF NewTracer, NewTsbpd, Carry, Sampled, IsFirst
<1>9. shifted' = 0 /\ exit' = FALSE
  <2>1. tsbpd.wrapCheck = FALSE
    BY <1>3 DEF NewTsbpd
  <2> QED
    <3>1. shifted' = 0
      BY <1>3, <1>5, <1>8
    <3>2. exit' = FALSE
      BY <1>5, <2>1, Zenon
    <3> QED
      BY <3>1, <3>2
<1>10. recvtime = sendtime + ClockOffset + delay /\ here >= 0 /\ ClockOffset + delay >= 1
  <2>1. here >= 0
    <3>1. here > -TIMESTAMPS /\ (-TIMESTAMPS) % TIMESTAMPS = 0
      BY <1>1, <1>4, WrapAssumption
    <3> QED
      BY <1>4, <3>1, TurnsApart
  <2>2. TruncDiv(rtt - rtt, 2) < ClockOffset + delay
    BY ClockAssumption
  <2>3. TruncDiv(rtt - rtt, 2) = 0
    BY <1>1 DEF TruncDiv
  <2> QED
    BY <1>1, <2>1, <2>2, <2>3 DEF recvtime
<1>11. /\ script = [ base |-> (recvtime - StartTime) - ts, rtt_base |-> rtt, check |-> FALSE ]
       /\ script \in ScriptType
  <2>1. script = [ base |-> (recvtime - StartTime) - ts, rtt_base |-> rtt, check |-> FALSE ]
    BY <1>7 DEF FirstOffline
  <2>2. (recvtime - StartTime) - ts \in Int
    BY <1>1, <1>4
  <2> HIDE DEF script
  <2> QED
    BY <1>1, <2>1, <2>2 DEF ScriptType
<1> HIDE DEF script
<1>12. /\ offline' \in ScriptType
       /\ offline'.base = (recvtime - StartTime) - ts
       /\ offline'.rtt_base = rtt
       /\ offline'.check <=> ts >= TIMESTAMPS - TSBPD_WRAP_PERIOD
       /\ get_time_base(script, line) = (recvtime - StartTime) - ts
  <2>1. /\ Turn(script.check, ts) = 0 /\ Carry(script.check, ts) = 0
        /\ Lasts(script.check, ts) <=> ts >= TIMESTAMPS - TSBPD_WRAP_PERIOD
        /\ script.base = (recvtime - StartTime) - ts /\ script.rtt_base = rtt
    BY <1>11 DEF Turn, Carry, Lasts, Ends
  <2>2. /\ offline' \in ScriptType
        /\ offline'.base = script.base + 0
        /\ offline'.rtt_base = rtt
        /\ offline'.check <=> ts >= TIMESTAMPS - TSBPD_WRAP_PERIOD
        /\ get_time_base(script, line) = offline'.base + 0
    <3>1. /\ ts \in Int /\ script \in ScriptType
          /\ Column(line, "usAckAckTimestampStd") = ts /\ offline' = ReadLine(script, line)
      BY <1>4, <1>5, <1>7, <1>11
    <3>2. /\ offline' \in ScriptType
          /\ offline'.base = script.base + Turn(script.check, ts)
          /\ offline'.rtt_base = script.rtt_base
          /\ offline'.check <=> Lasts(script.check, ts)
          /\ get_time_base(script, line) = offline'.base + Carry(script.check, ts)
      BY <3>1, ScriptReads
    <3> QED
      BY <2>1, <3>2
  <2> QED
    BY <1>1, <1>4, <2>1, <2>2
<1>13. anchor' \in Int /\ Held' = here
  BY <1>1, <1>2, <1>4, <1>8, <1>9, <1>10 DEF Held
<1>14. Started' /\ TurnOf(newest') = here
  BY <1>1, <1>2 DEF Started, here
<1>15. early' <=> ~ (ts >= TIMESTAMPS - TSBPD_WRAP_PERIOD)
  BY <1>2 DEF AtEnd, ts
<1>16. Types'
  BY <1>1, <1>2, <1>3, <1>6, <1>9, <1>12, <1>13 DEF Types
<1>17. BaseSet'
  <2>1. tsbpd'.base >= 1
    BY <1>1, <1>4, <1>8, <1>10
  <2> QED
    BY <1>1, <1>2, <1>4, <1>8, <1>14, <2>1 DEF BaseSet, Given
<1>18. Behind'
  BY <1>3, <1>2, <1>4, <1>8, <1>13, <1>14 DEF Behind
<1>19. OnTime'
  BY <1>2, <1>3, <1>8, <1>13, <1>14 DEF OnTime
<1>20. Alike'
  <2>1. offline'.base + StartTime + shifted' = tsbpd'.base
    BY <1>1, <1>4, <1>8, <1>9, <1>12
  <2> QED
    BY <1>2, <1>8, <1>12, <1>15, <2>1 DEF Alike, Compensated, used
<1>21. off'.base = 0
  <2>1. off'.base = (tsbpd'.base + 0) + ts - (sendtime + anchor' + shifted')
    BY <1>5, <1>7, <1>8 DEF Off
  <2> QED
    BY <1>1, <1>2, <1>4, <1>8, <1>9, <1>10, <2>1
<1>22. off'.sample = 0
  <2>1. off'.sample = 0 - ( (recvtime - StartTime) + StartTime
                              - (sendtime + anchor' + shifted) - TruncDiv(used - used, 2) )
    BY <1>5, <1>7, <1>8 DEF Off
  <2>2. TruncDiv(used - used, 2) = 0
    BY <1>1 DEF TruncDiv
  <2> QED
    BY <1>1, <1>2, <1>3, <1>4, <1>10, <2>1, <2>2
<1>23. off'.modelled = 0
  <2>1. off'.modelled = (tsbpd'.base + 0)
                          - (StartTime + ((recvtime - StartTime) - ts) + shifted')
    BY <1>5, <1>7, <1>8, <1>12 DEF Off
  <2> QED
    BY <1>1, <1>4, <1>8, <1>9, <2>1
<1>24. off'.plotted = 0
  <2>1. off'.plotted = 2 * ((0 + shifted') - 0)
          - (2 * ((recvtime - StartTime) - (((recvtime - StartTime) - ts) + ts)) - (rtt - rtt))
    BY <1>5, <1>7, <1>8, <1>11, <1>12 DEF Off, Plotted, TwiceDrift
  <2> QED
    BY <1>1, <1>4, <1>9, <2>1
<1>25. off'.rtt = 0
  <2>1. off'.rtt = rtt - rtt
    BY <1>5, <1>7, <1>11 DEF Off
  <2> QED
    BY <1>1, <2>1
<1>26. LineOK'
  <2>1. 0 % TIMESTAMPS = 0
    BY WrapAssumption
  <2> QED
    BY <1>9, <1>21, <1>22, <1>23, <1>24, <1>25, <2>1
    DEF LineOK, BaseFollowsClock, NeverAhead, SampleExact, OfflineAgrees, PlotsAgree, AbsInt
<1> QED
  BY <1>16, <1>17, <1>18, <1>19, <1>20, <1>26 DEF Inv

-----------------------------------------------------------------------------
(* The theorems.                                                           *)

IInv == Inv /\ LineOK

LEMMA InitIInv == Init => IInv
<1> SUFFICES ASSUME Init PROVE IInv
  OBVIOUS
<1>1. /\ compensate_rtt \in BOOLEAN
      /\ newest = -1 /\ tsbpd = NewTsbpd /\ anchor = 0 /\ shifted = 0 /\ ~ Started
      /\ early = TRUE /\ turned = FALSE /\ strayed = FALSE /\ regular = TRUE
      /\ offline = [base |-> 0, rtt_base |-> 0, check |-> FALSE]
  BY DEF Init, Started
<1>2. NewTsbpd \in TsbpdType
  <2>1. NewTracer \in TracerType
    BY SpanAssumption, MaxDriftAssumption DEF NewTracer, TracerType
  <2> QED
    BY <2>1 DEF NewTsbpd, TsbpdType
<1>3. -1 \in -1 .. MaxTime
  BY EnvironmentAssumption
<1>4. Types
  <2>1. offline \in ScriptType
    BY <1>1 DEF ScriptType
  <2> QED
    <3>1. /\ tsbpd \in TsbpdType /\ newest \in -1 .. MaxTime
          /\ anchor \in Int /\ shifted \in Int
      BY <1>1, <1>2, <1>3
    <3>2. early \in BOOLEAN /\ turned \in BOOLEAN /\ strayed \in BOOLEAN /\ regular \in BOOLEAN
      BY <1>1
    <3> QED
      BY <1>1, <2>1, <3>1, <3>2 DEF Types
<1>5. BaseSet /\ Behind /\ OnTime /\ Alike
  BY <1>1 DEF BaseSet, Behind, OnTime, Alike
<1>6. LineOK
  BY <1>1 DEF LineOK, BaseFollowsClock, NeverAhead, SampleExact, OfflineAgrees, PlotsAgree
<1> QED
  BY <1>4, <1>5, <1>6 DEF IInv, Inv

LEMMA NextIInv == IInv /\ [Next]_vars => IInv'
<1> SUFFICES ASSUME IInv, [Next]_vars PROVE IInv'
  OBVIOUS
<1>1. Inv /\ LineOK
  BY DEF IInv
<1>2. ASSUME NEW delay \in Delays, NEW rtt \in Rtts, NEW sendtime \in FirstTimes,
             FirstAckAck(sendtime, delay, rtt)
      PROVE  IInv'
  BY <1>1, <1>2, FirstStep DEF IInv
<1>3. ASSUME NEW delay \in Delays, NEW rtt \in Rtts,
             NEW d \in (-Reorder .. Gap) \cup Outages, NextAckAck(newest + d, delay, rtt)
      PROVE  IInv'
  <2> DEFINE sendtime == newest + d
  <2>1. sendtime \in Int /\ sendtime >= newest - Reorder
    BY <1>1, EnvironmentAssumption DEF Inv, Types
  <2> HIDE DEF sendtime
  <2>2. NextAckAck(sendtime, delay, rtt)
    BY <1>3 DEF sendtime
  <2>3. Types'
    BY <1>1, <2>1, <2>2, NextFacts
  <2>4. BaseSet' /\ Behind' /\ OnTime' /\ Alike' /\ LineOK'
    BY <1>1, <2>1, <2>2, NextBaseSet, NextBehind, NextOnTime, NextAlike, NextLineOK
  <2> QED
    BY <2>3, <2>4 DEF IInv, Inv
<1>4. CASE UNCHANGED vars
  BY <1>1, <1>4 DEF vars, IInv, Inv, Types, Given, BaseSet, Behind, OnTime, Alike, Held, Started,
     AtEnd, TurnOf, LineOK, BaseFollowsClock, NeverAhead, SampleExact, OfflineAgrees, PlotsAgree
<1> QED
  BY <1>2, <1>3, <1>4 DEF Next

LEMMA Invariance == Spec => []IInv
  BY InitIInv, NextIInv, PTL DEF Spec

\* The fields of g_tsbpd and of its tracer stay in range (app/tsbpd.hpp:44-70).
THEOREM TypeCorrect == Spec => []TypeOK
<1>1. IInv => TypeOK
  BY DEF IInv, Inv, Types, TypeOK, TsbpdType, TracerType
<1> QED
  BY <1>1, Invariance, PTL

\* The base a packet is given is exact, to the microsecond, for as long as no turn
\* of the remote clock can have been missed (app/tsbpd.cpp:7-36, app/tsbpd.hpp:23-33).
THEOREM FollowsClock == Spec => []BaseFollowsClock
<1>1. IInv => BaseFollowsClock
  BY DEF IInv, LineOK
<1> QED
  BY <1>1, Invariance, PTL

\* Whatever is missed, the base is never ahead, and is behind by whole turns of
\* the clock (app/tsbpd.cpp:7-36).
THEOREM NotAhead == Spec => []NeverAhead
<1>1. IInv => NeverAhead
  BY DEF IInv, LineOK
<1> QED
  BY <1>1, Invariance, PTL

\* The drift sample of every packet is exact but for the one that ends a wrap
\* period, which is a turn of the clock too high (app/tsbpd.hpp:23-25,33).
THEOREM SamplesExact == Spec => []SampleExact
<1>1. IInv => SampleExact
  BY DEF IInv, LineOK
<1> QED
  BY <1>1, Invariance, PTL

\* The script finds the base of the program in every line of the trace
\* (scripts/plot-drift-model.py:27-39).
THEOREM ScriptAgrees == Spec => []OfflineAgrees
<1>1. IInv => OfflineAgrees
  BY DEF IInv, LineOK
<1> QED
  BY <1>1, Invariance, PTL

\* Whatever is compensated, the two scripts can be told apart by the RTT alone, and
\* by what PlotsAgree names: with --compensate-rtt they show the same drift to half
\* a microsecond, and by default exactly half the rise of the RTT apart
\* (app/start.cpp:129, scripts/plot-drift-model.py:50-52, scripts/plot-drift.py:19).
THEOREM PlotsApartByRtt == Spec => []PlotsAgree
<1>1. IInv => PlotsAgree
  BY DEF IInv, LineOK
<1> QED
  BY <1>1, Invariance, PTL

=============================================================================
