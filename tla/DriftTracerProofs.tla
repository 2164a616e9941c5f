------------------------- MODULE DriftTracerProofs -------------------------
(***************************************************************************)
(* Proofs about DriftTracer: for every span, correction, jitter, rate of   *)
(* drift, start offset and jump, and any number of restarts of the remote. *)
(*                                                                         *)
(* The argument is about the sum: it is span times the offset of now, up   *)
(* to the jitter and to what the clocks have drifted while it was made.    *)
(***************************************************************************)
EXTENDS DriftTracer, TLAPS

-----------------------------------------------------------------------------
(* Means and corrections.                                                  *)

LEMMA AbsNat == \A a \in Int : AbsInt(a) \in Nat
<1> SUFFICES ASSUME NEW a \in Int PROVE AbsInt(a) \in Nat
  OBVIOUS
<1>1. CASE a >= 0
  BY <1>1 DEF AbsInt
<1>2. CASE ~ (a >= 0)
  BY <1>2 DEF AbsInt
<1> QED
  BY <1>1, <1>2

\* A mean that is rounded towards zero stays within integer bounds.
LEMMA MeanWithin ==
  ASSUME NEW a \in Int, NEW n \in Nat \ {0}, NEW lo \in Int, NEW hi \in Int,
         n * lo <= a, a <= n * hi
  PROVE  TruncDiv(a, n) \in Int /\ lo <= TruncDiv(a, n) /\ TruncDiv(a, n) <= hi
<1>1. CASE a >= 0
  <2> DEFINE q == a \div n
  <2>1. q \in Int /\ n * q <= a /\ a < n * (q + 1)
    OBVIOUS
  <2>2. n * lo < n * (q + 1) /\ n * q <= n * hi
    BY <2>1
  <2>3. lo < q + 1 /\ q <= hi
    BY <2>1, <2>2
  <2> QED
    BY <1>1, <2>1, <2>3 DEF TruncDiv
<1>2. CASE a < 0
  <2> DEFINE m == (-a) \div n
  <2>1. m \in Int /\ n * m <= -a /\ -a < n * (m + 1)
    OBVIOUS
  <2>2. n * lo <= n * (-m) /\ n * (-m - 1) < n * hi
    BY <2>1
  <2>3. lo <= -m /\ -m - 1 < hi
    BY <2>1, <2>2
  <2> QED
    BY <1>2, <2>1, <2>3 DEF TruncDiv
<1> QED
  BY <1>1, <1>2

\* A mean that is within err of the offset gives a correction that makes a large
\* offset smaller, and leaves a small one within err or within the tolerance.
LEMMA CorrectionHelps ==
  ASSUME NEW o \in Int, NEW err \in Nat, NEW mean \in Int,
         o - err <= mean, mean <= o + err
  PROVE  LET after == o - Excess(mean)
         IN  /\ Excess(mean) \in {-MAX_DRIFT, 0, MAX_DRIFT}
             /\ after \in Int
             /\ Excess(mean) = 0 => AbsInt(after) <= MAX_DRIFT + err
             /\ Excess(mean) # 0 => \/ AbsInt(after) < AbsInt(o)
                                    \/ AbsInt(after) <= err
             /\ Excess(mean) # 0 => \/ AbsInt(after) <= AbsInt(o) - MAX_DRIFT
                                    \/ AbsInt(after) <= err
  BY MaxDriftAssumption DEF Excess, AbsInt

-----------------------------------------------------------------------------
(* The invariant.                                                          *)

\* What a restart of the remote may cost on top.
Slack == IF restarts > 0 THEN MAX_DRIFT + Rate ELSE 0

\* The sum is that of samples of the offset of now, up to jitter and drift; if
\* there are samples of two runs in it, the offset is still where the restart left
\* it, up to drift.
SumFollows ==
  IF mixed
  THEN /\ restarts > 0 /\ tracer.span > 0
       /\ AbsInt(offset) <= AbsInt(start) + drifted
  ELSE /\ tracer.sum - tracer.span * offset <= tracer.span * (drifted + Jitter)
       /\ tracer.span * offset - tracer.sum <= tracer.span * (drifted + Jitter)

Near == Rate <= MAX_DRIFT =>
          AbsInt(offset) <= Farthest(AbsInt(start), Tolerance) + Slack + drifted

\* TypeOK, and that the tracer is a record.
Types == /\ TypeOK
         /\ tracer = [ drift |-> tracer.drift, overdrift |-> tracer.overdrift,
                       sum |-> tracer.sum, span |-> tracer.span ]

IInv == Types /\ SumFollows /\ Near

\* The constants are integers.
LEMMA ConstantTypes ==
  /\ MAX_SPAN \in Nat /\ MAX_SPAN >= 1 /\ MAX_DRIFT \in Nat /\ MAX_DRIFT >= 1
  /\ Jitter \in Nat /\ Rate \in Nat /\ MaxRestarts \in Nat /\ Tolerance \in Nat
  BY SpanAssumption, MaxDriftAssumption, EnvironmentAssumption DEF Tolerance

\* So are the bounds.
LEMMA BoundTypes ==
  ASSUME Types
  PROVE  /\ Slack \in Nat /\ AbsInt(offset) \in Nat /\ AbsInt(start) \in Nat
         /\ Farthest(AbsInt(start), Tolerance) \in Nat
         /\ AbsInt(start) <= Farthest(AbsInt(start), Tolerance)
         /\ Tolerance <= Farthest(AbsInt(start), Tolerance)
<1>1. /\ AbsInt(offset) \in Nat /\ AbsInt(start) \in Nat
  BY DEF Types, TypeOK, AbsInt
<1>2. Slack \in Nat
  BY ConstantTypes DEF Slack
<1> QED
  BY <1>1, <1>2, ConstantTypes DEF Farthest

LEMMA InitIInv == Init => IInv
<1> SUFFICES ASSUME Init PROVE IInv
  OBVIOUS
<1>1. /\ tracer = [drift |-> 0, overdrift |-> 0, sum |-> 0, span |-> 0]
      /\ offset \in Int /\ start = offset /\ drifted = 0 /\ restarts = 0
      /\ steady = FALSE /\ mixed = FALSE
  BY EnvironmentAssumption DEF Init, NewTracer
<1>2. Types
  <2>1. tracer.drift = 0 /\ tracer.overdrift = 0 /\ tracer.sum = 0 /\ tracer.span = 0
    BY <1>1
  <2>2. steady \in BOOLEAN /\ mixed \in BOOLEAN
    BY <1>1
  <2> QED
    BY <1>1, <2>1, <2>2, ConstantTypes DEF Types, TypeOK
<1>3. SumFollows
  BY <1>1, ConstantTypes DEF SumFollows
<1>4. Near
  BY <1>1, <1>2, BoundTypes DEF Near
<1> QED
  BY <1>2, <1>3, <1>4 DEF IInv

-----------------------------------------------------------------------------
(* A sample.                                                               *)

\* One more sample, and the bounds on the sum are those for one more.
LEMMA SumWithSample ==
  ASSUME IInv, ~ mixed, NEW j \in -Jitter .. Jitter
  PROVE  LET n == tracer.span + 1
             a == tracer.sum + (offset + j)
         IN  /\ n \in Nat \ {0} /\ a \in Int
             /\ n * (offset - (drifted + Jitter)) <= a
             /\ a <= n * (offset + (drifted + Jitter))
             /\ a - n * offset <= n * (drifted + Jitter)
             /\ n * offset - a <= n * (drifted + Jitter)
<1> DEFINE s == tracer.span
           o == offset
           e == drifted + Jitter
           a == tracer.sum + (o + j)
<1>1. /\ s \in Nat /\ o \in Int /\ e \in Nat /\ tracer.sum \in Int /\ j \in Int
      /\ -e <= j /\ j <= e
  BY ConstantTypes DEF IInv, Types, TypeOK
<1>2. tracer.sum - s * o <= s * e /\ s * o - tracer.sum <= s * e
  BY DEF IInv, SumFollows
<1> HIDE DEF s, o, e
<1>3. /\ s * o \in Int /\ s * e \in Int
      /\ (s + 1) * o = s * o + o /\ (s + 1) * e = s * e + e
      /\ (s + 1) * (o - e) = (s * o + o) - (s * e + e)
      /\ (s + 1) * (o + e) = (s * o + o) + (s * e + e)
  BY <1>1
<1>4. /\ (s * o + o) - (s * e + e) <= a /\ a <= (s * o + o) + (s * e + e)
      /\ a - (s * o + o) <= s * e + e /\ (s * o + o) - a <= s * e + e
      /\ a \in Int
  BY <1>1, <1>2, <1>3
<1> QED
  BY <1>1, <1>3, <1>4 DEF s, o, e

\* What a sample does to the variables.
LEMMA SampleFacts ==
  ASSUME IInv, NEW j \in -Jitter .. Jitter, TakeSample(j)
  PROVE  /\ steady' = steady /\ restarts' = restarts /\ start' = start
         /\ tracer' = [ drift |-> tracer'.drift, overdrift |-> tracer'.overdrift,
                        sum |-> tracer'.sum, span |-> tracer'.span ]
         /\ tracer'.drift \in Int
         /\ ~ CompletesSpan(tracer) =>
              /\ tracer.span + 1 \in 0 .. MAX_SPAN - 1
              /\ tracer'.span = tracer.span + 1
              /\ tracer'.sum = tracer.sum + (offset + j) /\ tracer'.overdrift = 0
              /\ offset' = offset /\ drifted' = drifted /\ mixed' = mixed
         /\ CompletesSpan(tracer) =>
              /\ tracer'.span = 0 /\ tracer'.sum = 0
              /\ tracer'.overdrift
                   = Excess(TruncDiv(tracer.sum + (offset + j), tracer.span + 1))
              /\ tracer'.overdrift \in {-MAX_DRIFT, 0, MAX_DRIFT}
              /\ offset' = offset - tracer'.overdrift /\ drifted' = 0 /\ mixed' = FALSE
<1> DEFINE v == offset + j
           a == tracer.sum + v
           mean == MeanWith(tracer, v)
<1>1. /\ tracer = [ drift |-> tracer.drift, overdrift |-> tracer.overdrift,
                    sum |-> tracer.sum, span |-> tracer.span ]
      /\ tracer.drift \in Int /\ tracer.sum \in Int /\ tracer.span \in 0 .. MAX_SPAN - 1
      /\ v \in Int /\ a \in Int /\ tracer.span + 1 \in Nat \ {0}
  BY ConstantTypes DEF IInv, Types, TypeOK
<1>2. steady' = steady /\ restarts' = restarts /\ start' = start /\ tracer' = Update(tracer, v)
  BY DEF TakeSample
<1>3. CASE CompletesSpan(tracer)
  <2>1. /\ offset' = offset - tracer'.overdrift /\ drifted' = 0 /\ mixed' = FALSE
    BY <1>3 DEF TakeSample
  <2>2. tracer' = [drift |-> mean - Excess(mean), overdrift |-> Excess(mean),
                   sum |-> 0, span |-> 0]
    BY <1>2, <1>3 DEF Update
  <2>3. mean = TruncDiv(a, tracer.span + 1) /\ mean \in Int
    BY <1>1 DEF MeanWith, TruncDiv
  <2>4. Excess(mean) \in {-MAX_DRIFT, 0, MAX_DRIFT} /\ Excess(mean) \in Int
    BY ConstantTypes DEF Excess
  <2> HIDE DEF mean
  <2>5. mean - Excess(mean) \in Int
    BY <2>3, <2>4
  <2> QED
    BY <1>2, <1>3, <2>1, <2>2, <2>3, <2>4, <2>5
<1>4. CASE ~ CompletesSpan(tracer)
  <2>1. offset' = offset /\ drifted' = drifted /\ mixed' = mixed
    BY <1>4 DEF TakeSample
  <2>2. tracer' = [tracer EXCEPT !.sum = @ + v, !.span = @ + 1, !.overdrift = 0]
    BY <1>2, <1>4 DEF Update
  <2>3. tracer.span + 1 \in 0 .. MAX_SPAN - 1
    BY <1>1, <1>4, ConstantTypes DEF CompletesSpan
  <2>4. tracer' = [ drift |-> tracer.drift, overdrift |-> 0,
                    sum |-> a, span |-> tracer.span + 1 ]
    BY <1>1, <2>2
  <2> QED
    BY <1>1, <1>2, <1>4, <2>1, <2>3, <2>4
<1> QED
  BY <1>3, <1>4

\* The mean of a span of one run is within jitter and drift of the offset.
LEMMA SpanMean ==
  ASSUME IInv, ~ mixed, NEW j \in -Jitter .. Jitter, TakeSample(j), CompletesSpan(tracer)
  PROVE  \E mean \in Int : /\ offset - (drifted + Jitter) <= mean
                           /\ mean <= offset + (drifted + Jitter)
                           /\ tracer'.overdrift = Excess(mean)
<1> DEFINE n == tracer.span + 1
           a == tracer.sum + (offset + j)
           mean == TruncDiv(a, n)
<1>1. /\ n \in Nat \ {0} /\ a \in Int
      /\ n * (offset - (drifted + Jitter)) <= a
      /\ a <= n * (offset + (drifted + Jitter))
  BY SumWithSample
<1>2. offset - (drifted + Jitter) \in Int /\ offset + (drifted + Jitter) \in Int
  BY ConstantTypes DEF IInv, Types, TypeOK
<1>3. tracer'.overdrift = Excess(mean)
  BY SampleFacts
<1> HIDE DEF n, a
<1>4. /\ mean \in Int /\ offset - (drifted + Jitter) <= mean
      /\ mean <= offset + (drifted + Jitter)
  BY <1>1, <1>2, MeanWithin
<1> QED
  BY <1>3, <1>4

\* A sample keeps the invariant.
LEMMA SampleKeeps ==
  ASSUME IInv, NEW j \in -Jitter .. Jitter, TakeSample(j)
  PROVE  IInv'
<1>1. /\ offset \in Int /\ start \in Int /\ restarts \in 0 .. MaxRestarts
      /\ drifted \in 0 .. Rate /\ steady \in BOOLEAN /\ mixed \in BOOLEAN
      /\ tracer.span \in Nat /\ tracer.sum \in Int
  BY ConstantTypes DEF IInv, Types, TypeOK
<1>2. steady' = steady /\ restarts' = restarts /\ start' = start /\ Slack' = Slack
  BY SampleFacts DEF Slack
<1>3. /\ Farthest(AbsInt(start'), Tolerance) = Farthest(AbsInt(start), Tolerance)
      /\ Farthest(AbsInt(start), Tolerance) \in Nat /\ Slack \in Nat
      /\ AbsInt(offset) \in Nat /\ AbsInt(start) \in Nat
      /\ AbsInt(start) <= Farthest(AbsInt(start), Tolerance)
      /\ Tolerance <= Farthest(AbsInt(start), Tolerance)
  BY <1>2, BoundTypes DEF IInv
<1>4. CASE CompletesSpan(tracer)
  <2>1. /\ tracer'.span = 0 /\ tracer'.sum = 0
        /\ tracer'.overdrift \in {-MAX_DRIFT, 0, MAX_DRIFT}
        /\ offset' = offset - tracer'.overdrift /\ drifted' = 0 /\ mixed' = FALSE
        /\ tracer' = [ drift |-> tracer'.drift, overdrift |-> tracer'.overdrift,
                       sum |-> tracer'.sum, span |-> tracer'.span ]
        /\ tracer'.drift \in Int
    BY <1>4, SampleFacts
  <2>2. offset' \in Int /\ AbsInt(offset') \in Nat /\ AbsInt(offset') <= AbsInt(offset) + MAX_DRIFT
    BY <1>1, <2>1, ConstantTypes DEF AbsInt
  <2>3. Types'
    <3>1. tracer'.sum \in Int /\ tracer'.span \in 0 .. MAX_SPAN - 1 /\ drifted' \in 0 .. Rate
      BY <2>1, ConstantTypes
    <3> QED
      BY <1>1, <1>2, <2>1, <2>2, <3>1 DEF Types, TypeOK
  <2>4. SumFollows'
    <3>1. /\ tracer'.sum - tracer'.span * offset' <= tracer'.span * (drifted' + Jitter)
          /\ tracer'.span * offset' - tracer'.sum <= tracer'.span * (drifted' + Jitter)
      BY <2>1, <2>2, ConstantTypes
    <3> QED
      BY <2>1, <3>1 DEF SumFollows
  <2>5. ASSUME Rate <= MAX_DRIFT
        PROVE  AbsInt(offset') <= Farthest(AbsInt(start), Tolerance) + Slack
    <3>1. CASE mixed
      <4>1. restarts > 0 /\ AbsInt(offset) <= AbsInt(start) + drifted
        BY <3>1 DEF IInv, SumFollows
      <4>2. Slack = MAX_DRIFT + Rate
        BY <4>1 DEF Slack
      <4> QED
        BY <1>1, <1>3, <2>2, <4>1, <4>2, ConstantTypes
    <3>2. CASE ~ mixed
      <4> DEFINE err == drifted + Jitter
      <4>1. PICK mean \in Int : /\ offset - err <= mean /\ mean <= offset + err
                                /\ tracer'.overdrift = Excess(mean)
        BY <1>4, <3>2, SpanMean
      <4>2. err \in Nat /\ err <= Rate + Jitter /\ MAX_DRIFT + err <= Tolerance
        BY <1>1, ConstantTypes DEF Tolerance
      <4>3. AbsInt(offset) <= Farthest(AbsInt(start), Tolerance) + Slack + drifted
        BY <2>5 DEF IInv, Near
      <4> HIDE DEF err
      <4>4. /\ Excess(mean) = 0 => AbsInt(offset') <= MAX_DRIFT + err
            /\ Excess(mean) # 0 => \/ AbsInt(offset') <= AbsInt(offset) - MAX_DRIFT
                                   \/ AbsInt(offset') <= err
        BY <1>1, <2>1, <4>1, <4>2, CorrectionHelps
      <4>5. \/ AbsInt(offset') <= MAX_DRIFT + err
            \/ AbsInt(offset') <= AbsInt(offset) - MAX_DRIFT
        BY <2>2, <4>2, <4>4, ConstantTypes
      <4> QED
        BY <1>1, <1>3, <2>2, <2>5, <4>2, <4>3, <4>5, ConstantTypes
    <3> QED
      BY <1>1, <3>1, <3>2
  <2>6. Near'
    <3>1. Farthest(AbsInt(start), Tolerance) + Slack
            = Farthest(AbsInt(start), Tolerance) + Slack + drifted'
      BY <1>3, <2>1
    <3> QED
      BY <1>2, <1>3, <2>5, <3>1 DEF Near
  <2> QED
    BY <2>3, <2>4, <2>6 DEF IInv
<1>5. CASE ~ CompletesSpan(tracer)
  <2>1. /\ tracer.span + 1 \in 0 .. MAX_SPAN - 1
        /\ tracer'.span = tracer.span + 1
        /\ tracer'.sum = tracer.sum + (offset + j) /\ tracer'.overdrift = 0
        /\ offset' = offset /\ drifted' = drifted /\ mixed' = mixed
        /\ tracer' = [ drift |-> tracer'.drift, overdrift |-> tracer'.overdrift,
                       sum |-> tracer'.sum, span |-> tracer'.span ]
        /\ tracer'.drift \in Int
    BY <1>5, SampleFacts
  <2>2. Types'
    <3>1. tracer'.sum \in Int
      BY <1>1, <2>1, ConstantTypes
    <3> QED
      BY <1>1, <1>2, <2>1, <3>1, ConstantTypes DEF Types, TypeOK
  <2>3. SumFollows'
    <3>1. CASE mixed
      <4>1. tracer'.span > 0
        BY <1>1, <2>1
      <4>2. restarts > 0 /\ AbsInt(offset) <= AbsInt(start) + drifted
        BY <3>1 DEF IInv, SumFollows
      <4> QED
        BY <1>2, <2>1, <3>1, <4>1, <4>2 DEF SumFollows
    <3>2. CASE ~ mixed
      <4>1. LET n == tracer.span + 1
                a == tracer.sum + (offset + j)
            IN  /\ a - n * offset <= n * (drifted + Jitter)
                /\ n * offset - a <= n * (drifted + Jitter)
        BY <3>2, SumWithSample
      <4> QED
        BY <2>1, <3>2, <4>1 DEF SumFollows
    <3> QED
      BY <3>1, <3>2
  <2>4. Near'
    BY <1>2, <1>3, <2>1 DEF IInv, Near
  <2> QED
    BY <2>2, <2>3, <2>4 DEF IInv
<1> QED
  BY <1>4, <1>5

-----------------------------------------------------------------------------
(* The clocks.                                                             *)

\* One tick of drift moves the offset by one, and the bounds on the sum by span.
LEMMA DriftKeeps ==
  ASSUME IInv, NEW d \in {-1, 1}, ClocksDrift(d)
  PROVE  IInv'
<1>1. /\ offset \in Int /\ start \in Int /\ restarts \in 0 .. MaxRestarts
      /\ drifted \in 0 .. Rate /\ tracer.span \in Nat /\ tracer.sum \in Int
  BY ConstantTypes DEF IInv, Types, TypeOK
<1>2. /\ drifted < Rate /\ drifted' = drifted + 1 /\ offset' = offset + d
      /\ tracer' = tracer /\ steady' = steady /\ restarts' = restarts
      /\ start' = start /\ mixed' = mixed
  BY DEF ClocksDrift
<1>3. /\ offset' \in Int /\ drifted' \in 0 .. Rate
      /\ AbsInt(offset') \in Nat /\ AbsInt(offset') <= AbsInt(offset) + 1
  BY <1>1, <1>2, ConstantTypes DEF AbsInt
<1>4. Types'
  BY <1>2, <1>3 DEF IInv, Types, TypeOK
<1>5. /\ Farthest(AbsInt(start), Tolerance) \in Nat /\ Slack \in Nat
      /\ AbsInt(offset) \in Nat /\ AbsInt(start) \in Nat
  BY BoundTypes DEF IInv
<1>6. SumFollows'
  <2>1. CASE mixed
    <3>1. restarts > 0 /\ tracer.span > 0 /\ AbsInt(offset) <= AbsInt(start) + drifted
      BY <2>1 DEF IInv, SumFollows
    <3>2. AbsInt(offset') <= AbsInt(start) + drifted'
      BY <1>1, <1>2, <1>3, <1>5, <3>1
    <3> QED
      BY <1>2, <2>1, <3>1, <3>2 DEF SumFollows
  <2>2. CASE ~ mixed
    <3> DEFINE n == tracer.span
               e == drifted + Jitter
    <3>1. tracer.sum - n * offset <= n * e /\ n * offset - tracer.sum <= n * e
      BY <2>2 DEF IInv, SumFollows
    <3>2. n \in Nat /\ e \in Nat /\ drifted' + Jitter = e + 1
      BY <1>1, <1>2, ConstantTypes
    <3> HIDE DEF n, e
    <3>3. /\ n * offset \in Int /\ n * e \in Int
          /\ n * (e + 1) = n * e + n
          /\ n * offset' = n * offset + n \/ n * offset' = n * offset - n
      BY <1>1, <1>2, <3>2
    <3>4. tracer.sum - n * offset' <= n * (e + 1) /\ n * offset' - tracer.sum <= n * (e + 1)
      BY <1>1, <3>1, <3>2, <3>3
    <3> QED
      BY <1>2, <2>2, <3>2, <3>4 DEF SumFollows, n
  <2> QED
    BY <2>1, <2>2
<1>7. Near'
  <2>1. Slack' = Slack
    BY <1>2 DEF Slack
  <2>2. Rate <= MAX_DRIFT =>
          AbsInt(offset) <= Farthest(AbsInt(start), Tolerance) + Slack + drifted
    BY DEF IInv, Near
  <2> QED
    BY <1>1, <1>2, <1>3, <1>5, <2>1, <2>2 DEF Near
<1> QED
  BY <1>4, <1>6, <1>7 DEF IInv

\* A restart begins a new offset; only its span is mixed.
LEMMA RestartKeeps ==
  ASSUME IInv, NEW jump \in Jumps, RemoteRestarts(jump)
  PROVE  IInv'
<1>1. /\ offset \in Int /\ restarts \in 0 .. MaxRestarts /\ jump \in Int
      /\ drifted \in 0 .. Rate /\ tracer.span \in 0 .. MAX_SPAN - 1 /\ tracer.sum \in Int
      /\ mixed \in BOOLEAN
  BY ConstantTypes, EnvironmentAssumption DEF IInv, Types, TypeOK
<1>2. /\ restarts < MaxRestarts /\ restarts' = restarts + 1
      /\ offset' = offset + jump /\ start' = offset' /\ mixed' = (tracer.span > 0)
      /\ tracer' = tracer /\ drifted' = drifted /\ steady' = steady
  BY DEF RemoteRestarts
<1>3. offset' \in Int /\ restarts' \in 0 .. MaxRestarts /\ restarts' > 0 /\ mixed' \in BOOLEAN
  BY <1>1, <1>2, ConstantTypes
<1>4. Types'
  BY <1>2, <1>3 DEF IInv, Types, TypeOK
<1>5. AbsInt(offset') \in Nat /\ AbsInt(offset') <= AbsInt(start') + drifted'
  BY <1>1, <1>2, <1>3 DEF AbsInt
<1>6. SumFollows'
  <2>1. CASE tracer.span > 0
    BY <1>2, <1>3, <1>5, <2>1 DEF SumFollows
  <2>2. CASE tracer.span = 0
    <3>1. ~ mixed /\ mixed' = FALSE
      <4>1. ~ (tracer.span > 0)
        BY <2>2
      <4>2. mixed' = (tracer.span > 0)
        BY <1>2
      <4>3. ~ mixed
        BY <4>1 DEF IInv, SumFollows
      <4>4. CASE mixed' = TRUE
        BY <4>1, <4>2, <4>4
      <4>5. mixed' \in BOOLEAN
        BY <4>2
      <4> QED
        BY <4>3, <4>4, <4>5
    <3>2. tracer.sum = 0
      <4>1. /\ tracer.sum - 0 * offset <= 0 * (drifted + Jitter)
            /\ 0 * offset - tracer.sum <= 0 * (drifted + Jitter)
        BY <2>2, <3>1 DEF IInv, SumFollows
      <4> QED
        BY <1>1, <4>1, ConstantTypes
    <3>3. /\ 0 - 0 * offset' <= 0 * (drifted' + Jitter)
          /\ 0 * offset' - 0 <= 0 * (drifted' + Jitter)
      BY <1>1, <1>2, <1>3, ConstantTypes
    <3> QED
      BY <1>2, <2>2, <3>1, <3>2, <3>3 DEF SumFollows
  <2> QED
    BY <1>1, <2>1, <2>2
<1>7. Near'
  <2>1. /\ Slack' \in Nat /\ AbsInt(start') \in Nat
        /\ Farthest(AbsInt(start'), Tolerance) \in Nat
        /\ AbsInt(start') <= Farthest(AbsInt(start'), Tolerance)
    <3>1. AbsInt(start') \in Nat /\ Slack' \in Nat
      BY <1>2, <1>5, ConstantTypes DEF Slack
    <3> QED
      BY <3>1, ConstantTypes DEF Farthest
  <2> QED
    BY <1>1, <1>2, <1>5, <2>1 DEF Near
<1> QED
  BY <1>4, <1>6, <1>7 DEF IInv

-----------------------------------------------------------------------------
(* The theorems.                                                           *)

LEMMA NextIInv == IInv /\ [Next]_vars => IInv'
<1> SUFFICES ASSUME IInv, [Next]_vars PROVE IInv'
  OBVIOUS
<1>1. CASE Sample
  BY <1>1, SampleKeeps DEF Sample
<1>2. ASSUME NEW d \in {-1, 1}, ClocksDrift(d)
      PROVE  IInv'
  BY <1>2, DriftKeeps
<1>3. ASSUME NEW jump \in Jumps, RemoteRestarts(jump)
      PROVE  IInv'
  BY <1>3, RestartKeeps
<1>4. CASE ClocksSettle
  <2>1. steady' \in BOOLEAN
    BY <1>4 DEF ClocksSettle
  <2> QED
    BY <1>4, <2>1 DEF ClocksSettle, IInv, Types, TypeOK, SumFollows, Near, Slack
<1>5. CASE UNCHANGED vars
  BY <1>5 DEF vars, IInv, Types, TypeOK, SumFollows, Near, Slack
<1> QED
  BY <1>1, <1>2, <1>3, <1>4, <1>5 DEF Next

LEMMA Invariance == Spec => []IInv
  BY InitIInv, NextIInv, PTL DEF Spec

\* The counters and the estimates stay in range (app/drift_tracer.hpp:29-66).
THEOREM TypeCorrect == Spec => []TypeOK
<1>1. IInv => TypeOK
  BY DEF IInv, Types
<1> QED
  BY <1>1, Invariance, PTL

\* If the clocks drift no faster than one correction per span, the base follows:
\* the offset grows neither with the number of corrections nor with that of the
\* restarts (app/drift_tracer.hpp:37-51, app/tsbpd.hpp:26-31).
THEOREM OffsetStaysBounded == Spec => []OffsetBounded
<1>1. IInv => OffsetBounded
  <2> SUFFICES ASSUME IInv, Rate <= MAX_DRIFT
               PROVE  AbsInt(offset) <= Farthest(AbsInt(start), Tolerance) + Rate
                        + IF restarts > 0 THEN MAX_DRIFT + Rate ELSE 0
    BY DEF OffsetBounded
  <2>1. AbsInt(offset) <= Farthest(AbsInt(start), Tolerance) + Slack + drifted
    BY DEF IInv, Near
  <2>2. /\ drifted \in 0 .. Rate /\ AbsInt(offset) \in Nat /\ Slack \in Nat
        /\ Farthest(AbsInt(start), Tolerance) \in Nat
    BY BoundTypes DEF IInv, Types, TypeOK
  <2>3. AbsInt(offset) <= Farthest(AbsInt(start), Tolerance) + Rate + Slack
    BY <2>1, <2>2, ConstantTypes
  <2> QED
    BY <2>3 DEF Slack
<1> QED
  BY <1>1, Invariance, PTL

\* No correction overshoots by more than jitter and drift, whatever the constants,
\* but for the one that ends a span with a restart in it
\* (app/drift_tracer.hpp:45-49).
THEOREM CorrectionsDoNotOvershoot == Spec => NoOvershoot
<1>1. IInv => (Sample /\ CompletesSpan(tracer) /\ tracer'.overdrift # 0 /\ ~ mixed
                 => \/ AbsInt(offset') < AbsInt(offset)
                    \/ AbsInt(offset') <= Jitter + Rate)
  <2> SUFFICES ASSUME IInv, Sample, CompletesSpan(tracer), tracer'.overdrift # 0, ~ mixed
               PROVE  AbsInt(offset') < AbsInt(offset) \/ AbsInt(offset') <= Jitter + Rate
    OBVIOUS
  <2> DEFINE err == drifted + Jitter
  <2>1. PICK j \in -Jitter .. Jitter : TakeSample(j)
    BY DEF Sample
  <2>2. PICK mean \in Int : /\ offset - err <= mean /\ mean <= offset + err
                            /\ tracer'.overdrift = Excess(mean)
    BY <2>1, SpanMean
  <2>3. offset' = offset - Excess(mean)
    BY <2>1, <2>2, SampleFacts
  <2>4. offset \in Int /\ err \in Nat /\ err <= Jitter + Rate
    BY ConstantTypes DEF IInv, Types, TypeOK
  <2> HIDE DEF err
  <2>5. AbsInt(offset') < AbsInt(offset) \/ AbsInt(offset') <= err
    BY <2>2, <2>3, <2>4, CorrectionHelps
  <2>6. AbsInt(offset') \in Nat
    <3>1. offset' \in Int
      BY <2>2, <2>3, <2>4, CorrectionHelps
    <3> QED
      BY <3>1, AbsNat
  <2> QED
    BY <2>4, <2>5, <2>6, ConstantTypes
<1> QED
  BY <1>1, Invariance, PTL DEF NoOvershoot

=============================================================================
