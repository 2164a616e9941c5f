--------------------------- MODULE DriftTracerOps ---------------------------
(***************************************************************************)
(* The class template DriftTracer of app/drift_tracer.hpp as a value, with *)
(* CLEAR_ON_UPDATE = true, the only way the program instantiates it.       *)
(* forceDrift() has no caller.  The 64-bit sums can not overflow: they are *)
(* reset every MAX_SPAN samples.                                           *)
(***************************************************************************)
EXTENDS CInt

CONSTANTS MAX_SPAN,    \* samples in one mean, 1000 in app/tsbpd.hpp
          MAX_DRIFT    \* the largest drift that is not corrected, 5000 us

ASSUME SpanAssumption == MAX_SPAN \in Nat \ {0}
ASSUME MaxDriftAssumption == MAX_DRIFT \in Nat \ {0}

NewTracer == [drift |-> 0, overdrift |-> 0, sum |-> 0, span |-> 0]

\* Mutant: one sample too many.
CompletesLate(t) == t.span + 1 > MAX_SPAN

\* What update() returns: this sample completes a span.
CompletesSpan(t) == t.span + 1 >= MAX_SPAN

MeanWith(t, v) == TruncDiv(t.sum + v, t.span + 1)

\* Mutant: the whole mean is moved.
ExcessUncapped(mean) == IF AbsInt(mean) <= MAX_DRIFT THEN 0 ELSE mean

\* Mutant: the wrong direction.
ExcessReversed(mean) == IF AbsInt(mean) <= MAX_DRIFT THEN 0
                        ELSE IF mean < 0 THEN MAX_DRIFT ELSE -MAX_DRIFT

\* Mutant: corrects too late.
ExcessReluctant(mean) == IF AbsInt(mean) <= 4 * MAX_DRIFT THEN 0
                         ELSE IF mean < 0 THEN -MAX_DRIFT ELSE MAX_DRIFT

\* The part of a mean that is moved into the time base.
Excess(mean) == IF AbsInt(mean) <= MAX_DRIFT THEN 0
                ELSE IF mean < 0 THEN -MAX_DRIFT ELSE MAX_DRIFT

\* Mutant: the sum survives its span.
UpdateKeepsSum(t, v) ==
  IF CompletesSpan(t)
  THEN LET mean == MeanWith(t, v)
       IN  [t EXCEPT !.drift = mean - Excess(mean), !.overdrift = Excess(mean),
                     !.sum = @ + v, !.span = 0]
  ELSE [t EXCEPT !.sum = @ + v, !.span = @ + 1, !.overdrift = 0]

Update(t, v) ==
  IF CompletesSpan(t)
  THEN LET mean == MeanWith(t, v)
       IN  [ drift     |-> mean - Excess(mean),
             overdrift |-> Excess(mean),
             sum       |-> 0,
             span      |-> 0 ]
  ELSE [t EXCEPT !.sum = @ + v, !.span = @ + 1, !.overdrift = 0]

=============================================================================
