----------------------------- MODULE DriftTracer -----------------------------
(***************************************************************************)
(* DriftTracer in the loop it is made for (app/tsbpd.hpp:23-31): every     *)
(* sample is the true offset of the time base plus the jitter of its       *)
(* packet, and whenever update() returns true its overdrift is added to    *)
(* the base, which takes it off the offset.                                *)
(*                                                                         *)
(* The remote clock wanders by at most Rate while one span is collected,   *)
(* until, some time, it is steady.  A remote that starts again begins its  *)
(* clock anew (g_start_time_std of app/start.cpp): the peer that stays up  *)
(* keeps its base and the samples of the span, and sees the offset jump.   *)
(*                                                                         *)
(* Bound: MaxRestarts.                                                     *)
(***************************************************************************)
EXTENDS DriftTracerOps

CONSTANTS Jitter,         \* bound on the deviation of one packet
          Rate,           \* bound on the drift of the clocks in one span
          StartOffsets,   \* offsets of the base when tracing begins
          Jumps,          \* and by how much a restart of the remote moves them
          MaxRestarts

ASSUME EnvironmentAssumption == /\ Jitter \in Nat /\ Rate \in Nat
                                /\ StartOffsets \subseteq Int /\ Jumps \subseteq Int
                                /\ MaxRestarts \in Nat

VARIABLES tracer,
          offset,     \* remote clock against the time base
          drifted,    \* how far the clocks have moved in this span
          steady,     \* the clocks keep their distance from now on
          restarts,   \* how often the remote has started again
          start,      \* history: the offset this run, or the remote's, began with
          mixed       \* history: this span has samples of two runs of the remote

vars == <<tracer, offset, drifted, steady, restarts, start, mixed>>

Init == /\ tracer = NewTracer
        /\ offset \in StartOffsets
        /\ drifted = 0
        /\ steady = FALSE
        /\ restarts = 0
        /\ start = offset
        /\ mixed = FALSE

TakeSample(j) ==
  /\ tracer' = Update(tracer, offset + j)
  /\ IF CompletesSpan(tracer)
     THEN offset' = offset - tracer'.overdrift /\ drifted' = 0 /\ mixed' = FALSE
     ELSE UNCHANGED <<offset, drifted, mixed>>
  /\ UNCHANGED <<steady, restarts, start>>

Sample == \E j \in -Jitter .. Jitter : TakeSample(j)

ClocksDrift(d) ==
  /\ ~ steady /\ drifted < Rate
  /\ drifted' = drifted + 1
  /\ offset' = offset + d
  /\ UNCHANGED <<tracer, steady, restarts, start, mixed>>

RemoteRestarts(jump) ==
  /\ ~ steady /\ restarts < MaxRestarts
  /\ restarts' = restarts + 1
  /\ offset' = offset + jump
  /\ start' = offset'
  /\ mixed' = (tracer.span > 0)
  /\ UNCHANGED <<tracer, drifted, steady>>

ClocksSettle ==
  /\ ~ steady
  /\ steady' = TRUE
  /\ UNCHANGED <<tracer, offset, drifted, restarts, start, mixed>>

Next == \/ Sample \/ ClocksSettle
        \/ \E d \in {-1, 1} : ClocksDrift(d)
        \/ \E jump \in Jumps : RemoteRestarts(jump)

Spec == Init /\ [][Next]_vars

\* ACKACKs keep coming in while both peers run (README.md:113).
FairSpec == Spec /\ WF_vars(Sample)

-----------------------------------------------------------------------------
\* Offsets the tracer is made to hold.
Tolerance == MAX_DRIFT + Jitter + Rate

Farthest(a, b) == IF a >= b THEN a ELSE b

\* The counters and the estimates stay in range.
TypeOK == /\ tracer.span \in 0 .. MAX_SPAN - 1
          /\ tracer.sum \in Int /\ tracer.drift \in Int
          /\ tracer.overdrift \in {-MAX_DRIFT, 0, MAX_DRIFT}
          /\ offset \in Int /\ start \in Int /\ restarts \in 0 .. MaxRestarts
          /\ drifted \in 0 .. Rate /\ steady \in BOOLEAN /\ mixed \in BOOLEAN

\* The base follows the remote clock: as long as the clocks drift no faster
\* than one correction per span, the offset never grows beyond the one it
\* started with or the tolerance, whichever is larger, by more than one span
\* of drift.  Corrections that overshoot or point away from the remote clock,
\* or a sum that survives its span, break it (app/drift_tracer.hpp:37-51).  A
\* restart of the remote may cost the drift of the span it falls into and one
\* correction that the samples of the former run ask for.
OffsetBounded ==
  Rate <= MAX_DRIFT =>
    AbsInt(offset) <= Farthest(AbsInt(start), Tolerance) + Rate
                        + IF restarts > 0 THEN MAX_DRIFT + Rate ELSE 0

\* A correction never leaves the base further off than the jitter and the
\* drift within the span explain, unless the remote started again within it.
NoOvershoot ==
  [][Sample /\ CompletesSpan(tracer) /\ tracer'.overdrift # 0 /\ ~ mixed
       => \/ AbsInt(offset') < AbsInt(offset)
          \/ AbsInt(offset') <= Jitter + Rate]_vars

\* Once the clocks are steady any offset is worked off, span by span, down to
\* what is not corrected, and stays there; also one that a restart of the remote
\* has left.
Settles == steady ~> [](AbsInt(offset) <= MAX_DRIFT + Jitter)

=============================================================================
