---------------------------- MODULE RttEstimator ----------------------------
(***************************************************************************)
(* g_path.rtt and g_path.rtt_var under any sequence of RTT samples, then   *)
(* under a constant one.  Samples holds the values acknowledge() can give: *)
(* round trips, zero, the -1 of a miss, and the negative difference of an  *)
(* ACK whose send time is read after its reply came in.                    *)
(***************************************************************************)
EXTENDS RttOps

CONSTANT Samples

ASSUME SamplesAssumption ==
  \A s \in Samples : /\ s \in Int
                     /\ 16 * s < IntMod /\ -IntMod < 16 * s

VARIABLES rtt, rtt_var,
          lo, hi,    \* history: the extreme samples since the last fresh start
          first,     \* history: the sample of the last fresh start
          steady     \* the sample that repeats from now on, or {} before that

vars == <<rtt, rtt_var, lo, hi, first, steady>>

Init == /\ rtt = 0 /\ rtt_var = 0
        /\ lo = 0 /\ hi = 0 /\ first = 0
        /\ steady = {}

Feed(s) ==
  /\ rtt' = NextRtt(rtt, s)
  /\ rtt_var' = NextRttVar(rtt, rtt_var, s)
  /\ lo' = IF rtt # 0 /\ lo < s THEN lo ELSE s
  /\ hi' = IF rtt # 0 /\ hi > s THEN hi ELSE s
  /\ first' = IF rtt = 0 THEN s ELSE first

Sample(s) == steady = {} /\ Feed(s) /\ UNCHANGED steady

Settle(s) == steady = {} /\ steady' = {s} /\ UNCHANGED <<rtt, rtt_var, lo, hi, first>>

Repeat == \E s \in steady : Feed(s) /\ UNCHANGED steady

Next == \/ \E s \in Samples : Sample(s) \/ Settle(s)
        \/ Repeat

Spec == Init /\ [][Next]_vars

\* ACKACKs keep coming in for as long as both peers run: README.md:113.
FairSpec == Spec /\ WF_vars(Repeat)

-----------------------------------------------------------------------------
Least(a, b) == IF a <= b THEN a ELSE b
Greatest(a, b) == IF a >= b THEN a ELSE b

Ints == -(IntMod \div 2) .. IntMod \div 2 - 1

\* Both estimates are ints, whatever the samples.
TypeOK == /\ rtt \in Ints /\ rtt_var \in Ints
          /\ lo \in Samples \cup {0} /\ hi \in Samples \cup {0} /\ first \in Samples \cup {0}
          /\ steady \subseteq Samples

\* The smoothed RTT never leaves the range of the samples it was made from, for
\* all the mixing of int and size_t in avg_rma (app/utils.hpp:9).
RttWithinSamples == lo <= rtt /\ rtt <= hi

\* The variance stays between the halved first sample (or zero) and the widest
\* distance between two samples (app/start.cpp:121,125).
VarWithinSpread == /\ Least(TruncDiv(first, 2), 0) <= rtt_var
                   /\ rtt_var <= Greatest(TruncDiv(first, 2), hi - lo)

\* Once the path is steady the estimate comes to rest on the RTT or, because
\* the quotient is rounded down, up to 7 us below it; the variance comes to
\* rest within 3 us of that distance.
Tracks == \A c \in Samples :
  (steady = {c}) ~> [](/\ c - 7 <= rtt /\ rtt <= c
                       /\ -3 <= rtt_var /\ rtt_var <= 7)

=============================================================================
