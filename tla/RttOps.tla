------------------------------- MODULE RttOps -------------------------------
(***************************************************************************)
(* The smoothed RTT of path_metrics: avg_rma of app/utils.hpp and the part *)
(* of on_ctrl_ackack (app/start.cpp) that feeds it, as operators.          *)
(*                                                                         *)
(* avg_rma<N> is written for `int' but N is a std::size_t: the sum and the *)
(* quotient are taken modulo SizeMod, and the result is cut to an int.     *)
(***************************************************************************)
EXTENDS CInt

CONSTANTS IntMod,   \* 2^32, the number of values of an int
          SizeMod   \* 2^64, the number of values of a size_t

\* A size_t has at least three bits more than an int, as on 64-bit builds.
ASSUME WidthAssumption ==
  /\ IntMod \in Nat \ {0} /\ IntMod % 2 = 0
  /\ SizeMod \in Nat \ {0} /\ SizeMod % (8 * IntMod) = 0

\* The int with the same low bits as a size_t.
ToInt(u) == LET r == u % IntMod IN IF r < IntMod \div 2 THEN r ELSE r - IntMod

\* Mutant: the quotient stays a size_t.
avg_rma_wide(n, old, new) == ((old * (n - 1) + new) % SizeMod) \div n

\* Mutant: the old value has the weight n.
avg_rma_heavy(n, old, new) == ToInt(((old * n + new) % SizeMod) \div n)

avg_rma(n, old, new) == ToInt(((old * (n - 1) + new) % SizeMod) \div n)

-----------------------------------------------------------------------------
\* rtt = 0 means that there is no estimate yet.
NextRtt(rtt, sample) ==
  IF rtt = 0 THEN sample ELSE avg_rma(8, rtt, sample)

\* Mutant: deviations with their sign.
NextRttVarSigned(rtt, rtt_var, sample) ==
  IF rtt = 0 THEN TruncDiv(sample, 2) ELSE avg_rma(4, rtt_var, sample - rtt)

\* Mutant: deviations from zero.
NextRttVarOfSample(rtt, rtt_var, sample) ==
  IF rtt = 0 THEN TruncDiv(sample, 2) ELSE avg_rma(4, rtt_var, AbsInt(sample))

\* The deviation is taken from the estimate before this sample.
NextRttVar(rtt, rtt_var, sample) ==
  IF rtt = 0 THEN TruncDiv(sample, 2)
             ELSE avg_rma(4, rtt_var, AbsInt(sample - rtt))

=============================================================================
