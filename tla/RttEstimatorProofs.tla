------------------------- MODULE RttEstimatorProofs -------------------------
(***************************************************************************)
(* Proofs about RttEstimator: for every width of an int and of a size_t    *)
(* and every set of samples that keeps clear of the ends of an int.        *)
(*                                                                         *)
(* The argument is that avg_rma is the weighted mean, rounded down: what   *)
(* wraps around in the sum leaves a multiple of IntMod in the quotient,    *)
(* which the cut to an int takes off again.  A mean is between its parts.  *)
(***************************************************************************)
EXTENDS RttEstimator, TLAPS

-----------------------------------------------------------------------------
(* Divisions and widths.                                                   *)

\* Quotient and remainder are the only ones.
LEMMA Unique ==
  ASSUME NEW t \in Int, NEW d \in Nat \ {0}, NEW q \in Int, NEW r \in 0 .. d - 1,
         t = d * q + r
  PROVE  t % d = r /\ t \div d = q
  OBVIOUS

\* A number that an int can hold is what is left of it after adding any multiple
\* of IntMod.
LEMMA ToIntOfShifted ==
  ASSUME NEW c \in Int, NEW y \in Int, 2 * y < IntMod, -IntMod <= 2 * y
  PROVE  ToInt(IntMod * c + y) = y
<1> DEFINE u == IntMod * c + y
<1>1. IntMod \in Nat \ {0} /\ IntMod = 2 * (IntMod \div 2) /\ IntMod \div 2 \in Nat
  BY WidthAssumption
<1>2. CASE y >= 0
  <2>1. y \in 0 .. IntMod - 1 /\ y < IntMod \div 2
    BY <1>1, <1>2
  <2>2. u \in Int
    BY <1>1
  <2>3. u % IntMod = y
    BY <1>1, <2>1, <2>2, Unique
  <2> QED
    BY <2>1, <2>3 DEF ToInt
<1>3. CASE y < 0
  <2> DEFINE r == IntMod + y
  <2>1. r \in 0 .. IntMod - 1 /\ ~ (r < IntMod \div 2) /\ r - IntMod = y
    BY <1>1, <1>3
  <2>2. u \in Int /\ c - 1 \in Int /\ u = IntMod * (c - 1) + r
    BY <1>1
  <2>3. u % IntMod = r
    <3> HIDE DEF u, r
    <3> QED
      BY <1>1, <2>1, <2>2, Unique
  <2> QED
    BY <2>1, <2>3 DEF ToInt
<1> QED
  BY <1>2, <1>3

\* A mean that is rounded down is between what the mean is of.
LEMMA MeanBetween ==
  ASSUME NEW n \in {4, 8}, NEW old \in Int, NEW new \in Int,
         NEW low \in Int, NEW high \in Int,
         low <= old, old <= high, low <= new, new <= high
  PROVE  LET x == old * (n - 1) + new
         IN  /\ x \in Int /\ x \div n \in Int
             /\ low <= x \div n /\ x \div n <= high
<1>1. CASE n = 4
  <2> DEFINE x == old * 3 + new
  <2>1. x \in Int /\ 4 * low <= x /\ x <= 4 * high
    OBVIOUS
  <2> HIDE DEF x
  <2>2. x \div 4 \in Int /\ low <= x \div 4 /\ x \div 4 <= high
    BY <2>1
  <2>3. n - 1 = 3
    BY <1>1
  <2> QED
    BY <1>1, <2>1, <2>2, <2>3 DEF x
<1>2. CASE n = 8
  <2> DEFINE x == old * 7 + new
  <2>1. x \in Int /\ 8 * low <= x /\ x <= 8 * high
    OBVIOUS
  <2> HIDE DEF x
  <2>2. x \div 8 \in Int /\ low <= x \div 8 /\ x \div 8 <= high
    BY <2>1
  <2>3. n - 1 = 7
    BY <1>2
  <2> QED
    BY <1>2, <2>1, <2>2, <2>3 DEF x
<1> QED
  BY <1>1, <1>2

\* A size_t has a multiple of 8 times as many values as an int.
LEMMA SizeIsMultiple ==
  ASSUME NEW n \in {4, 8}
  PROVE  \E m \in Nat \ {0} : SizeMod = n * (IntMod * m)
<1> DEFINE k == SizeMod \div (8 * IntMod)
<1>1. /\ SizeMod \in Nat \ {0} /\ IntMod \in Nat \ {0} /\ 8 * IntMod \in Nat \ {0}
      /\ SizeMod % (8 * IntMod) = 0
  BY WidthAssumption
<1>2. k \in Nat \ {0} /\ SizeMod = (8 * IntMod) * k
  BY <1>1
<1> HIDE DEF k
<1>3. SizeMod = 8 * (IntMod * k) /\ SizeMod = 4 * (IntMod * (2 * k)) /\ 2 * k \in Nat \ {0}
  BY <1>1, <1>2
<1>4. CASE n = 4
  BY <1>3, <1>4
<1>5. CASE n = 8
  BY <1>2, <1>3, <1>5
<1> QED
  BY <1>4, <1>5

\* Numbers within 1/8 of the range are averaged as if there were no widths.
LEMMA AvgIsMean ==
  ASSUME NEW n \in {4, 8}, NEW old \in Int, NEW new \in Int,
         8 * old < IntMod, -IntMod < 8 * old, 8 * new < IntMod, -IntMod < 8 * new
  PROVE  avg_rma(n, old, new) = (old * (n - 1) + new) \div n
<1> DEFINE x == old * (n - 1) + new
           y == x \div n
           low == IF old <= new THEN old ELSE new
           high == IF old <= new THEN new ELSE old
<1>1. /\ low \in Int /\ low <= old /\ low <= new /\ -IntMod < 8 * low
      /\ high \in Int /\ old <= high /\ new <= high /\ 8 * high < IntMod
  OBVIOUS
<1>2. x \in Int /\ y \in Int /\ low <= y /\ y <= high
  BY <1>1, MeanBetween
<1> HIDE DEF x, low, high
<1>3. IntMod \in Nat \ {0}
  BY WidthAssumption
<1>4. 2 * y < IntMod /\ -IntMod <= 2 * y
  BY <1>1, <1>2, <1>3
<1>5. PICK m \in Nat \ {0} : SizeMod = n * (IntMod * m)
  BY SizeIsMultiple
<1> DEFINE p == IntMod * m
<1>6. p \in Nat \ {0} /\ IntMod <= p
  BY <1>3, <1>5
<1>7. n \in Nat \ {0} /\ SizeMod \in Nat \ {0}
  BY WidthAssumption
<1>8. x < SizeMod /\ -SizeMod <= x
  <2>1. x < n * (y + 1) /\ n * y <= x
    BY <1>2, <1>7
  <2>2. y + 1 <= p /\ -p <= y
    BY <1>3, <1>4, <1>6, <1>2
  <2>3. n * (y + 1) <= n * p /\ -(n * p) <= n * y
    <3> HIDE DEF p, y
    <3>1. CASE n = 4
      BY <1>2, <1>6, <2>2, <3>1
    <3>2. CASE n = 8
      BY <1>2, <1>6, <2>2, <3>2
    <3> QED
      BY <3>1, <3>2
  <2>4. n * p \in Int /\ n * y \in Int /\ n * (y + 1) \in Int
    BY <1>2, <1>6, <1>7
  <2> HIDE DEF p, y
  <2> QED
    BY <1>2, <1>5, <2>1, <2>3, <2>4 DEF p
<1>9. CASE x >= 0
  <2>1. x % SizeMod = x
    BY <1>2, <1>7, <1>8, <1>9
  <2>2. y = IntMod * 0 + y
    BY <1>2, <1>3
  <2>3. ToInt(y) = y
    BY <1>2, <1>4, <2>2, ToIntOfShifted
  <2> QED
    BY <2>1, <2>3 DEF avg_rma, x
<1>10. CASE x < 0
  <2>1. x % SizeMod = SizeMod + x
    <3> DEFINE r == SizeMod + x
    <3>1. r \in 0 .. SizeMod - 1 /\ -1 \in Int /\ x = SizeMod * (-1) + r
      BY <1>2, <1>7, <1>8, <1>10
    <3>2. x % SizeMod = r
      <4> HIDE DEF r
      <4> QED
        BY <1>2, <1>7, <3>1, Unique
    <3> QED
      BY <3>2
  <2>2. (SizeMod + x) \div n = p + y
    <3> DEFINE r == x % n
    <3>1. r \in 0 .. n - 1 /\ x = n * y + r
      BY <1>2, <1>7
    <3>2. n * (p + y) = n * p + n * y /\ n * p \in Int /\ n * y \in Int /\ p + y \in Int
      BY <1>2, <1>6, <1>7
    <3> HIDE DEF r, y, p
    <3>3. SizeMod + x = n * (p + y) + r
      BY <1>5, <1>2, <3>1, <3>2 DEF p
    <3>4. SizeMod + x \in Int
      BY <1>2, <1>7
    <3> QED
      BY <1>7, <3>1, <3>2, <3>3, <3>4, Unique
  <2>3. ToInt(p + y) = y
    BY <1>2, <1>4, <1>5, ToIntOfShifted
  <2> QED
    BY <2>1, <2>2, <2>3 DEF avg_rma, x
<1> QED
  BY <1>2, <1>9, <1>10 DEF x

-----------------------------------------------------------------------------
(* The invariant.                                                          *)

\* Half of a sample lies between it and zero.
LEMMA HalfWithin ==
  ASSUME NEW s \in Int
  PROVE  /\ TruncDiv(s, 2) \in Int
         /\ s >= 0 => 0 <= TruncDiv(s, 2) /\ TruncDiv(s, 2) <= s
         /\ s < 0 => s <= TruncDiv(s, 2) /\ TruncDiv(s, 2) <= 0
<1>1. CASE s >= 0
  BY <1>1 DEF TruncDiv
<1>2. CASE s < 0
  <2>1. (-s) \div 2 \in Int /\ 0 <= (-s) \div 2 /\ (-s) \div 2 <= -s
    BY <1>2
  <2> QED
    BY <1>2, <2>1 DEF TruncDiv
<1> QED
  BY <1>1, <1>2

\* The numbers a sample can be, and the ends of a range of samples.
Values == Samples \cup {0}

LEMMA ValueTypes ==
  ASSUME NEW s \in Values
  PROVE  s \in Int /\ 16 * s < IntMod /\ -IntMod < 16 * s
<1>1. IntMod \in Nat \ {0}
  BY WidthAssumption
<1>2. CASE s \in Samples
  BY <1>2, SamplesAssumption
<1>3. CASE s = 0
  BY <1>1, <1>3
<1> QED
  BY <1>2, <1>3 DEF Values

\* Where the variance may be, for the range and the first sample.
VarLow == Least(TruncDiv(first, 2), 0)
VarHigh == Greatest(TruncDiv(first, 2), hi - lo)

Types == /\ lo \in Values /\ hi \in Values /\ first \in Values
         /\ rtt \in Int /\ rtt_var \in Int /\ steady \subseteq Samples

\* That both estimates are ints follows from where they are.
IInv == Types /\ RttWithinSamples /\ VarWithinSpread

LEMMA VarBounds ==
  ASSUME Types, lo <= hi
  PROVE  /\ VarLow \in Int /\ VarHigh \in Int /\ VarLow <= 0 /\ 0 <= VarHigh
         /\ -IntMod < 16 * VarLow /\ 8 * VarHigh < IntMod
         /\ hi - lo <= VarHigh
<1>1. /\ lo \in Int /\ hi \in Int /\ first \in Int
      /\ 16 * first < IntMod /\ -IntMod < 16 * first
      /\ 16 * hi < IntMod /\ -IntMod < 16 * lo
  BY ValueTypes DEF Types
<1> DEFINE half == TruncDiv(first, 2)
<1>2. /\ half \in Int
      /\ first >= 0 => (0 <= half /\ half <= first)
      /\ first < 0 => (first <= half /\ half <= 0)
  BY <1>1, HalfWithin
<1>3. IntMod \in Nat \ {0}
  BY WidthAssumption
<1> HIDE DEF half
<1>4. half \in Int /\ 16 * half < IntMod /\ -IntMod < 16 * half
  <2>1. CASE first >= 0
    BY <1>1, <1>2, <1>3, <2>1
  <2>2. CASE first < 0
    BY <1>1, <1>2, <1>3, <2>2
  <2> QED
    BY <1>1, <2>1, <2>2
<1>5. VarLow = Least(half, 0) /\ VarHigh = Greatest(half, hi - lo)
  BY DEF VarLow, VarHigh, half
<1>6. VarLow = IF half <= 0 THEN half ELSE 0
  BY <1>5 DEF Least
<1>7. VarHigh = IF half >= hi - lo THEN half ELSE hi - lo
  BY <1>5 DEF Greatest
<1>8. VarLow \in Int /\ VarLow <= 0 /\ -IntMod < 16 * VarLow
  BY <1>3, <1>4, <1>6
<1>9. VarHigh \in Int /\ 0 <= VarHigh /\ 8 * VarHigh < IntMod /\ hi - lo <= VarHigh
  BY <1>1, <1>3, <1>4, <1>7
<1> QED
  BY <1>8, <1>9

LEMMA InitIInv == Init => IInv
<1> SUFFICES ASSUME Init PROVE IInv
  OBVIOUS
<1>1. /\ rtt = 0 /\ rtt_var = 0 /\ lo = 0 /\ hi = 0 /\ first = 0 /\ steady = {}
  BY DEF Init
<1>2. Types /\ lo <= hi
  BY <1>1 DEF Types, Values
<1>3. VarLow <= rtt_var /\ rtt_var <= VarHigh
  BY <1>1, <1>2, VarBounds
<1> QED
  BY <1>1, <1>2, <1>3 DEF IInv, RttWithinSamples, VarWithinSpread, VarLow, VarHigh

\* A range that has grown.
LEMMA WiderRange ==
  ASSUME NEW l \in Int, NEW h \in Int, NEW l2 \in Int, NEW h2 \in Int, NEW m \in Int,
         l2 <= l, h <= h2, l <= h, 16 * h2 < m, -m < 16 * l2
  PROVE  /\ h2 - l2 \in Int /\ h - l <= h2 - l2 /\ 0 <= h2 - l2
         /\ 8 * (h2 - l2) < m
  OBVIOUS

\* Two numbers of a range are no further apart than its ends.
LEMMA DistanceWithin ==
  ASSUME NEW l \in Int, NEW h \in Int, NEW r \in Int, NEW s \in Int,
         l <= r, r <= h, l <= s, s <= h
  PROVE  AbsInt(s - r) \in Int /\ 0 <= AbsInt(s - r) /\ AbsInt(s - r) <= h - l
<1>1. CASE s - r >= 0
  BY <1>1 DEF AbsInt
<1>2. CASE ~ (s - r >= 0)
  BY <1>2 DEF AbsInt
<1> QED
  BY <1>1, <1>2

\* A sample keeps the invariant: the first one after a fresh start sets it, any
\* other one widens the range to hold it and moves the estimates within the range.
LEMMA FeedKeeps ==
  ASSUME IInv, NEW s \in Samples, Feed(s), steady' \subseteq Samples
  PROVE  IInv'
<1>1. /\ lo \in Int /\ hi \in Int /\ first \in Int /\ rtt \in Int /\ rtt_var \in Int
      /\ s \in Int /\ s \in Values
      /\ lo <= rtt /\ rtt <= hi
      /\ 16 * lo < IntMod /\ -IntMod < 16 * lo
      /\ 16 * hi < IntMod /\ -IntMod < 16 * hi
      /\ 16 * s < IntMod /\ -IntMod < 16 * s
  BY ValueTypes DEF IInv, Types, Values, RttWithinSamples
<1>2. VarLow <= rtt_var /\ rtt_var <= VarHigh
  BY DEF IInv, VarWithinSpread, VarLow, VarHigh
<1>3. CASE rtt = 0
  <2>1. /\ rtt' = s /\ rtt_var' = TruncDiv(s, 2) /\ lo' = s /\ hi' = s /\ first' = s
    BY <1>3 DEF Feed, NextRtt, NextRttVar
  <2>2. TruncDiv(s, 2) \in Int
    BY <1>1, HalfWithin
  <2>3. Types'
    BY <1>1, <2>1, <2>2 DEF Types
  <2>4. Least(TruncDiv(s, 2), 0) <= TruncDiv(s, 2)
    BY <2>2 DEF Least
  <2>5. TruncDiv(s, 2) <= Greatest(TruncDiv(s, 2), s - s)
    BY <1>1, <2>2 DEF Greatest
  <2>6. RttWithinSamples'
    BY <1>1, <2>1 DEF RttWithinSamples
  <2>7. VarWithinSpread'
    BY <2>1, <2>4, <2>5 DEF VarWithinSpread
  <2> QED
    BY <2>3, <2>6, <2>7 DEF IInv
<1>4. CASE rtt # 0
  <2>1. /\ rtt' = avg_rma(8, rtt, s) /\ rtt_var' = avg_rma(4, rtt_var, AbsInt(s - rtt))
        /\ lo' = (IF lo < s THEN lo ELSE s) /\ hi' = (IF hi > s THEN hi ELSE s)
        /\ first' = first
    BY <1>4 DEF Feed, NextRtt, NextRttVar
  <2>2. /\ lo' \in Values /\ hi' \in Values /\ first' \in Values
        /\ lo' \in Int /\ hi' \in Int /\ first' \in Int
        /\ lo' <= lo /\ hi <= hi' /\ lo' <= s /\ s <= hi' /\ lo' <= rtt /\ rtt <= hi'
        /\ 16 * hi' < IntMod /\ -IntMod < 16 * lo'
    BY <1>1, <2>1 DEF IInv, Types
  <2> DEFINE spread == hi' - lo'
  <2>14. spread \in Int /\ hi - lo <= spread /\ 8 * spread < IntMod /\ 0 <= spread
    <3>1. IntMod \in Int
      BY WidthAssumption
    <3>2. /\ lo' \in Int /\ hi' \in Int /\ lo' <= lo /\ hi <= hi' /\ lo <= hi
          /\ 16 * hi' < IntMod /\ -IntMod < 16 * lo'
      BY <1>1, <2>2
    <3> QED
      BY <1>1, <3>1, <3>2, WiderRange
  <2>3. rtt' = (rtt * (8 - 1) + s) \div 8
    <3>1. /\ 8 * rtt < IntMod /\ -IntMod < 8 * rtt /\ 8 * s < IntMod /\ -IntMod < 8 * s
      BY <1>1, WidthAssumption
    <3> QED
      BY <1>1, <2>1, <3>1, AvgIsMean
  <2>4. rtt' \in Int /\ lo' <= rtt' /\ rtt' <= hi'
    BY <1>1, <2>2, <2>3, MeanBetween
  <2> DEFINE dev == AbsInt(s - rtt)
             low == VarLow
             high == Greatest(TruncDiv(first, 2), spread)
  <2>5. dev \in Int /\ 0 <= dev /\ dev <= spread
    <3>1. /\ lo' \in Int /\ hi' \in Int
          /\ lo' <= s /\ s <= hi' /\ lo' <= rtt /\ rtt <= hi'
      BY <2>2
    <3> QED
      BY <1>1, <3>1, DistanceWithin
  <2>6. /\ low \in Int /\ low <= 0 /\ -IntMod < 16 * low /\ low <= rtt_var
        /\ VarHigh \in Int /\ 8 * VarHigh < IntMod
    BY <1>1, <1>2, VarBounds DEF IInv
  <2>7. high \in Int /\ VarHigh <= high /\ spread <= high /\ 8 * high < IntMod
    <3>1. TruncDiv(first, 2) \in Int
      BY <1>1, HalfWithin
    <3> DEFINE half == TruncDiv(first, 2)
    <3>2. VarHigh = (IF half >= hi - lo THEN half ELSE hi - lo)
      BY DEF VarHigh, Greatest
    <3>3. high = (IF half >= spread THEN half ELSE spread)
      BY DEF Greatest
    <3>4. hi - lo \in Int /\ IntMod \in Int
      BY <1>1, WidthAssumption
    <3>5. half \in Int
      BY <3>1
    <3> HIDE DEF half, high, spread
    <3> QED
      BY <2>6, <2>14, <3>2, <3>3, <3>4, <3>5
  <2> HIDE DEF dev, low, high, spread
  <2>8. low <= rtt_var /\ rtt_var <= high /\ low <= dev /\ dev <= high
    BY <1>1, <1>2, <2>5, <2>6, <2>7, <2>14
  <2>9. rtt_var' = (rtt_var * (4 - 1) + dev) \div 4
    <3>1. /\ 8 * rtt_var < IntMod /\ -IntMod < 8 * rtt_var
          /\ 8 * dev < IntMod /\ -IntMod < 8 * dev
      BY <1>1, <2>5, <2>6, <2>7, <2>8, WidthAssumption
    <3>2. rtt_var' = avg_rma(4, rtt_var, dev)
      BY <2>1 DEF dev
    <3> QED
      BY <1>1, <2>5, <3>1, <3>2, AvgIsMean
  <2>10. rtt_var' \in Int /\ low <= rtt_var' /\ rtt_var' <= high
    BY <1>1, <2>5, <2>6, <2>7, <2>8, <2>9, MeanBetween
  <2>11. Types'
    BY <2>2, <2>4, <2>10 DEF Types
  <2>12. RttWithinSamples'
    BY <2>4 DEF RttWithinSamples
  <2>13. VarWithinSpread'
    BY <2>1, <2>10 DEF VarWithinSpread, VarLow, low, high, spread
  <2> QED
    BY <2>11, <2>12, <2>13 DEF IInv
<1> QED
  BY <1>3, <1>4

LEMMA NextIInv == IInv /\ [Next]_vars => IInv'
<1> SUFFICES ASSUME IInv, [Next]_vars PROVE IInv'
  OBVIOUS
<1>1. steady \subseteq Samples
  BY DEF IInv, Types
<1>2. ASSUME NEW s \in Samples, Sample(s)
      PROVE  IInv'
  BY <1>1, <1>2, FeedKeeps DEF Sample
<1>3. ASSUME NEW s \in Samples, Settle(s)
      PROVE  IInv'
  BY <1>3 DEF Settle, IInv, Types, RttWithinSamples, VarWithinSpread
<1>4. CASE Repeat
  BY <1>1, <1>4, FeedKeeps DEF Repeat
<1>5. CASE UNCHANGED vars
  BY <1>5 DEF vars, IInv, Types, RttWithinSamples, VarWithinSpread
<1> QED
  BY <1>2, <1>3, <1>4, <1>5 DEF Next

LEMMA Invariance == Spec => []IInv
  BY InitIInv, NextIInv, PTL DEF Spec

-----------------------------------------------------------------------------
(* The theorems.                                                           *)

\* Both estimates are ints that no sum, quotient or cut has spoilt
\* (app/utils.hpp:8-12, app/start.cpp:114-126).
THEOREM TypeCorrect == Spec => []TypeOK
<1>1. IInv => TypeOK
  <2> SUFFICES ASSUME IInv PROVE TypeOK
    OBVIOUS
  <2>1. /\ lo \in Int /\ hi \in Int /\ 16 * hi < IntMod /\ -IntMod < 16 * lo
    BY ValueTypes DEF IInv, Types
  <2>2. rtt \in Int /\ rtt_var \in Int /\ lo <= rtt /\ rtt <= hi
    BY DEF IInv, Types, RttWithinSamples
  <2>3. lo <= hi
    BY <2>1, <2>2
  <2>4. VarLow <= rtt_var /\ rtt_var <= VarHigh
    BY DEF IInv, VarWithinSpread, VarLow, VarHigh
  <2>5. /\ VarLow \in Int /\ VarHigh \in Int
        /\ -IntMod < 16 * VarLow /\ 8 * VarHigh < IntMod
    BY <2>3, VarBounds DEF IInv
  <2>6. IntMod \in Nat \ {0} /\ IntMod = 2 * (IntMod \div 2) /\ IntMod \div 2 \in Nat
    BY WidthAssumption
  <2>7. rtt \in Ints
    BY <2>1, <2>2, <2>6 DEF Ints
  <2>8. rtt_var \in Ints
    BY <2>2, <2>4, <2>5, <2>6 DEF Ints
  <2> QED
    BY <2>7, <2>8 DEF IInv, Types, Values, TypeOK
<1> QED
  BY <1>1, Invariance, PTL

\* The smoothed RTT never leaves the range of its samples, for any width of an int
\* and a size_t (app/utils.hpp:8-12).
THEOREM SmoothedWithinSamples == Spec => []RttWithinSamples
<1>1. IInv => RttWithinSamples
  BY DEF IInv
<1> QED
  BY <1>1, Invariance, PTL

\* The variance never leaves the spread of the samples (app/start.cpp:121,125).
THEOREM VarianceWithinSpread == Spec => []VarWithinSpread
<1>1. IInv => VarWithinSpread
  BY DEF IInv
<1> QED
  BY <1>1, Invariance, PTL

=============================================================================
