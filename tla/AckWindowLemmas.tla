-------------------------- MODULE AckWindowLemmas --------------------------
(***************************************************************************)
(* What the methods of the ring of ACK records do, for every SIZE: lemmas  *)
(* on the operators of AckWindowOps, for the modules that use a window.    *)
(***************************************************************************)
EXTENDS AckWindowOps, SequenceTheorems, FiniteSetTheorems, TLAPS

-----------------------------------------------------------------------------
(* Arithmetic and well-founded minima.                                     *)

LEMMA SizeType == SIZE \in Nat /\ SIZE > 0
  BY SizeAssumption

\* An index that has run at most once past the end of the array.
LEMMA ModSize ==
  ASSUME NEW k \in 0 .. 2 * SIZE - 1
  PROVE  k % SIZE = IF k < SIZE THEN k ELSE k - SIZE
  BY SizeType

\* A non-empty set of naturals has a least element.
LEMMA LeastElement ==
  ASSUME NEW T, T \subseteq Nat, T # {}
  PROVE  \E x \in T : \A y \in T : x <= y
<1>1. PICK x \in T : \A y \in T : ~ (<<y, x>> \in OpToRel(<, Nat))
  BY NatLessThanWellFounded, WFMin
<1>2. \A y \in T : ~ (y < x)
  BY <1>1 DEF OpToRel
<1>3. QED
  BY <1>2

\* A function on 1 .. n is a sequence of length n.
LEMMA FunctionIsSeq ==
  ASSUME NEW S, NEW n \in Nat, NEW f \in [1 .. n -> S]
  PROVE  f \in Seq(S) /\ Len(f) = n
<1>1. f \in Seq(S)
  BY SeqDef
<1>2. 1 .. Len(f) = 1 .. n /\ Len(f) \in Nat
  BY <1>1, LenProperties
<1>3. QED
  BY <1>1, <1>2

-----------------------------------------------------------------------------
(* What the methods do to the records between oldest_idx and latest_idx.   *)

\* The scan of either loop runs over the Count(w) slots from oldest_idx on.
LEMMA ScanIsInterval ==
  ASSUME NEW T, NEW w \in WindowType(T)
  PROVE  /\ Count(w) \in 0 .. SIZE - 1
         /\ Scan(w) = w.oldest_idx .. w.oldest_idx + Count(w) - 1
         /\ Scan(w) \subseteq 0 .. 2 * SIZE - 2
  BY SizeType DEF WindowType, Slots, Count, Scan, Wrapped

\* A hit has a first one, and it is in the scan.
LEMMA FirstHitIsLeast ==
  ASSUME NEW T, NEW w \in WindowType(T), NEW n, Found(w, n)
  PROVE  /\ FirstHit(w, n) \in Scan(w)
         /\ RecordAt(w, FirstHit(w, n)).ackno = n
         /\ \A j \in Scan(w) : j < FirstHit(w, n) => RecordAt(w, j).ackno # n
<1>0. Scan(w) \subseteq 0 .. 2 * SIZE - 2 /\ 2 * SIZE - 2 \in Int
  BY ScanIsInterval, SizeType
<1>1. /\ Hits(w, n) \subseteq Nat
      /\ Hits(w, n) # {}
  BY <1>0 DEF Hits, Found
<1>2. \E i \in Hits(w, n) : \A j \in Hits(w, n) : i <= j
  BY <1>1, LeastElement
<1>3. /\ FirstHit(w, n) \in Hits(w, n)
      /\ \A j \in Hits(w, n) : FirstHit(w, n) <= j
  BY <1>2 DEF FirstHit
<1>4. QED
  BY <1>1, <1>3 DEF Hits, RecordAt

\* The slot behind the last record of a scan is the one store() writes next.
LEMMA ScanEnd ==
  ASSUME NEW T, NEW w \in WindowType(T)
  PROVE  /\ w.latest_idx \in 0 .. SIZE - 1 /\ w.oldest_idx \in 0 .. SIZE - 1
         /\ Count(w) \in 0 .. SIZE - 1
         /\ w.latest_idx = IF w.oldest_idx + Count(w) < SIZE
                           THEN w.oldest_idx + Count(w)
                           ELSE w.oldest_idx + Count(w) - SIZE
         /\ Wrapped(w) <=> w.oldest_idx + Count(w) >= SIZE
<1>1. w.latest_idx \in 0 .. SIZE - 1 /\ w.oldest_idx \in 0 .. SIZE - 1
  BY DEF WindowType, Slots
<1>2. /\ Wrapped(w) => Count(w) = w.latest_idx + SIZE - w.oldest_idx
      /\ ~ Wrapped(w) => Count(w) = w.latest_idx - w.oldest_idx
      /\ Wrapped(w) <=> w.latest_idx < w.oldest_idx
  BY Zenon DEF Count, Wrapped
<1>3. CASE Wrapped(w)
  BY <1>1, <1>2, <1>3, SizeType
<1>4. CASE ~ Wrapped(w)
  BY <1>1, <1>2, <1>4, SizeType
<1>5. QED
  BY <1>3, <1>4

\* Count(w) from the two indices alone.
LEMMA CountOf ==
  ASSUME NEW w
  PROVE  Count(w) = IF w.latest_idx < w.oldest_idx
                    THEN w.latest_idx + SIZE - w.oldest_idx
                    ELSE w.latest_idx - w.oldest_idx
  BY Zenon DEF Count, Wrapped

\* store() adds one record at the end and drops the first one if the ring is full.
LEMMA StoreContents ==
  ASSUME NEW T, NEW w \in WindowType(T), NEW n \in Int, NEW t \in T,
         NEW v, v = Store(w, n, t),
         NEW full \in 0 .. 1, full = IF Count(w) = SIZE - 1 THEN 1 ELSE 0
  PROVE  /\ v \in WindowType(T)
         /\ Count(v) = Count(w) + 1 - full
         /\ \A k \in 0 .. Count(v) - 1 :
               RecordAt(v, v.oldest_idx + k) =
                 IF k = Count(v) - 1 THEN [ackno |-> n, sendtime |-> t]
                 ELSE RecordAt(w, w.oldest_idx + k + full)
<1>1. /\ w.latest_idx \in 0 .. SIZE - 1 /\ w.oldest_idx \in 0 .. SIZE - 1
      /\ Count(w) \in 0 .. SIZE - 1
      /\ w.latest_idx = IF w.oldest_idx + Count(w) < SIZE
                        THEN w.oldest_idx + Count(w)
                        ELSE w.oldest_idx + Count(w) - SIZE
  BY ScanEnd
<1>2. /\ w.latest_idx + 1 \in 0 .. 2 * SIZE - 1
      /\ w.oldest_idx + 1 \in 0 .. 2 * SIZE - 1
  BY <1>1, SizeType
<1>3. /\ (w.latest_idx + 1) % SIZE =
            (IF w.latest_idx + 1 < SIZE THEN w.latest_idx + 1 ELSE w.latest_idx + 1 - SIZE)
      /\ (w.oldest_idx + 1) % SIZE =
            (IF w.oldest_idx + 1 < SIZE THEN w.oldest_idx + 1 ELSE w.oldest_idx + 1 - SIZE)
  BY <1>1, <1>2, ModSize, SizeType
<1>10. /\ v.latest_idx = (w.latest_idx + 1) % SIZE
       /\ v.oldest_idx = IF (w.latest_idx + 1) % SIZE = w.oldest_idx
                         THEN (w.oldest_idx + 1) % SIZE ELSE w.oldest_idx
  BY DEF Store
<1>11. /\ v.latest_idx = IF w.latest_idx + 1 < SIZE THEN w.latest_idx + 1 ELSE 0
       /\ v.oldest_idx = IF v.latest_idx = w.oldest_idx
                         THEN IF w.oldest_idx + 1 < SIZE THEN w.oldest_idx + 1 ELSE 0
                         ELSE w.oldest_idx
  BY <1>1, <1>3, <1>10, SizeType
<1>4. /\ v.records_ = [w.records_ EXCEPT ![w.latest_idx] = [ackno |-> n, sendtime |-> t]]
      /\ v = [records_ |-> v.records_, latest_idx |-> v.latest_idx, oldest_idx |-> v.oldest_idx]
  BY DEF Store
<1>5. v.latest_idx \in 0 .. SIZE - 1 /\ v.oldest_idx \in 0 .. SIZE - 1
  BY <1>1, <1>11, SizeType
<1>6. v \in WindowType(T)
  <2>1. w.records_ \in [Slots -> EntryType(T)] /\ w.latest_idx \in Slots
    BY DEF WindowType
  <2>2. [ackno |-> n, sendtime |-> t] \in EntryType(T)
    BY DEF EntryType
  <2>3. v.records_ \in [Slots -> EntryType(T)]
    BY <1>4, <2>1, <2>2
  <2>4. QED
    BY <1>4, <1>5, <2>3 DEF WindowType, Slots
<1>7. Count(v) = Count(w) + 1 - full
  <2>1. Count(v) = IF v.latest_idx < v.oldest_idx
                   THEN v.latest_idx + SIZE - v.oldest_idx
                   ELSE v.latest_idx - v.oldest_idx
    BY CountOf
  <2>2. QED
    BY <1>1, <1>11, <1>5, <2>1, SizeType
<1>8. ASSUME NEW k \in 0 .. Count(v) - 1
      PROVE  RecordAt(v, v.oldest_idx + k) =
               IF k = Count(v) - 1 THEN [ackno |-> n, sendtime |-> t]
               ELSE RecordAt(w, w.oldest_idx + k + full)
  <2>1. v.oldest_idx = IF full = 1 THEN IF w.oldest_idx + 1 < SIZE THEN w.oldest_idx + 1 ELSE 0
                       ELSE w.oldest_idx
    BY <1>1, <1>11, SizeType
  <2>2. k \in 0 .. Count(w) - full
    BY <1>1, <1>7
  <2>3. /\ (v.oldest_idx + k) % SIZE \in 0 .. SIZE - 1
        /\ k = Count(w) - full => (v.oldest_idx + k) % SIZE = w.latest_idx
        /\ k # Count(w) - full =>
              /\ (v.oldest_idx + k) % SIZE = (w.oldest_idx + k + full) % SIZE
              /\ (v.oldest_idx + k) % SIZE # w.latest_idx
    <3>1. /\ v.oldest_idx + k \in 0 .. 2 * SIZE - 1
          /\ w.oldest_idx + k + full \in 0 .. 2 * SIZE - 1
      BY <1>1, <1>5, <2>2, SizeType
    <3>2. (v.oldest_idx + k) % SIZE =
            (IF v.oldest_idx + k < SIZE THEN v.oldest_idx + k ELSE v.oldest_idx + k - SIZE)
      <4>1. v.oldest_idx \in Int /\ k \in Int
        BY <1>1, <1>5, <2>2
      <4>2. QED
        BY <3>1, <4>1, ModSize, SizeType
    <3>3. (w.oldest_idx + k + full) % SIZE =
            (IF w.oldest_idx + k + full < SIZE THEN w.oldest_idx + k + full
             ELSE w.oldest_idx + k + full - SIZE)
      BY <1>1, <1>5, <2>2, <3>1, ModSize, SizeType
    <3>4. CASE full = 0
      BY <1>1, <1>5, <2>1, <2>2, <3>1, <3>2, <3>3, <3>4, SizeType
    <3>5. CASE full = 1
      BY <1>1, <1>5, <2>1, <2>2, <3>1, <3>2, <3>3, <3>5, SizeType
    <3>6. QED
      BY <3>4, <3>5
  <2>4. w.records_ \in [0 .. SIZE - 1 -> EntryType(T)]
    BY DEF WindowType, Slots
  <2>5. k = Count(v) - 1 <=> k = Count(w) - full
    BY <1>1, <1>7
  <2>6. CASE k = Count(w) - full
    BY <1>1, <1>4, <2>3, <2>4, <2>5, <2>6 DEF RecordAt
  <2>7. CASE k # Count(w) - full
    BY <1>1, <1>4, <2>3, <2>4, <2>5, <2>7 DEF RecordAt
  <2>8. QED
    BY <2>6, <2>7
<1>9. QED
  BY <1>6, <1>7, <1>8

\* Both loops decide rightly that a hit was the last record: the first one by
\* its test, the second one by never taking that branch.
LEMMA EmptiesOnlyAtTheEnd ==
  ASSUME NEW T, NEW w \in WindowType(T), NEW i \in Scan(w)
  PROVE  EmptiesWindow(w, i) <=> ~ Wrapped(w) /\ i = w.oldest_idx + Count(w) - 1
<1>1. /\ w.latest_idx \in 0 .. SIZE - 1 /\ w.oldest_idx \in 0 .. SIZE - 1
      /\ Count(w) \in 0 .. SIZE - 1
      /\ w.latest_idx = IF w.oldest_idx + Count(w) < SIZE
                        THEN w.oldest_idx + Count(w)
                        ELSE w.oldest_idx + Count(w) - SIZE
      /\ Wrapped(w) <=> w.oldest_idx + Count(w) >= SIZE
  BY ScanEnd
<1>2. i \in w.oldest_idx .. w.oldest_idx + Count(w) - 1 /\ i \in 0 .. 2 * SIZE - 2
  BY ScanIsInterval
<1>3. i \in 0 .. 2 * SIZE - 1
  BY <1>2, SizeType
<1>4. i % SIZE = (IF i < SIZE THEN i ELSE i - SIZE)
  BY <1>2, <1>3, ModSize, SizeType
<1>5. CASE Wrapped(w)
  <2>1. i % SIZE # w.latest_idx
    BY <1>1, <1>2, <1>4, <1>5, SizeType
  <2>2. QED
    BY <1>5, <2>1 DEF EmptiesWindow
<1>6. CASE ~ Wrapped(w)
  <2>1. i + 1 = w.latest_idx <=> i = w.oldest_idx + Count(w) - 1
    BY <1>1, <1>2, <1>6, SizeType
  <2>2. QED
    BY <1>6, <2>1 DEF EmptiesWindow
<1>7. QED
  BY <1>5, <1>6

\* A hit at i leaves exactly the records behind i.
LEMMA ForgetContents ==
  ASSUME NEW T, NEW w \in WindowType(T), NEW i \in Scan(w),
         NEW v, v = ForgetUpTo(w, i)
  PROVE  /\ v \in WindowType(T)
         /\ Count(v) = w.oldest_idx + Count(w) - 1 - i
         /\ \A k \in 0 .. Count(v) - 1 :
               RecordAt(v, v.oldest_idx + k) = RecordAt(w, i + 1 + k)
<1>1. /\ w.latest_idx \in 0 .. SIZE - 1 /\ w.oldest_idx \in 0 .. SIZE - 1
      /\ Count(w) \in 0 .. SIZE - 1
      /\ w.latest_idx = IF w.oldest_idx + Count(w) < SIZE
                        THEN w.oldest_idx + Count(w)
                        ELSE w.oldest_idx + Count(w) - SIZE
      /\ Wrapped(w) <=> w.oldest_idx + Count(w) >= SIZE
  BY ScanEnd
<1>2. i \in w.oldest_idx .. w.oldest_idx + Count(w) - 1 /\ i \in 0 .. 2 * SIZE - 2
  BY ScanIsInterval
<1>3. i + 1 \in 0 .. 2 * SIZE - 1
  BY <1>2, SizeType
<1>4. (i + 1) % SIZE = (IF i + 1 < SIZE THEN i + 1 ELSE i + 1 - SIZE)
  BY <1>2, <1>3, ModSize, SizeType
<1>5. CASE EmptiesWindow(w, i)
  <2>1. /\ v.oldest_idx = 0 /\ v.latest_idx = 0
        /\ v \in WindowType(T)
    <3>1. v = [w EXCEPT !.oldest_idx = 0, !.latest_idx = 0,
                        !.records_ = [@ EXCEPT ![0].ackno = SRT_SEQNO_NONE]]
      BY <1>5 DEF ForgetUpTo
    <3>2. 0 \in Slots
      BY SizeType DEF Slots
    <3>3. [w.records_ EXCEPT ![0].ackno = SRT_SEQNO_NONE] \in [Slots -> EntryType(T)]
      BY <3>2 DEF WindowType, EntryType, SRT_SEQNO_NONE
    <3>4. QED
      BY <3>1, <3>2, <3>3 DEF WindowType
  <2>2. Count(v) = 0
    BY <2>1 DEF Count, Wrapped
  <2>3. i = w.oldest_idx + Count(w) - 1
    BY <1>5, EmptiesOnlyAtTheEnd
  <2>4. QED
    BY <1>1, <1>2, <2>1, <2>2, <2>3
<1>6. CASE ~ EmptiesWindow(w, i)
  <2>1. v = [w EXCEPT !.oldest_idx = (i + 1) % SIZE]
    BY <1>6 DEF ForgetUpTo
  <2>2. (i + 1) % SIZE \in 0 .. SIZE - 1
    BY <1>1, <1>2, <1>3, <1>4, SizeType
  <2>9. v.oldest_idx = (i + 1) % SIZE /\ v.latest_idx = w.latest_idx
    BY <2>1 DEF WindowType
  <2>3. v \in WindowType(T) /\ v.records_ = w.records_
    BY <2>1, <2>2 DEF WindowType, Slots
  <2>4. ~ (~ Wrapped(w) /\ i = w.oldest_idx + Count(w) - 1)
    BY <1>6, EmptiesOnlyAtTheEnd
  <2>5. Count(v) = IF v.latest_idx < v.oldest_idx
                   THEN v.latest_idx + SIZE - v.oldest_idx
                   ELSE v.latest_idx - v.oldest_idx
    BY CountOf
  <2>6. Count(v) = w.oldest_idx + Count(w) - 1 - i
    BY <1>1, <1>2, <1>4, <2>2, <2>4, <2>5, <2>9, SizeType
  <2>7. ASSUME NEW k \in 0 .. Count(v) - 1
        PROVE  RecordAt(v, v.oldest_idx + k) = RecordAt(w, i + 1 + k)
    <3>1. /\ v.oldest_idx + k \in 0 .. 2 * SIZE - 1
          /\ i + 1 + k \in 0 .. 2 * SIZE - 1
      BY <1>1, <1>2, <2>2, <2>9, <2>6, SizeType
    <3>2. /\ (v.oldest_idx + k) % SIZE =
                (IF v.oldest_idx + k < SIZE THEN v.oldest_idx + k ELSE v.oldest_idx + k - SIZE)
          /\ (i + 1 + k) % SIZE =
                (IF i + 1 + k < SIZE THEN i + 1 + k ELSE i + 1 + k - SIZE)
      BY <1>1, <1>2, <2>2, <2>9, <3>1, ModSize, SizeType
    <3>3. (v.oldest_idx + k) % SIZE = (i + 1 + k) % SIZE
      BY <1>1, <1>2, <1>4, <2>9, <2>6, <3>1, <3>2, SizeType
    <3>4. QED
      BY <2>3, <3>3 DEF RecordAt
  <2>8. QED
    BY <2>3, <2>6, <2>7
<1>7. QED
  BY <1>5, <1>6

-----------------------------------------------------------------------------
(* Positions are easier to reason about than scan indices.                 *)

\* The record k places behind the oldest one.
At(w, k) == RecordAt(w, w.oldest_idx + k)

\* LiveRecordsFresh of AckWindow, of a window, the send times stored in it and
\* the highest number answered.
FreshScan(w, s, a) ==
  \A i \in Scan(w) :
     LET r == RecordAt(w, i)
     IN  /\ r.ackno \in DOMAIN s
         /\ r.ackno > a
         /\ r.sendtime = s[r.ackno]
         /\ \A j \in Scan(w) : i < j => r.ackno < RecordAt(w, j).ackno

\* The same by position, counted from the oldest record.
FreshRecords(w, s, a) ==
  \A k \in 0 .. Count(w) - 1 :
     /\ At(w, k).ackno \in DOMAIN s
     /\ At(w, k).ackno > a
     /\ At(w, k).sendtime = s[At(w, k).ackno]
     /\ \A j \in 0 .. Count(w) - 1 : k < j => At(w, k).ackno < At(w, j).ackno

\* The records of a window of the right type have the right type.
LEMMA RecordType ==
  ASSUME NEW T, NEW w \in WindowType(T), NEW i \in 0 .. 2 * SIZE - 1
  PROVE  RecordAt(w, i) \in EntryType(T)
<1>1. i % SIZE \in Slots
  BY ModSize, SizeType DEF Slots
<1>2. QED
  BY <1>1 DEF RecordAt, WindowType

\* Every scan index is a position and every position a scan index.
LEMMA FreshByPosition ==
  ASSUME NEW T, NEW w \in WindowType(T), NEW s, NEW a
  PROVE  FreshScan(w, s, a) <=> FreshRecords(w, s, a)
<1>1. /\ w.oldest_idx \in Int
      /\ Count(w) \in Int
      /\ Scan(w) = w.oldest_idx .. w.oldest_idx + Count(w) - 1
  BY ScanIsInterval, ScanEnd
<1>2. ASSUME FreshScan(w, s, a) PROVE FreshRecords(w, s, a)
  <2>1. \A k \in 0 .. Count(w) - 1 : w.oldest_idx + k \in Scan(w)
    BY <1>1
  <2>2. \A k, j \in 0 .. Count(w) - 1 : k < j => w.oldest_idx + k < w.oldest_idx + j
    BY <1>1
  <2>3. QED
    BY <1>2, <2>1, <2>2 DEF FreshScan, FreshRecords, At
<1>3. ASSUME FreshRecords(w, s, a) PROVE FreshScan(w, s, a)
  <2>1. ASSUME NEW i \in Scan(w)
        PROVE  /\ i - w.oldest_idx \in 0 .. Count(w) - 1
               /\ RecordAt(w, i) = At(w, i - w.oldest_idx)
    <3>1. i \in Int /\ w.oldest_idx + (i - w.oldest_idx) = i
      BY <1>1
    <3>2. QED
      BY <1>1, <3>1 DEF At
  <2>2. \A i, j \in Scan(w) : i < j => i - w.oldest_idx < j - w.oldest_idx
    BY <1>1
  <2>3. QED
    BY <1>3, <2>1, <2>2 DEF FreshScan, FreshRecords
<1>4. QED
  BY <1>2, <1>3

\* What a look-up that finds its number does.
LEMMA LookUpFound ==
  ASSUME NEW T, NEW w \in WindowType(T), NEW n, Found(w, n),
         NEW k, k = FirstHit(w, n) - w.oldest_idx,
         NEW v, v = AfterAcknowledge(w, n)
  PROVE  /\ k \in 0 .. Count(w) - 1
         /\ At(w, k).ackno = n
         /\ \A j \in 0 .. k - 1 : At(w, j).ackno # n
         /\ At(w, k) = w.records_[FirstHit(w, n) % SIZE]
         /\ v \in WindowType(T)
         /\ Count(v) = Count(w) - 1 - k
         /\ \A j \in 0 .. Count(v) - 1 : At(v, j) = At(w, k + 1 + j)
<1>1. /\ FirstHit(w, n) \in Scan(w)
      /\ RecordAt(w, FirstHit(w, n)).ackno = n
      /\ \A j \in Scan(w) : j < FirstHit(w, n) => RecordAt(w, j).ackno # n
  BY FirstHitIsLeast
<1>2. /\ w.oldest_idx \in Int
      /\ Count(w) \in Int
      /\ Scan(w) = w.oldest_idx .. w.oldest_idx + Count(w) - 1
      /\ FirstHit(w, n) \in Int
  BY <1>1, ScanIsInterval, ScanEnd
<1>3. k \in 0 .. Count(w) - 1 /\ w.oldest_idx + k = FirstHit(w, n)
  BY <1>1, <1>2
<1>4. /\ v \in WindowType(T)
      /\ Count(v) = w.oldest_idx + Count(w) - 1 - FirstHit(w, n)
      /\ \A j \in 0 .. Count(v) - 1 :
            RecordAt(v, v.oldest_idx + j) = RecordAt(w, FirstHit(w, n) + 1 + j)
  BY <1>1, ForgetContents DEF AfterAcknowledge
<1>5. /\ At(w, k).ackno = n
      /\ At(w, k) = w.records_[FirstHit(w, n) % SIZE]
  BY <1>1, <1>3 DEF At, RecordAt
<1>6. ASSUME NEW j \in 0 .. k - 1 PROVE At(w, j).ackno # n
  <2>1. j \in Int /\ 0 <= j /\ j < k /\ k \in Int /\ k < Count(w)
    BY <1>2, <1>3
  <2>2. /\ w.oldest_idx + j \in w.oldest_idx .. w.oldest_idx + Count(w) - 1
        /\ w.oldest_idx + j < w.oldest_idx + k
    BY <1>2, <2>1
  <2>3. QED
    BY <1>1, <1>2, <1>3, <2>2 DEF At
<1>7. Count(v) = Count(w) - 1 - k
  BY <1>2, <1>3, <1>4
<1>8. ASSUME NEW j \in 0 .. Count(v) - 1 PROVE At(v, j) = At(w, k + 1 + j)
  <2>1. j \in Int /\ k \in Int
    BY <1>2, <1>3, <1>7
  <2>3. w.oldest_idx + k + 1 + j = w.oldest_idx + (k + 1 + j)
    BY <1>2, <2>1
  <2>2. QED
    BY <1>3, <1>4, <2>3 DEF At
<1>9. QED
  BY <1>3, <1>4, <1>5, <1>6, <1>7, <1>8

-----------------------------------------------------------------------------
(* The records stay fresh, whoever makes the calls.                        *)

\* A number stored is newer than all others and comes last.
LEMMA StoreKeepsFresh ==
  ASSUME NEW T, NEW w \in WindowType(T), NEW s, NEW a \in Int,
         NEW n \in Int, NEW t \in T, a < n,
         DOMAIN s \subseteq Int, \A m \in DOMAIN s : m < n,
         FreshRecords(w, s, a),
         NEW v, v = Store(w, n, t),
         NEW r, DOMAIN r = DOMAIN s \cup {n}, r[n] = t,
         \A m \in DOMAIN s : r[m] = s[m]
  PROVE  v \in WindowType(T) /\ FreshRecords(v, r, a)
<1> DEFINE full == IF Count(w) = SIZE - 1 THEN 1 ELSE 0
           rec == [ackno |-> n, sendtime |-> t]
<1>1. full \in 0 .. 1
  OBVIOUS
<1>2. /\ v \in WindowType(T)
      /\ Count(v) = Count(w) + 1 - full
      /\ \A k \in 0 .. Count(v) - 1 :
            At(v, k) = IF k = Count(v) - 1 THEN rec ELSE At(w, k + full)
  <2>1. /\ v \in WindowType(T)
        /\ Count(v) = Count(w) + 1 - full
        /\ \A k \in 0 .. Count(v) - 1 :
              RecordAt(v, v.oldest_idx + k) =
                IF k = Count(v) - 1 THEN rec ELSE RecordAt(w, w.oldest_idx + k + full)
    BY <1>1, StoreContents
  <2>2. /\ w.oldest_idx \in Int
        /\ Count(v) \in Int
        /\ \A k \in 0 .. Count(v) - 1 : w.oldest_idx + k + full = w.oldest_idx + (k + full)
    BY <1>1, <2>1, ScanEnd
  <2>3. QED
    BY <2>1, <2>2 DEF At
<1>3. Count(w) \in Int /\ Count(v) \in Int
  BY <1>2, ScanEnd
<1> HIDE DEF full
<1>4. \A k \in 0 .. Count(v) - 1 : k # Count(v) - 1 => k + full \in 0 .. Count(w) - 1
  BY <1>1, <1>2, <1>3
<1>5. ASSUME NEW k \in 0 .. Count(v) - 1, k = Count(v) - 1
      PROVE  At(v, k).ackno = n /\ At(v, k).sendtime = t
  BY <1>2, <1>5
<1>6. ASSUME NEW k \in 0 .. Count(v) - 1, k # Count(v) - 1
      PROVE  /\ At(v, k) = At(w, k + full)
             /\ At(v, k).ackno \in DOMAIN s
             /\ At(v, k).ackno > a
             /\ At(v, k).sendtime = s[At(v, k).ackno]
  BY <1>2, <1>4, <1>6 DEF FreshRecords
<1>7. ASSUME NEW k \in 0 .. Count(v) - 1
      PROVE  /\ At(v, k).ackno \in DOMAIN r
             /\ At(v, k).ackno > a
             /\ At(v, k).sendtime = r[At(v, k).ackno]
  <2>1. CASE k = Count(v) - 1
    BY <1>5, <2>1
  <2>2. CASE k # Count(v) - 1
    <3>1. At(v, k).ackno # n
      BY <1>6, <2>2
    <3>2. QED
      BY <1>6, <2>2, <3>1
  <2>3. QED
    BY <2>1, <2>2
<1>8. ASSUME NEW k \in 0 .. Count(v) - 1, NEW j \in 0 .. Count(v) - 1, k < j
      PROVE  At(v, k).ackno < At(v, j).ackno
  <2>1. k # Count(v) - 1
    BY <1>3, <1>8
  <2>2. CASE j = Count(v) - 1
    BY <1>5, <1>6, <2>1, <2>2
  <2>3. CASE j # Count(v) - 1
    <3>1. /\ k + full \in 0 .. Count(w) - 1
          /\ j + full \in 0 .. Count(w) - 1
          /\ k + full < j + full
      BY <1>1, <1>3, <1>4, <1>8, <2>1, <2>3
    <3>2. QED
      BY <1>6, <2>1, <2>3, <3>1 DEF FreshRecords
  <2>4. QED
    BY <2>2, <2>3
<1>9. QED
  BY <1>2, <1>7, <1>8 DEF FreshRecords

\* A look-up that finds its number leaves only newer ones, and measures from
\* the send time of that number.
LEMMA AnswerKeepsFresh ==
  ASSUME NEW T, NEW w \in WindowType(T), NEW s, NEW a \in Int, NEW n \in Int,
         DOMAIN s \subseteq Int, FreshRecords(w, s, a), Found(w, n),
         NEW v, v = AfterAcknowledge(w, n)
  PROVE  /\ v \in WindowType(T) /\ FreshRecords(v, s, n)
         /\ n \in DOMAIN s /\ n > a
         /\ w.records_[FirstHit(w, n) % SIZE].sendtime = s[n]
<1>1. PICK k : k = FirstHit(w, n) - w.oldest_idx
  OBVIOUS
<1>2. /\ k \in 0 .. Count(w) - 1
      /\ At(w, k).ackno = n
      /\ At(w, k) = w.records_[FirstHit(w, n) % SIZE]
      /\ v \in WindowType(T)
      /\ Count(v) = Count(w) - 1 - k
      /\ \A j \in 0 .. Count(v) - 1 : At(v, j) = At(w, k + 1 + j)
  BY <1>1, LookUpFound
<1>3. n \in DOMAIN s /\ n > a /\ At(w, k).sendtime = s[n]
  BY <1>2 DEF FreshRecords
<1>4. w.records_[FirstHit(w, n) % SIZE].sendtime = s[n]
  BY <1>2, <1>3
<1>5. Count(w) \in Int /\ Count(v) \in Int
  BY <1>2, ScanEnd
<1>6. \A j \in 0 .. Count(v) - 1 : k + 1 + j \in 0 .. Count(w) - 1 /\ k < k + 1 + j
  BY <1>2, <1>5
<1>7. ASSUME NEW j \in 0 .. Count(v) - 1
      PROVE  /\ At(v, j).ackno \in DOMAIN s
             /\ At(v, j).sendtime = s[At(v, j).ackno]
             /\ At(v, j).ackno > n
  <2>1. /\ At(v, j).ackno \in DOMAIN s
        /\ At(v, j).sendtime = s[At(v, j).ackno]
        /\ n < At(v, j).ackno
    BY <1>2, <1>6 DEF FreshRecords
  <2>2. QED
    BY <2>1
<1>8. ASSUME NEW i \in 0 .. Count(v) - 1, NEW j \in 0 .. Count(v) - 1, i < j
      PROVE  At(v, i).ackno < At(v, j).ackno
  <2>1. k + 1 + i < k + 1 + j
    BY <1>2, <1>5, <1>8
  <2>2. QED
    BY <1>2, <1>6, <2>1 DEF FreshRecords
<1>9. QED
  BY <1>2, <1>3, <1>4, <1>7, <1>8 DEF FreshRecords

-----------------------------------------------------------------------------
(* Nothing is lost early.                                                  *)

\* A number that was stored and is not answered is held, unless the ring is full
\* of newer ones.
HoldsNewer(w, s, a) ==
  \A n \in DOMAIN s : n > a =>
     \/ \E k \in 0 .. Count(w) - 1 : At(w, k).ackno = n
     \/ /\ Count(w) = SIZE - 1
        /\ \A k \in 0 .. Count(w) - 1 : n < At(w, k).ackno

\* store() gives up a record only for SIZE - 1 newer ones.
LEMMA StoreKeepsNewer ==
  ASSUME NEW T, NEW w \in WindowType(T), NEW s, NEW a \in Int,
         NEW n \in Int, NEW t \in T,
         DOMAIN s \subseteq Int, \A m \in DOMAIN s : m < n,
         FreshRecords(w, s, a), HoldsNewer(w, s, a),
         NEW v, v = Store(w, n, t),
         NEW r, DOMAIN r = DOMAIN s \cup {n}
  PROVE  HoldsNewer(v, r, a)
<1> DEFINE full == IF Count(w) = SIZE - 1 THEN 1 ELSE 0
           rec == [ackno |-> n, sendtime |-> t]
<1>1. full \in 0 .. 1
  OBVIOUS
<1>2. /\ Count(v) = Count(w) + 1 - full
      /\ \A k \in 0 .. Count(v) - 1 :
            RecordAt(v, v.oldest_idx + k) =
              IF k = Count(v) - 1 THEN rec ELSE RecordAt(w, w.oldest_idx + k + full)
  BY <1>1, StoreContents
<1>3. /\ Count(w) \in 0 .. SIZE - 1 /\ Count(v) \in Int /\ SIZE \in Int
      /\ w.oldest_idx \in Int
  BY <1>1, <1>2, ScanEnd, SizeType
<1>4. full = 1 <=> Count(w) = SIZE - 1
  OBVIOUS
<1> HIDE DEF full
<1>5. ASSUME NEW k \in 0 .. Count(v) - 1, k # Count(v) - 1
      PROVE  /\ At(v, k) = At(w, k + full)
             /\ k + full \in 0 .. Count(w) - 1
  <2>1. w.oldest_idx + k + full = w.oldest_idx + (k + full)
    BY <1>1, <1>3
  <2>2. At(v, k) = RecordAt(w, w.oldest_idx + k + full)
    BY <1>2, <1>5 DEF At
  <2>3. k + full \in 0 .. Count(w) - 1
    BY <1>1, <1>2, <1>3, <1>5
  <2>4. QED
    BY <2>1, <2>2, <2>3 DEF At
<1>6. Count(v) >= 1 => At(v, Count(v) - 1).ackno = n
  <2>1. Count(v) >= 1 => Count(v) - 1 \in 0 .. Count(v) - 1
    BY <1>3
  <2>2. QED
    BY <1>2, <2>1 DEF At
<1>7. SUFFICES ASSUME NEW m \in DOMAIN r, m > a
      PROVE  \/ \E k \in 0 .. Count(v) - 1 : At(v, k).ackno = m
             \/ /\ Count(v) = SIZE - 1
                /\ \A k \in 0 .. Count(v) - 1 : m < At(v, k).ackno
  BY DEF HoldsNewer
<1>8. CASE m = n
  <2>1. CASE Count(v) >= 1
    <3>1. Count(v) - 1 \in 0 .. Count(v) - 1
      BY <1>3, <2>1
    <3>2. QED
      BY <1>6, <1>8, <2>1, <3>1
  <2>2. CASE ~ Count(v) >= 1
    <3>1. Count(v) = SIZE - 1 /\ 0 .. Count(v) - 1 = {}
      BY <1>1, <1>2, <1>3, <1>4, <2>2
    <3>2. QED
      BY <3>1
  <2>3. QED
    BY <2>1, <2>2
<1>9. CASE m # n
  <2>1. m \in DOMAIN s /\ m \in Int /\ m < n
    BY <1>9
  <2>2. ASSUME full = 1, \A k \in 1 .. Count(w) - 1 : m < At(w, k).ackno
        PROVE  /\ Count(v) = SIZE - 1
               /\ \A k \in 0 .. Count(v) - 1 : m < At(v, k).ackno
    <3>1. Count(v) = SIZE - 1
      BY <1>2, <1>3, <1>4, <2>2
    <3>2. ASSUME NEW k \in 0 .. Count(v) - 1 PROVE m < At(v, k).ackno
      <4>1. CASE k = Count(v) - 1
        <5>1. Count(v) >= 1
          BY <1>3, <4>1
        <5>2. QED
          BY <1>6, <2>1, <4>1, <5>1
      <4>2. CASE k # Count(v) - 1
        <5>1. At(v, k) = At(w, k + 1) /\ k + 1 \in 1 .. Count(w) - 1
          BY <1>3, <1>5, <2>2, <4>2
        <5>2. QED
          BY <2>2, <5>1
      <4>3. QED
        BY <4>1, <4>2
    <3>3. QED
      BY <3>1, <3>2
  <2>3. CASE \E k \in 0 .. Count(w) - 1 : At(w, k).ackno = m
    <3>1. PICK k \in 0 .. Count(w) - 1 : At(w, k).ackno = m
      BY <2>3
    <3>2. CASE k >= full
      <4>1. PICK j \in Int : j = k - full
        BY <1>1
      <4>2. j \in 0 .. Count(v) - 1 /\ j # Count(v) - 1 /\ j + full = k
        BY <1>1, <1>2, <1>3, <3>2, <4>1
      <4>3. At(v, j).ackno = m
        BY <1>5, <3>1, <4>2
      <4>4. QED
        BY <4>2, <4>3
    <3>3. CASE ~ k >= full
      <4>1. k = 0 /\ full = 1
        BY <1>1, <3>3
      <4>2. ASSUME NEW j \in 1 .. Count(w) - 1 PROVE m < At(w, j).ackno
        <5>1. j \in 0 .. Count(w) - 1 /\ k < j
          BY <1>3, <4>1
        <5>2. QED
          BY <3>1, <5>1 DEF FreshRecords
      <4>3. QED
        BY <2>2, <4>1, <4>2
    <3>4. QED
      BY <3>2, <3>3
  <2>4. CASE /\ Count(w) = SIZE - 1
             /\ \A k \in 0 .. Count(w) - 1 : m < At(w, k).ackno
    <3>1. full = 1
      BY <1>4, <2>4
    <3>2. 1 .. Count(w) - 1 \subseteq 0 .. Count(w) - 1
      BY <1>3
    <3>3. QED
      BY <2>2, <2>4, <3>1, <3>2
  <2>5. QED
    BY <1>7, <2>1, <2>3, <2>4 DEF HoldsNewer
<1>10. QED
  BY <1>8, <1>9

\* A look-up gives up the number it finds and older ones only.
LEMMA AnswerKeepsNewer ==
  ASSUME NEW T, NEW w \in WindowType(T), NEW s, NEW a \in Int, NEW n \in Int,
         DOMAIN s \subseteq Int, FreshRecords(w, s, a), HoldsNewer(w, s, a), Found(w, n),
         NEW v, v = AfterAcknowledge(w, n)
  PROVE  HoldsNewer(v, s, n)
<1>1. PICK p : p = FirstHit(w, n) - w.oldest_idx
  OBVIOUS
<1>2. /\ p \in 0 .. Count(w) - 1
      /\ At(w, p).ackno = n
      /\ Count(v) = Count(w) - 1 - p
      /\ \A j \in 0 .. Count(v) - 1 : At(v, j) = At(w, p + 1 + j)
  BY <1>1, LookUpFound
<1>3. Count(w) \in Int /\ n > a
  BY <1>2, ScanEnd DEF FreshRecords
<1>4. SUFFICES ASSUME NEW m \in DOMAIN s, m > n
      PROVE  \E j \in 0 .. Count(v) - 1 : At(v, j).ackno = m
  BY DEF HoldsNewer
<1>5. m \in Int /\ m > a
  BY <1>3, <1>4
<1>6. ~ \A k \in 0 .. Count(w) - 1 : m < At(w, k).ackno
  BY <1>2, <1>4, <1>5
<1>7. PICK k \in 0 .. Count(w) - 1 : At(w, k).ackno = m
  BY <1>5, <1>6 DEF HoldsNewer
<1>8. p < k
  <2>1. k # p
    BY <1>2, <1>4, <1>5, <1>7
  <2>2. ~ k < p
    <3>1. k < p => m < n
      BY <1>2, <1>7 DEF FreshRecords
    <3>2. QED
      BY <1>4, <1>5, <3>1
  <2>3. QED
    BY <1>2, <1>3, <2>1, <2>2
<1>9. PICK j \in Int : j = k - p - 1
  BY <1>2, <1>3
<1>10. j \in 0 .. Count(v) - 1 /\ p + 1 + j = k
  BY <1>2, <1>3, <1>8, <1>9
<1>11. At(v, j).ackno = m
  BY <1>2, <1>7, <1>10
<1>12. QED
  BY <1>10, <1>11

\* With both, a number that is not answered is held if and only if there are
\* fewer than SIZE - 1 newer ones.
LEMMA HeldIsNewest ==
  ASSUME NEW T, NEW w \in WindowType(T), NEW s, NEW a \in Int,
         DOMAIN s \subseteq Int, IsFiniteSet(DOMAIN s),
         FreshRecords(w, s, a), HoldsNewer(w, s, a),
         NEW n \in DOMAIN s, n > a
  PROVE  (\E k \in 0 .. Count(w) - 1 : At(w, k).ackno = n)
           <=> Cardinality({m \in DOMAIN s : m > n}) < SIZE - 1
<1>1. Count(w) \in 0 .. SIZE - 1 /\ SIZE \in Nat /\ n \in Int
  BY ScanEnd, SizeType
<1>2. PICK U : U = {m \in DOMAIN s : m > n}
  OBVIOUS
<1>3. IsFiniteSet(U) /\ Cardinality(U) \in Nat
  BY <1>2, FS_Subset, FS_CardinalityType
<1>4. ASSUME NEW k \in 0 .. Count(w) - 1, At(w, k).ackno = n
      PROVE  Cardinality(U) < SIZE - 1
  <2> DEFINE f == [j \in k + 1 .. Count(w) - 1 |-> At(w, j).ackno]
  <2>1. ASSUME NEW j \in k + 1 .. Count(w) - 1 PROVE At(w, j).ackno \in U
    <3>1. j \in 0 .. Count(w) - 1 /\ k < j
      BY <1>1
    <3>2. At(w, j).ackno \in DOMAIN s /\ n < At(w, j).ackno
      BY <1>4, <3>1 DEF FreshRecords
    <3>3. QED
      BY <1>1, <1>2, <3>2
  <2>2. ASSUME NEW m \in U PROVE \E j \in k + 1 .. Count(w) - 1 : f[j] = m
    <3>1. m \in DOMAIN s /\ m \in Int /\ m > n /\ m > a
      BY <1>1, <1>2
    <3>2. ~ (m < At(w, k).ackno)
      BY <1>1, <1>4, <3>1
    <3>3. PICK j \in 0 .. Count(w) - 1 : At(w, j).ackno = m
      BY <3>1, <3>2 DEF HoldsNewer
    <3>4. j # k /\ ~ (j < k)
      <4>1. j < k => m < n
        BY <1>4, <3>3 DEF FreshRecords
      <4>2. QED
        BY <1>1, <1>4, <3>1, <3>3, <4>1
    <3>5. j \in k + 1 .. Count(w) - 1
      BY <1>1, <3>4
    <3>6. QED
      BY <3>3, <3>5
  <2>3. f \in Surjection(k + 1 .. Count(w) - 1, U)
    <3>1. f \in [k + 1 .. Count(w) - 1 -> U]
      BY <2>1
    <3>2. QED
      BY <2>2, <3>1 DEF Surjection
  <2>4. /\ IsFiniteSet(k + 1 .. Count(w) - 1)
        /\ Cardinality(k + 1 .. Count(w) - 1) =
              IF k + 1 > Count(w) - 1 THEN 0 ELSE Count(w) - 1 - (k + 1) + 1
    <3>1. k + 1 \in Int /\ Count(w) - 1 \in Int
      BY <1>1
    <3>2. QED
      BY <3>1, FS_Interval
  <2>5. Cardinality(U) <= Cardinality(k + 1 .. Count(w) - 1)
    BY <2>3, <2>4, FS_Surjection
  <2>6. QED
    BY <1>1, <1>3, <2>4, <2>5
<1>5. ASSUME Cardinality(U) < SIZE - 1
      PROVE  \E k \in 0 .. Count(w) - 1 : At(w, k).ackno = n
  <2> SUFFICES ASSUME Count(w) = SIZE - 1, \A k \in 0 .. Count(w) - 1 : n < At(w, k).ackno
               PROVE  FALSE
    BY <1>1 DEF HoldsNewer
  <2> DEFINE f == [j \in 0 .. Count(w) - 1 |-> At(w, j).ackno]
  <2>1. \A j \in 0 .. Count(w) - 1 : At(w, j).ackno \in DOMAIN s /\ At(w, j).ackno \in Int
    BY DEF FreshRecords
  <2>2. f \in [0 .. Count(w) - 1 -> U]
    BY <1>1, <1>2, <2>1
  <2>3. ASSUME NEW i \in 0 .. Count(w) - 1, NEW j \in 0 .. Count(w) - 1, f[i] = f[j]
        PROVE  i = j
    <3>1. i < j => At(w, i).ackno < At(w, j).ackno
      BY DEF FreshRecords
    <3>2. j < i => At(w, j).ackno < At(w, i).ackno
      BY DEF FreshRecords
    <3>3. QED
      BY <1>1, <2>1, <2>3, <3>1, <3>2
  <2>4. f \in Injection(0 .. Count(w) - 1, U)
    BY <2>2, <2>3 DEF Injection, IsInjective
  <2>5. Cardinality(0 .. Count(w) - 1) <= Cardinality(U)
    BY <1>3, <2>4, FS_Injection
  <2>6. Cardinality(0 .. Count(w) - 1) =
          IF 0 > Count(w) - 1 THEN 0 ELSE Count(w) - 1 - 0 + 1
    <3>1. 0 \in Int /\ Count(w) - 1 \in Int
      BY <1>1
    <3>2. QED
      BY <3>1, FS_Interval
  <2>7. QED
    BY <1>1, <1>3, <1>5, <2>5, <2>6
<1>6. QED
  BY <1>2, <1>4, <1>5

=============================================================================
