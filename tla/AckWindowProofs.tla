-------------------------- MODULE AckWindowProofs --------------------------
(***************************************************************************)
(* Proofs about the ring of ACK records, for every SIZE and every bound.   *)
(***************************************************************************)
EXTENDS AckWindow, AckWindowLemmas

-----------------------------------------------------------------------------
(* The invariant.                                                          *)

\* The inductive invariant: that the answer of a look-up is a number already
\* sent (TypeOK) follows from what the records hold (LiveRecordsFresh), and
\* that nothing is lost early (HoldsNewer) from their order.
WindowInv == TypeOK /\ LiveRecordsFresh /\ HoldsNewer(window, sent, answered)

LEMMA InitWindowInv == Init => WindowInv
<1>1. SUFFICES ASSUME Init PROVE WindowInv
  OBVIOUS
<1>2. window \in WindowType(Times)
  BY <1>1, SizeType, BoundsAssumption
     DEF Init, EmptyWindow, WindowType, EntryType, Slots, SRT_SEQNO_NONE
<1>3. TypeOK
  BY <1>1, <1>2, BoundsAssumption DEF Init, TypeOK, NotFound
<1>4. Count(window) = 0
  BY <1>1 DEF Init, EmptyWindow, Count, Wrapped
<1>5. FreshRecords(window, sent, answered)
  BY <1>4 DEF FreshRecords
<1>6. HoldsNewer(window, sent, answered)
  BY <1>1 DEF Init, HoldsNewer
<1>7. QED
  BY <1>2, <1>3, <1>5, <1>6, FreshByPosition DEF WindowInv, LiveRecordsFresh, FreshScan

LEMMA StoreKeepsInv ==
  ASSUME WindowInv, NEW t \in Times, StoreRecord(t)
  PROVE  WindowInv'
<1>1. /\ window \in WindowType(Times)
      /\ ackno \in Int /\ answered \in Int /\ answered < ackno
      /\ DOMAIN sent \subseteq Int
      /\ \A n \in DOMAIN sent : n < ackno
      /\ FreshRecords(window, sent, answered)
  BY FreshByPosition DEF WindowInv, TypeOK, LiveRecordsFresh, FreshScan
<1>2. /\ window' = Store(window, ackno, t)
      /\ ackno' = ackno + 1
      /\ sent' = [n \in DOMAIN sent \cup {ackno} |-> IF n = ackno THEN t ELSE sent[n]]
      /\ answered' = answered /\ rtt' = rtt
      /\ ackno <= MaxAckNo
  BY DEF StoreRecord
<1>3. /\ window' = Store(window, ackno, t)
      /\ DOMAIN sent' = DOMAIN sent \cup {ackno}
      /\ sent'[ackno] = t
      /\ \A n \in DOMAIN sent : sent'[n] = sent[n]
  BY <1>1, <1>2
<1>4. window' \in WindowType(Times) /\ FreshRecords(window', sent', answered)
  BY <1>1, <1>3, StoreKeepsFresh
<1>5. TypeOK'
  BY <1>2, <1>4, BoundsAssumption DEF WindowInv, TypeOK
<1>6. LiveRecordsFresh'
  BY <1>2, <1>4, FreshByPosition DEF LiveRecordsFresh, FreshScan
<1>7. HoldsNewer(window', sent', answered)
  BY <1>1, <1>3, StoreKeepsNewer DEF WindowInv
<1>8. QED
  BY <1>2, <1>5, <1>6, <1>7 DEF WindowInv

LEMMA LookUpKeepsInv ==
  ASSUME WindowInv, NEW n \in 1 .. MaxAckNo, NEW t \in Times, LookUp(n, t)
  PROVE  WindowInv'
<1>1. /\ window \in WindowType(Times)
      /\ answered \in Int /\ n \in Int
      /\ DOMAIN sent \subseteq Int
      /\ FreshRecords(window, sent, answered)
  BY BoundsAssumption, FreshByPosition DEF WindowInv, TypeOK, LiveRecordsFresh, FreshScan
<1>2. UNCHANGED <<ackno, sent>>
  BY DEF LookUp
<1>3. CASE ~ Found(window, n)
  <2>1. window' = window /\ answered' = answered /\ rtt' = NotFound
    BY <1>3 DEF LookUp, AfterAcknowledge, MeasuredRtt
  <2>2. QED
    BY <1>2, <2>1 DEF WindowInv, TypeOK, LiveRecordsFresh, NotFound
<1>4. CASE Found(window, n)
  <2>1. /\ window' = AfterAcknowledge(window, n)
        /\ answered' = n
        /\ rtt' = MeasuredRtt(window, n, t)
    BY <1>4 DEF LookUp
  <2>2. /\ window' \in WindowType(Times) /\ FreshRecords(window', sent, n)
        /\ n \in DOMAIN sent
        /\ window.records_[FirstHit(window, n) % SIZE].sendtime = sent[n]
    BY <1>1, <1>4, <2>1, AnswerKeepsFresh
  <2>3. TypeOK'
    <3>1. n \in 1 .. ackno - 1 /\ sent[n] \in Int /\ t \in Int
      BY <2>2, BoundsAssumption DEF WindowInv, TypeOK
    <3>2. rtt' \in Int
      BY <1>4, <2>1, <2>2, <3>1 DEF MeasuredRtt
    <3>3. QED
      BY <1>2, <2>1, <2>2, <3>1, <3>2 DEF WindowInv, TypeOK
  <2>4. LiveRecordsFresh'
    BY <1>2, <2>1, <2>2, FreshByPosition DEF LiveRecordsFresh, FreshScan
  <2>5. HoldsNewer(window', sent, n)
    BY <1>1, <1>4, <2>1, AnswerKeepsNewer DEF WindowInv
  <2>6. QED
    BY <1>2, <2>1, <2>3, <2>4, <2>5 DEF WindowInv
<1>5. QED
  BY <1>3, <1>4

LEMMA RestartIsInit == Restart => Init'
  BY DEF Restart, Init

LEMMA RestartKeepsInv == Restart => WindowInv'
  BY RestartIsInit, InitWindowInv, PTL

LEMMA NextKeepsInv == WindowInv /\ [Next]_vars => WindowInv'
<1> SUFFICES ASSUME WindowInv, [Next]_vars PROVE WindowInv'
  OBVIOUS
<1>1. ASSUME NEW t \in Times, StoreRecord(t) PROVE WindowInv'
  BY <1>1, StoreKeepsInv
<1>2. CASE SkipNumber
  <2>1. TypeOK'
    BY <1>2, BoundsAssumption DEF WindowInv, TypeOK, SkipNumber
  <2>2. LiveRecordsFresh'
    BY <1>2 DEF WindowInv, LiveRecordsFresh, SkipNumber
  <2>3. HoldsNewer(window, sent, answered)'
    BY <1>2 DEF WindowInv, SkipNumber
  <2>4. QED
    BY <2>1, <2>2, <2>3 DEF WindowInv
<1>3. ASSUME NEW n \in 1 .. MaxAckNo, NEW t \in Times, LookUp(n, t) PROVE WindowInv'
  BY <1>3, LookUpKeepsInv
<1>4. CASE UNCHANGED vars
  BY <1>4 DEF WindowInv, TypeOK, LiveRecordsFresh, vars
<1>5. CASE Restart
  BY <1>5, RestartKeepsInv
<1>6. QED
  BY <1>1, <1>2, <1>3, <1>4, <1>5 DEF Next

\* Type correctness: no index ever leaves the array, and a look-up only finds
\* numbers that were stored (ack_window of app/ack_window.hpp).
THEOREM TypeCorrect == Spec => []TypeOK
<1>1. WindowInv => TypeOK
  BY DEF WindowInv
<1>2. QED
  BY <1>1, InitWindowInv, NextKeepsInv, PTL DEF Spec

\* For every SIZE and every order of calls the records a look-up can find are
\* newer than all answered ones and carry their own send time: reuse of a slot
\* and repeated ACKACKs never measure the wrong ACK.
THEOREM RecordsFresh == Spec => []LiveRecordsFresh
<1>1. WindowInv => LiveRecordsFresh
  BY DEF WindowInv
<1>2. QED
  BY <1>1, InitWindowInv, NextKeepsInv, PTL DEF Spec

\* For every SIZE the ring loses no record early: what a look-up can find are
\* the SIZE - 1 newest numbers stored, less those an answer has made obsolete.
THEOREM NothingLostEarly == Spec => []HoldsTheNewest
<1>1. WindowInv => HoldsTheNewest
  <2> SUFFICES ASSUME WindowInv PROVE HoldsTheNewest
    OBVIOUS
  <2>1. /\ window \in WindowType(Times)
        /\ answered \in Int
        /\ DOMAIN sent \subseteq Int
        /\ FreshRecords(window, sent, answered)
        /\ HoldsNewer(window, sent, answered)
    BY FreshByPosition DEF WindowInv, TypeOK, LiveRecordsFresh, FreshScan
  <2>2. IsFiniteSet(DOMAIN sent)
    <3>1. DOMAIN sent \subseteq 1 .. ackno - 1 /\ ackno - 1 \in Int /\ 1 \in Int
      BY DEF WindowInv, TypeOK
    <3>2. IsFiniteSet(1 .. ackno - 1)
      BY <3>1, FS_Interval
    <3>3. QED
      BY <3>1, <3>2, FS_Subset
  <2>3. /\ window.oldest_idx \in Int /\ Count(window) \in Int
        /\ Scan(window) = window.oldest_idx .. window.oldest_idx + Count(window) - 1
    BY <2>1, ScanIsInterval, ScanEnd
  <2>4. \A n : (\E i \in Scan(window) : RecordAt(window, i).ackno = n)
                <=> \E k \in 0 .. Count(window) - 1 : At(window, k).ackno = n
    <3>1. ASSUME NEW n, NEW i \in Scan(window), RecordAt(window, i).ackno = n
          PROVE  \E k \in 0 .. Count(window) - 1 : At(window, k).ackno = n
      <4>1. PICK k \in Int : k = i - window.oldest_idx
        BY <2>3
      <4>2. k \in 0 .. Count(window) - 1 /\ window.oldest_idx + k = i
        BY <2>3, <4>1
      <4>3. QED
        BY <3>1, <4>2 DEF At
    <3>2. ASSUME NEW n, NEW k \in 0 .. Count(window) - 1, At(window, k).ackno = n
          PROVE  \E i \in Scan(window) : RecordAt(window, i).ackno = n
      <4>1. window.oldest_idx + k \in Scan(window)
        BY <2>3
      <4>2. QED
        BY <3>2, <4>1 DEF At
    <3>3. QED
      BY <3>1, <3>2
  <2>5. ASSUME NEW k \in 0 .. Count(window) - 1
        PROVE  At(window, k).ackno \in DOMAIN sent /\ At(window, k).ackno > answered
    BY <2>1 DEF FreshRecords
  <2>6. ASSUME NEW n \in DOMAIN sent, n > answered
        PROVE  (\E k \in 0 .. Count(window) - 1 : At(window, k).ackno = n)
                 <=> Cardinality({m \in DOMAIN sent : m > n}) < SIZE - 1
    BY <2>1, <2>2, <2>6, HeldIsNewest
  <2>7. QED
    BY <2>4, <2>5, <2>6 DEF HoldsTheNewest
<1>2. QED
  BY <1>1, InitWindowInv, NextKeepsInv, PTL DEF Spec

-----------------------------------------------------------------------------
(* The ring implements the queue.                                          *)

\* The sequence a ring stands for.
LEMMA PendingIsSeq ==
  ASSUME NEW T, NEW w \in WindowType(T)
  PROVE  /\ PendingOf(w) \in Seq(EntryType(T))
         /\ Len(PendingOf(w)) = Count(w)
         /\ Count(w) \in Nat
         /\ \A k \in 1 .. Count(w) : PendingOf(w)[k] = At(w, k - 1)
<1>1. /\ Count(w) \in 0 .. SIZE - 1
      /\ w.oldest_idx \in 0 .. SIZE - 1
  BY ScanEnd
<1>2. ASSUME NEW k \in 1 .. Count(w)
      PROVE  /\ w.oldest_idx + k - 1 \in 0 .. 2 * SIZE - 1
             /\ w.oldest_idx + k - 1 = w.oldest_idx + (k - 1)
  BY <1>1, SizeType
<1>3. PendingOf(w) \in [1 .. Count(w) -> EntryType(T)]
  BY <1>2, RecordType DEF PendingOf
<1>4. \A k \in 1 .. Count(w) : PendingOf(w)[k] = At(w, k - 1)
  BY <1>2 DEF PendingOf, At
<1>5. QED
  BY <1>1, <1>3, <1>4, FunctionIsSeq

\* store() is Enqueue.
LEMMA StorePending ==
  ASSUME NEW T, NEW w \in WindowType(T), NEW n \in Int, NEW t \in T,
         NEW v, v = Store(w, n, t),
         NEW longer, longer = Append(PendingOf(w), [ackno |-> n, sendtime |-> t])
  PROVE  PendingOf(v) = IF Len(PendingOf(w)) = SIZE - 1 THEN Tail(longer) ELSE longer
<1> DEFINE full == IF Count(w) = SIZE - 1 THEN 1 ELSE 0
           rec == [ackno |-> n, sendtime |-> t]
<1>1. full \in 0 .. 1
  OBVIOUS
<1>2. /\ v \in WindowType(T)
      /\ Count(v) = Count(w) + 1 - full
      /\ \A k \in 0 .. Count(v) - 1 :
            RecordAt(v, v.oldest_idx + k) =
              IF k = Count(v) - 1 THEN rec ELSE RecordAt(w, w.oldest_idx + k + full)
  BY <1>1, StoreContents
<1>3. /\ PendingOf(w) \in Seq(EntryType(T)) /\ Len(PendingOf(w)) = Count(w)
      /\ Count(w) \in Nat
      /\ \A k \in 1 .. Count(w) : PendingOf(w)[k] = At(w, k - 1)
  BY PendingIsSeq
<1>4. /\ PendingOf(v) \in Seq(EntryType(T)) /\ Len(PendingOf(v)) = Count(v)
      /\ Count(v) \in Nat
      /\ \A k \in 1 .. Count(v) : PendingOf(v)[k] = At(v, k - 1)
  BY <1>2, PendingIsSeq
<1>5. rec \in EntryType(T)
  BY DEF EntryType
<1>6. /\ longer \in Seq(EntryType(T))
      /\ Len(longer) = Count(w) + 1
      /\ \A k \in 1 .. Count(w) : longer[k] = At(w, k - 1)
      /\ longer[Count(w) + 1] = rec
  BY <1>3, <1>5, AppendProperties
<1>7. \A k \in 1 .. Count(v) :
         At(v, k - 1) = IF k = Count(v) THEN rec ELSE At(w, k - 1 + full)
  <2>1. w.oldest_idx \in Int
    BY ScanEnd
  <2>2. ASSUME NEW k \in 1 .. Count(v)
        PROVE  /\ k - 1 \in 0 .. Count(v) - 1
               /\ k - 1 = Count(v) - 1 <=> k = Count(v)
               /\ w.oldest_idx + (k - 1) + full = w.oldest_idx + (k - 1 + full)
    BY <1>1, <1>4, <2>1
  <2> HIDE DEF full, rec
  <2>3. QED
    BY <1>2, <2>2 DEF At
<1>8. CASE Count(w) = SIZE - 1
  <2>1. full = 1 /\ Count(v) = Count(w)
    BY <1>2, <1>3, <1>8
  <2>2. longer # <<>>
    BY <1>3, <1>6, EmptySeq
  <2>3. /\ Tail(longer) \in Seq(EntryType(T))
        /\ Len(Tail(longer)) = Count(w)
        /\ \A k \in 1 .. Count(w) : Tail(longer)[k] = longer[k + 1]
    BY <1>3, <1>6, <2>2, HeadTailProperties
  <2>4. ASSUME NEW k \in 1 .. Count(v)
        PROVE  PendingOf(v)[k] = Tail(longer)[k]
    <3>1. CASE k = Count(v)
      BY <1>3, <1>4, <1>6, <1>7, <2>1, <2>3, <3>1
    <3>2. CASE k # Count(v)
      <4>1. k + 1 \in 1 .. Count(w) /\ k + 1 - 1 = k - 1 + full
        BY <1>3, <2>1, <3>2
      <4>2. QED
        BY <1>4, <1>6, <1>7, <2>1, <2>3, <3>2, <4>1
    <3>3. QED
      BY <3>1, <3>2
  <2>5. PendingOf(v) = Tail(longer)
    BY <1>4, <2>1, <2>3, <2>4, SeqEqual
  <2>6. QED
    BY <1>3, <1>8, <2>5
<1>9. CASE Count(w) # SIZE - 1
  <2>1. full = 0 /\ Count(v) = Count(w) + 1
    BY <1>2, <1>3, <1>9
  <2>2. ASSUME NEW k \in 1 .. Count(v)
        PROVE  PendingOf(v)[k] = longer[k]
    <3>1. CASE k = Count(v)
      BY <1>4, <1>6, <1>7, <2>1, <3>1
    <3>2. CASE k # Count(v)
      <4>1. k \in 1 .. Count(w) /\ k - 1 = k - 1 + full
        BY <1>3, <2>1, <3>2
      <4>2. QED
        BY <1>4, <1>6, <1>7, <3>2, <4>1
    <3>3. QED
      BY <3>1, <3>2
  <2>3. PendingOf(v) = longer
    BY <1>4, <1>6, <2>1, <2>2, SeqEqual
  <2>4. QED
    BY <1>3, <1>9, <2>3
<1>10. QED
  BY <1>8, <1>9

\* A look-up that finds its number is Answer.
LEMMA ForgetPending ==
  ASSUME NEW T, NEW w \in WindowType(T), NEW n, Found(w, n),
         NEW v, v = AfterAcknowledge(w, n),
         NEW k, k = FirstHit(w, n) - w.oldest_idx + 1
  PROVE  /\ k \in 1 .. Len(PendingOf(w))
         /\ PendingOf(w)[k] = w.records_[FirstHit(w, n) % SIZE]
         /\ PendingOf(w)[k].ackno = n
         /\ \A j \in 1 .. k - 1 : PendingOf(w)[j].ackno # n
         /\ PendingOf(v) = SubSeq(PendingOf(w), k + 1, Len(PendingOf(w)))
<1>1. PICK p : p = FirstHit(w, n) - w.oldest_idx
  OBVIOUS
<1>2. /\ p \in 0 .. Count(w) - 1
      /\ At(w, p).ackno = n
      /\ \A j \in 0 .. p - 1 : At(w, j).ackno # n
      /\ At(w, p) = w.records_[FirstHit(w, n) % SIZE]
      /\ v \in WindowType(T)
      /\ Count(v) = Count(w) - 1 - p
      /\ \A j \in 0 .. Count(v) - 1 : At(v, j) = At(w, p + 1 + j)
  BY <1>1, LookUpFound
<1>3. /\ PendingOf(w) \in Seq(EntryType(T)) /\ Len(PendingOf(w)) = Count(w)
      /\ Count(w) \in Nat
      /\ \A j \in 1 .. Count(w) : PendingOf(w)[j] = At(w, j - 1)
  BY PendingIsSeq
<1>4. /\ PendingOf(v) \in Seq(EntryType(T)) /\ Len(PendingOf(v)) = Count(v)
      /\ Count(v) \in Nat
      /\ \A j \in 1 .. Count(v) : PendingOf(v)[j] = At(v, j - 1)
  BY <1>2, PendingIsSeq
<1>5. k = p + 1 /\ k \in 1 .. Count(w) /\ k - 1 = p
  BY <1>1, <1>2, <1>3
<1>6. /\ PendingOf(w)[k] = At(w, p)
      /\ \A j \in 1 .. k - 1 : PendingOf(w)[j].ackno # n
  BY <1>2, <1>3, <1>5
<1>7. PICK m \in Int : m = k + 1
  BY <1>5
<1> DEFINE rest == SubSeq(PendingOf(w), m, Count(w))
<1>8. /\ rest \in Seq(EntryType(T))
      /\ Len(rest) = Count(v)
      /\ \A j \in 1 .. Count(v) : rest[j] = PendingOf(w)[m + j - 1]
  <2>1. \A j \in m .. Count(w) : PendingOf(w)[j] \in EntryType(T)
    BY <1>3, <1>5, <1>7, ElementOfSeq
  <2>2. /\ rest \in Seq(EntryType(T))
        /\ Len(rest) = IF m <= Count(w) THEN Count(w) - m + 1 ELSE 0
        /\ \A j \in 1 .. Count(w) - m + 1 : rest[j] = PendingOf(w)[m + j - 1]
    BY <1>3, <2>1, SubSeqProperties
  <2>3. Count(w) - m + 1 = Count(v)
    BY <1>2, <1>3, <1>5, <1>7
  <2>4. Len(rest) = Count(v)
    BY <1>3, <1>4, <2>2, <2>3
  <2>5. QED
    BY <2>2, <2>3, <2>4
<1>11. ASSUME NEW j \in 1 .. Count(v) PROVE PendingOf(v)[j] = rest[j]
  <2>1. /\ j \in Int /\ p \in Int /\ m = p + 2
        /\ 1 <= j /\ j <= Count(w) - 1 - p /\ 0 <= p
    BY <1>2, <1>3, <1>4, <1>5, <1>7
  <2>2. /\ j - 1 \in 0 .. Count(v) - 1
        /\ p + 1 + (j - 1) = m + j - 1 - 1
        /\ m + j - 1 \in 1 .. Count(w)
    BY <1>2, <1>3, <1>4, <2>1
  <2>3. PendingOf(v)[j] = At(v, j - 1) /\ At(v, j - 1) = At(w, p + 1 + (j - 1))
    BY <1>2, <1>4, <2>2
  <2>4. PendingOf(w)[m + j - 1] = At(w, m + j - 1 - 1)
    BY <1>3, <2>2
  <2>5. QED
    BY <1>8, <2>2, <2>3, <2>4
<1>9. PendingOf(v) = rest
  BY <1>4, <1>8, <1>11, SeqEqual
<1>10. QED
  BY <1>2, <1>3, <1>5, <1>6, <1>7, <1>9

LEMMA InitMapsToInit == Init => Queue!Init
<1>1. SUFFICES ASSUME Init PROVE PendingOf(window) = <<>> /\ rtt = NotFound
  BY DEF Queue!Init
<1>2. window \in WindowType(Times)
  BY <1>1, InitWindowInv DEF WindowInv, TypeOK
<1>3. Count(window) = 0
  BY <1>1 DEF Init, EmptyWindow, Count, Wrapped
<1>4. PendingOf(window) \in Seq(EntryType(Times)) /\ Len(PendingOf(window)) = 0
  BY <1>2, <1>3, PendingIsSeq
<1>5. PendingOf(window) = <<>>
  BY <1>4, EmptySeq
<1>6. QED
  BY <1>1, <1>5 DEF Init

LEMMA StoreMapsToEnqueue ==
  ASSUME TypeOK, NEW t \in Times, StoreRecord(t)
  PROVE  Queue!Enqueue(ackno, t)
<1>1. /\ window \in WindowType(Times) /\ ackno \in Int
      /\ window' = Store(window, ackno, t)
  BY DEF TypeOK, StoreRecord
<1>2. PendingOf(window') =
        IF Len(PendingOf(window)) = SIZE - 1
        THEN Tail(Append(PendingOf(window), [ackno |-> ackno, sendtime |-> t]))
        ELSE Append(PendingOf(window), [ackno |-> ackno, sendtime |-> t])
  <2>1. PICK longer : longer = Append(PendingOf(window), [ackno |-> ackno, sendtime |-> t])
    OBVIOUS
  <2>2. PendingOf(window') = IF Len(PendingOf(window)) = SIZE - 1 THEN Tail(longer) ELSE longer
    BY <1>1, <2>1, StorePending
  <2>3. QED
    BY <2>1, <2>2
<1>3. rtt' = rtt
  BY DEF StoreRecord
<1>4. QED
  BY <1>2, <1>3 DEF Queue!Enqueue

LEMMA LookUpMapsToAnswer ==
  ASSUME TypeOK, NEW n \in 1 .. MaxAckNo, NEW t \in Times, LookUp(n, t)
  PROVE  Queue!Answer(n, t) \/ Queue!AnswerUnknown(n)
<1>1. /\ window \in WindowType(Times)
      /\ window' = AfterAcknowledge(window, n)
      /\ rtt' = MeasuredRtt(window, n, t)
  BY DEF TypeOK, LookUp
<1>2. CASE Found(window, n)
  <2>1. PICK k : k = FirstHit(window, n) - window.oldest_idx + 1
    OBVIOUS
  <2>2. /\ k \in 1 .. Len(PendingOf(window))
        /\ PendingOf(window)[k] = window.records_[FirstHit(window, n) % SIZE]
        /\ PendingOf(window)[k].ackno = n
        /\ \A j \in 1 .. k - 1 : PendingOf(window)[j].ackno # n
        /\ PendingOf(window') = SubSeq(PendingOf(window), k + 1, Len(PendingOf(window)))
    BY <1>1, <1>2, <2>1, ForgetPending
  <2>3. rtt' = t - PendingOf(window)[k].sendtime
    BY <1>1, <1>2, <2>2 DEF MeasuredRtt
  <2>4. Queue!Answer(n, t)
    BY <2>2, <2>3 DEF Queue!Answer, Queue!FirstAt
  <2>5. QED
    BY <2>4
<1>3. CASE ~ Found(window, n)
  <2>1. window' = window /\ rtt' = NotFound
    BY <1>1, <1>3 DEF AfterAcknowledge, MeasuredRtt
  <2>2. /\ Len(PendingOf(window)) = Count(window) /\ Count(window) \in Nat
        /\ window.oldest_idx \in Int
        /\ Scan(window) = window.oldest_idx .. window.oldest_idx + Count(window) - 1
        /\ \A k \in 1 .. Count(window) : PendingOf(window)[k] = At(window, k - 1)
    BY <1>1, PendingIsSeq, ScanIsInterval, ScanEnd
  <2>3. ASSUME NEW k \in 1 .. Len(PendingOf(window))
        PROVE  PendingOf(window)[k].ackno # n
    <3>1. window.oldest_idx + (k - 1) \in Scan(window)
      BY <2>2
    <3>2. RecordAt(window, window.oldest_idx + (k - 1)).ackno # n
      BY <1>3, <3>1 DEF Found, Hits, RecordAt
    <3>3. QED
      BY <2>2, <3>2 DEF At
  <2>4. Queue!AnswerUnknown(n)
    BY <2>1, <2>3 DEF Queue!AnswerUnknown
  <2>5. QED
    BY <2>4
<1>4. QED
  BY <1>2, <1>3

LEMMA RestartMapsToRestart == Restart => Queue!Restart
<1>1. Restart => Queue!Init'
  BY RestartIsInit, InitMapsToInit, PTL
<1>2. Queue!Init' => Queue!Restart
  BY DEF Queue!Init, Queue!Restart
<1>3. QED
  BY <1>1, <1>2

LEMMA NextMapsToNext == TypeOK /\ [Next]_vars => [Queue!Next]_(Queue!vars)
<1> SUFFICES ASSUME TypeOK, [Next]_vars PROVE [Queue!Next]_(Queue!vars)
  OBVIOUS
<1>1. ASSUME NEW t \in Times, StoreRecord(t) PROVE Queue!Next
  <2>1. ackno \in 1 .. MaxAckNo + 1
    BY DEF TypeOK
  <2>2. QED
    BY <1>1, <2>1, StoreMapsToEnqueue DEF Queue!Next
<1>2. ASSUME NEW n \in 1 .. MaxAckNo, NEW t \in Times, LookUp(n, t) PROVE Queue!Next
  <2>1. n \in 1 .. MaxAckNo + 1
    BY BoundsAssumption
  <2>2. QED
    BY <1>2, <2>1, LookUpMapsToAnswer DEF Queue!Next
<1>3. CASE SkipNumber
  BY <1>3 DEF SkipNumber, Queue!vars
<1>4. CASE UNCHANGED vars
  BY <1>4 DEF vars, Queue!vars
<1>5. CASE Restart
  BY <1>5, RestartMapsToRestart DEF Queue!Next
<1>6. QED
  BY <1>1, <1>2, <1>3, <1>4, <1>5 DEF Next

\* The ring of app/ack_window.hpp implements the queue of AckQueue for every
\* SIZE: callers never see the wrap, the overwriting or the two scan loops.
THEOREM RingImplementsQueue == Spec => ImplementsQueue
<1>1. Init => Queue!Init
  BY InitMapsToInit
<1>2. TypeOK /\ [Next]_vars => [Queue!Next]_(Queue!vars)
  BY NextMapsToNext
<1>3. QED
  BY <1>1, <1>2, TypeCorrect, PTL DEF Spec, ImplementsQueue, Queue!Spec

=============================================================================
