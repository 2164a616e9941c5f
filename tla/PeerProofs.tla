----------------------------- MODULE PeerProofs -----------------------------
(***************************************************************************)
(* Proofs about the two threads of a peer: for every SIZE, every number of *)
(* ACKs and every clock, the lock of g_path covers what it has to.         *)
(***************************************************************************)
EXTENDS Peer, AckWindowLemmas

Readings == ClockReadings \cup {0}

-----------------------------------------------------------------------------
(* The inductive invariant.                                                *)

SenderInv ==
  /\ snd \in [ pc    : {"sleep", "send", "sent", "store"},
               ackno : 0 .. MaxAckNo,
               rtt   : 0 .. IntMod - 1,
               stamp : Readings ]
  /\ snd.pc # "sleep" => snd.ackno >= 1
  /\ snd.pc = "send" => snd.ackno \notin DOMAIN left
  /\ snd.pc \in {"sent", "store"} => snd.ackno \in DOMAIN left
  /\ snd.pc = "store" => snd.stamp \in ClockReadings /\ left[snd.ackno] <= snd.stamp

ReceiverInv ==
  /\ rcv \in [ pc     : {"wait", "received", "handle"},
               ackack : [ackno : 0 .. MaxAckNo, ts : 0 .. MaxTime],
               stamp  : Readings ]
  /\ rcv.pc # "wait" => rcv.ackack.ackno >= 1
  /\ rcv.pc = "handle" => rcv.stamp \in ClockReadings

LeftInv ==
  /\ now \in 0 .. MaxTime
  /\ former \subseteq 1 .. MaxAckNo
  /\ DOMAIN left \subseteq 1 .. snd.ackno
  /\ \A n \in DOMAIN left : left[n] \in ClockReadings /\ left[n] <= Clock

\* What was stored, was sent before it was stamped.
SentInv ==
  /\ DOMAIN sent \subseteq DOMAIN left
  /\ snd.pc # "sleep" => snd.ackno \notin DOMAIN sent
  /\ \A n \in DOMAIN sent : sent[n] \in ClockReadings /\ left[n] <= sent[n]

\* The shared window, as LiveRecordsFresh and HoldsTheNewest of AckWindow.
SharedInv ==
  /\ window \in WindowType(Readings)
  /\ rtt \in Int /\ rtt_var \in Int
  /\ answered \in 0 .. NextAckNo - 1
  /\ FreshRecords(window, sent, answered)
  /\ HoldsNewer(window, sent, answered)

RowInv == row.found \in BOOLEAN /\ RttOfTheAck

PeerInv == SenderInv /\ ReceiverInv /\ LeftInv /\ SentInv /\ SharedInv /\ RowInv

-----------------------------------------------------------------------------
LEMMA Bounds ==
  /\ MaxAckNo \in Nat /\ MaxTime \in Nat /\ UpTime \in Nat /\ UpTime > 0
  /\ IntMod \in Nat /\ IntMod > 0
  BY PeerAssumption, WidthAssumption

\* What the clock can read, in terms of its range.
LEMMA ReadingsAreClock ==
  /\ ClockReadings = UpTime .. UpTime + MaxTime
  /\ Readings \subseteq Int
<1>1. ASSUME NEW x \in UpTime .. UpTime + MaxTime
      PROVE  x \in ClockReadings
  <2>1. x - UpTime \in 0 .. MaxTime /\ x = UpTime + (x - UpTime)
    BY Bounds
  <2>2. QED
    BY <2>1 DEF ClockReadings
<1>2. ASSUME NEW x \in ClockReadings
      PROVE  x \in UpTime .. UpTime + MaxTime
  BY Bounds DEF ClockReadings
<1>3. ClockReadings = UpTime .. UpTime + MaxTime
  BY <1>1, <1>2
<1>4. QED
  BY <1>3, Bounds DEF Readings

\* The estimators make ints of ints.
LEMMA AverageIsInt ==
  ASSUME NEW n \in {4, 8}, NEW old \in Int, NEW new \in Int
  PROVE  avg_rma(n, old, new) \in Int
<1>1. PICK sum \in Int : sum = old * (n - 1) + new
  OBVIOUS
<1>2. SizeMod \in Nat /\ SizeMod > 0 /\ IntMod \in Nat /\ IntMod > 0
  BY WidthAssumption
<1>3. PICK u \in Int : u = sum % SizeMod
  BY <1>2
<1>4. PICK q \in Int : q = u \div n
  OBVIOUS
<1>5. PICK r \in Int : r = q % IntMod
  BY <1>2
<1>6. avg_rma(n, old, new) = ToInt(q)
  BY <1>1, <1>3, <1>4 DEF avg_rma
<1>7. ToInt(q) = IF r < IntMod \div 2 THEN r ELSE r - IntMod
  BY <1>5 DEF ToInt
<1>8. QED
  BY <1>2, <1>6, <1>7

LEMMA EstimatesAreInts ==
  ASSUME NEW e \in Int, NEW var \in Int, NEW s \in Int
  PROVE  NextRtt(e, s) \in Int /\ NextRttVar(e, var, s) \in Int
<1>1. TruncDiv(s, 2) \in Int
  BY DEF TruncDiv
<1>2. AbsInt(s - e) \in Int
  BY DEF AbsInt
<1>3. avg_rma(8, e, s) \in Int /\ avg_rma(4, var, AbsInt(s - e)) \in Int
  BY <1>2, AverageIsInt
<1>4. QED
  BY <1>1, <1>3 DEF NextRtt, NextRttVar

-----------------------------------------------------------------------------
(* Every step keeps the invariant.                                         *)

\* What a process starts with, whatever was before.
Fresh ==
  /\ snd = [pc |-> "sleep", ackno |-> 0, rtt |-> 0, stamp |-> 0]
  /\ rcv = Idle
  /\ window = EmptyWindow /\ rtt = 0 /\ rtt_var = 0
  /\ row = NoRow
  /\ left = [n \in {} |-> 0]
  /\ sent = [n \in {} |-> 0]
  /\ answered = 0

LEMMA FreshPeerInv ==
  Fresh /\ now \in 0 .. MaxTime /\ former \subseteq 1 .. MaxAckNo => PeerInv
<1> SUFFICES ASSUME Fresh, now \in 0 .. MaxTime, former \subseteq 1 .. MaxAckNo
             PROVE  PeerInv
  OBVIOUS
<1>1. 0 \in Readings /\ 0 \in 0 .. MaxAckNo /\ 0 \in 0 .. MaxTime /\ 0 \in 0 .. IntMod - 1
  BY Bounds DEF Readings
<1>2. SenderInv
  BY <1>1 DEF Fresh, SenderInv
<1>3. ReceiverInv
  BY <1>1 DEF Fresh, ReceiverInv, Idle, NoAckAck
<1>4. LeftInv /\ SentInv
  BY <1>1 DEF Fresh, LeftInv, SentInv
<1>5. window \in WindowType(Readings)
  BY <1>1, SizeType DEF Fresh, EmptyWindow, WindowType, EntryType, Slots, SRT_SEQNO_NONE
<1>6. Count(window) = 0
  BY DEF Fresh, EmptyWindow, Count, Wrapped
<1>7. FreshRecords(window, sent, answered) /\ HoldsNewer(window, sent, answered)
  BY <1>6 DEF Fresh, FreshRecords, HoldsNewer
<1>8. SharedInv
  BY <1>5, <1>7 DEF Fresh, SharedInv, NextAckNo
<1>9. RowInv
  BY DEF Fresh, RowInv, RttOfTheAck, NoRow
<1>10. QED
  BY <1>2, <1>3, <1>4, <1>8, <1>9 DEF PeerInv

LEMMA InitPeerInv == Init => PeerInv
<1>1. Init => Fresh /\ now \in 0 .. MaxTime /\ former \subseteq 1 .. MaxAckNo
  BY Bounds DEF Init, Fresh
<1>2. QED
  BY <1>1, FreshPeerInv

LEMMA RestartKeepsInv == PeerInv /\ Restart => PeerInv'
<1>1. PeerInv /\ Restart =>
        Fresh' /\ (now \in 0 .. MaxTime)' /\ (former \subseteq 1 .. MaxAckNo)'
  <2> SUFFICES ASSUME PeerInv, Restart
               PROVE  /\ Fresh'
                      /\ now' \in 0 .. MaxTime
                      /\ former' \subseteq 1 .. MaxAckNo
    OBVIOUS
  <2>1. Fresh'
    BY DEF Restart, Fresh
  <2>2. DOMAIN left \subseteq 1 .. snd.ackno /\ snd.ackno \in 0 .. MaxAckNo
    BY DEF PeerInv, LeftInv, SenderInv
  <2>3. DOMAIN left \subseteq 1 .. MaxAckNo
    BY <2>2, Bounds
  <2>4. QED
    BY <2>1, <2>3 DEF Restart, PeerInv, LeftInv
<1>2. QED
  BY <1>1, FreshPeerInv, PTL

LEMMA TickKeepsInv == PeerInv /\ Tick => PeerInv'
<1> SUFFICES ASSUME PeerInv, Tick PROVE PeerInv'
  OBVIOUS
<1>1. UNCHANGED <<snd, rcv, window, rtt, rtt_var, tsbpd, row, answered, former, left, sent>>
  BY DEF Tick, path
<1>2. SenderInv' /\ ReceiverInv' /\ SentInv' /\ SharedInv' /\ RowInv'
  BY <1>1 DEF PeerInv, SenderInv, ReceiverInv, SentInv, SharedInv, RowInv,
              RttOfTheAck, NextAckNo
<1>3. LeftInv'
  <2>1. now \in Int /\ now' = now + 1 /\ now' \in 0 .. MaxTime
    BY Bounds DEF PeerInv, LeftInv, Tick
  <2>2. ASSUME NEW n \in DOMAIN left PROVE left[n] <= UpTime + now'
    <3>1. left[n] \in Int /\ left[n] <= UpTime + now
      BY ReadingsAreClock, Bounds DEF PeerInv, LeftInv, Clock
    <3>2. QED
      BY <2>1, <3>1, Bounds
  <2>3. QED
    BY <1>1, <2>1, <2>2 DEF PeerInv, LeftInv, Clock
<1>4. QED
  BY <1>2, <1>3 DEF PeerInv

LEMMA BuildAckKeepsInv == PeerInv /\ BuildAck => PeerInv'
<1> SUFFICES ASSUME PeerInv, BuildAck PROVE PeerInv'
  OBVIOUS
<1>1. /\ UNCHANGED <<now, rcv, window, rtt, rtt_var, tsbpd, row, answered, former, left, sent>>
      /\ snd' = [snd EXCEPT !.pc = "send", !.ackno = @ + 1, !.rtt = rtt % IntMod]
      /\ snd.pc = "sleep" /\ snd.ackno < MaxAckNo
  BY DEF BuildAck, path
<1>2. /\ snd.ackno \in 0 .. MaxAckNo
      /\ snd'.pc = "send" /\ snd'.ackno = snd.ackno + 1
      /\ snd'.rtt = rtt % IntMod /\ snd'.stamp = snd.stamp
      /\ snd'.ackno \in 0 .. MaxAckNo
  BY <1>1, Bounds DEF PeerInv, SenderInv
<1>3. rtt % IntMod \in 0 .. IntMod - 1
  BY Bounds DEF PeerInv, SharedInv
<1>4. snd'.ackno \notin DOMAIN left
  BY <1>2 DEF PeerInv, LeftInv
<1>5. SenderInv'
  <2>1. snd \in [ pc    : {"sleep", "send", "sent", "store"},
                  ackno : 0 .. MaxAckNo,
                  rtt   : 0 .. IntMod - 1,
                  stamp : Readings ]
    BY DEF PeerInv, SenderInv
  <2>2. PICK r, k : r = rtt % IntMod /\ k = snd.ackno + 1
    OBVIOUS
  <2>3. snd' = [snd EXCEPT !.pc = "send", !.ackno = k, !.rtt = r]
    BY <1>1, <2>2
  <2>4. r \in 0 .. IntMod - 1 /\ k \in 0 .. MaxAckNo /\ k >= 1
    BY <1>2, <1>3, <2>2
  <2>5. snd' \in [ pc    : {"sleep", "send", "sent", "store"},
                   ackno : 0 .. MaxAckNo,
                   rtt   : 0 .. IntMod - 1,
                   stamp : Readings ]
    BY <2>1, <2>3, <2>4
  <2>6. left' = left /\ snd'.pc = "send" /\ snd'.ackno >= 1
    BY <1>1, <1>2, <2>2, <2>4
  <2>7. QED
    BY <1>4, <2>5, <2>6 DEF SenderInv
<1>6. ReceiverInv' /\ RowInv'
  BY <1>1 DEF PeerInv, ReceiverInv, RowInv, RttOfTheAck
<1>7. LeftInv'
  BY <1>1, <1>2 DEF PeerInv, LeftInv, Clock
<1>8. SentInv'
  BY <1>1, <1>4 DEF PeerInv, SentInv
<1>9. NextAckNo' = NextAckNo
  BY <1>1, <1>2 DEF NextAckNo
<1>10. SharedInv'
  BY <1>1, <1>9 DEF PeerInv, SharedInv
<1>11. QED
  BY <1>5, <1>6, <1>7, <1>8, <1>10 DEF PeerInv

LEMMA SendAckKeepsInv == PeerInv /\ SendAck => PeerInv'
<1> SUFFICES ASSUME PeerInv, SendAck PROVE PeerInv'
  OBVIOUS
<1>1. /\ UNCHANGED <<now, rcv, window, rtt, rtt_var, tsbpd, row, answered, former, sent>>
      /\ left' = Extend(left, snd.ackno, Clock)
      /\ snd' = [snd EXCEPT !.pc = "sent", !.rtt = 0]
      /\ snd.pc = "send"
  BY DEF SendAck, path
<1>2. /\ snd.ackno \in 1 .. MaxAckNo /\ snd.ackno \notin DOMAIN left
      /\ snd'.pc = "sent" /\ snd'.ackno = snd.ackno
      /\ snd'.rtt = 0 /\ snd'.stamp = snd.stamp
  BY <1>1, Bounds DEF PeerInv, SenderInv
<1>3. /\ DOMAIN left' = DOMAIN left \cup {snd.ackno}
      /\ left'[snd.ackno] = Clock
      /\ \A n \in DOMAIN left : left'[n] = left[n]
  BY <1>1, <1>2 DEF Extend
<1>4. 0 \in 0 .. IntMod - 1
  BY Bounds
<1>5. SenderInv'
  BY <1>1, <1>2, <1>3, <1>4 DEF PeerInv, SenderInv
<1>6. ReceiverInv'
  BY <1>1, <1>3 DEF PeerInv, ReceiverInv
<1>7. RowInv'
  BY <1>1, <1>3 DEF PeerInv, RowInv, RttOfTheAck
<1>8. LeftInv'
  <2>1. Clock \in ClockReadings /\ Clock \in Int
    BY Bounds DEF PeerInv, LeftInv, Clock, ClockReadings
  <2>2. Clock' = Clock
    BY <1>1 DEF Clock
  <2>3. QED
    BY <1>1, <1>2, <1>3, <2>1, <2>2 DEF PeerInv, LeftInv
<1>9. SentInv'
  BY <1>1, <1>2, <1>3 DEF PeerInv, SentInv
<1>10. NextAckNo' = NextAckNo
  BY <1>1, <1>2 DEF NextAckNo
<1>11. SharedInv'
  BY <1>1, <1>10 DEF PeerInv, SharedInv
<1>12. QED
  BY <1>5, <1>6, <1>7, <1>8, <1>9, <1>11 DEF PeerInv

LEMMA SendShortKeepsInv == PeerInv /\ SendShort => PeerInv'
<1> SUFFICES ASSUME PeerInv, SendShort PROVE PeerInv'
  OBVIOUS
<1>1. /\ UNCHANGED <<now, rcv, window, rtt, rtt_var, tsbpd, row, answered, former, left, sent>>
      /\ snd' = [snd EXCEPT !.pc = "sleep", !.rtt = 0]
      /\ snd.pc = "send"
  BY DEF SendShort, path
<1>2. /\ snd.ackno \in 1 .. MaxAckNo
      /\ snd'.pc = "sleep" /\ snd'.ackno = snd.ackno
      /\ snd'.rtt = 0 /\ snd'.stamp = snd.stamp
  BY <1>1, Bounds DEF PeerInv, SenderInv
<1>3. 0 \in 0 .. IntMod - 1
  BY Bounds
<1>4. SenderInv'
  BY <1>1, <1>2, <1>3 DEF PeerInv, SenderInv
<1>5. ReceiverInv' /\ RowInv'
  BY <1>1 DEF PeerInv, ReceiverInv, RowInv, RttOfTheAck
<1>6. LeftInv' /\ SentInv'
  BY <1>1, <1>2 DEF PeerInv, LeftInv, SentInv, Clock
<1>7. answered \in 0 .. NextAckNo' - 1
  BY <1>1, <1>2 DEF PeerInv, SharedInv, NextAckNo
<1>8. SharedInv'
  BY <1>1, <1>7 DEF PeerInv, SharedInv
<1>9. QED
  BY <1>4, <1>5, <1>6, <1>8 DEF PeerInv

LEMMA StampAckKeepsInv == PeerInv /\ StampAck => PeerInv'
<1> SUFFICES ASSUME PeerInv, StampAck PROVE PeerInv'
  OBVIOUS
<1>1. /\ UNCHANGED <<now, rcv, window, rtt, rtt_var, tsbpd, row, answered, former, left, sent>>
      /\ snd' = [snd EXCEPT !.pc = "store", !.stamp = Clock]
      /\ snd.pc = "sent"
  BY DEF StampAck, path
<1>2. /\ snd.ackno \in 1 .. MaxAckNo
      /\ snd'.pc = "store" /\ snd'.ackno = snd.ackno
      /\ snd'.rtt = snd.rtt /\ snd'.stamp = Clock
  BY <1>1, Bounds DEF PeerInv, SenderInv
<1>3. Clock \in ClockReadings
  BY DEF PeerInv, LeftInv, Clock, ClockReadings
<1>4. SenderInv'
  <2>1. snd.ackno \in DOMAIN left /\ left[snd.ackno] <= Clock
    BY <1>1 DEF PeerInv, SenderInv, LeftInv
  <2>2. QED
    BY <1>1, <1>2, <1>3, <2>1 DEF PeerInv, SenderInv, Readings
<1>5. ReceiverInv' /\ RowInv'
  BY <1>1 DEF PeerInv, ReceiverInv, RowInv, RttOfTheAck
<1>6. LeftInv' /\ SentInv'
  BY <1>1, <1>2 DEF PeerInv, LeftInv, SentInv, Clock
<1>7. NextAckNo' = NextAckNo
  BY <1>1, <1>2 DEF NextAckNo
<1>8. SharedInv'
  BY <1>1, <1>7 DEF PeerInv, SharedInv
<1>9. QED
  BY <1>4, <1>5, <1>6, <1>8 DEF PeerInv

LEMMA StoreAckKeepsInv == PeerInv /\ StoreAck => PeerInv'
<1> SUFFICES ASSUME PeerInv, StoreAck PROVE PeerInv'
  OBVIOUS
<1>1. /\ UNCHANGED <<now, rcv, rtt, rtt_var, tsbpd, row, former, left, answered>>
      /\ window' = Store(window, snd.ackno, snd.stamp)
      /\ snd' = [snd EXCEPT !.pc = "sleep", !.stamp = 0]
      /\ snd.pc = "store"
  BY DEF StoreAck
<1>2. PICK n, t : n = snd.ackno /\ t = snd.stamp
  OBVIOUS
<1>3. /\ n \in 1 .. MaxAckNo /\ n \in Int
      /\ t \in ClockReadings /\ t \in Readings
      /\ n \in DOMAIN left /\ left[n] <= t
      /\ n \notin DOMAIN sent
      /\ snd'.pc = "sleep" /\ snd'.ackno = n
      /\ snd'.rtt = snd.rtt /\ snd'.stamp = 0
  BY <1>1, <1>2, Bounds DEF PeerInv, SenderInv, SentInv, Readings
<1>4. /\ window' = Store(window, n, t)
      /\ DOMAIN sent' = DOMAIN sent \cup {n}
      /\ sent'[n] = t
      /\ \A m \in DOMAIN sent : sent'[m] = sent[m]
  <2>1. sent' = Extend(sent, n, t)
    BY <1>2 DEF StoreAck
  <2>2. QED
    BY <1>1, <1>2, <1>3, <2>1 DEF Extend
<1>5. /\ window \in WindowType(Readings)
      /\ answered \in Int /\ answered < n
      /\ DOMAIN sent \subseteq Int
      /\ FreshRecords(window, sent, answered)
      /\ HoldsNewer(window, sent, answered)
  BY <1>1, <1>2, <1>3 DEF PeerInv, SharedInv, NextAckNo, SentInv, LeftInv
<1>6. \A m \in DOMAIN sent : m < n
  BY <1>2, <1>3 DEF PeerInv, SentInv, LeftInv
<1>7. window' \in WindowType(Readings) /\ FreshRecords(window', sent', answered)
  <2>1. n \in Int /\ t \in Readings
    BY <1>3
  <2>2. /\ window \in WindowType(Readings)
        /\ answered \in Int /\ answered < n
        /\ DOMAIN sent \subseteq Int
        /\ FreshRecords(window, sent, answered)
    BY <1>5
  <2>3. QED
    BY <1>4, <1>6, <2>1, <2>2, StoreKeepsFresh
<1>8. HoldsNewer(window', sent', answered)
  <2>1. n \in Int /\ t \in Readings
    BY <1>3
  <2>2. /\ window \in WindowType(Readings)
        /\ answered \in Int /\ answered < n
        /\ DOMAIN sent \subseteq Int
        /\ FreshRecords(window, sent, answered)
        /\ HoldsNewer(window, sent, answered)
    BY <1>5
  <2>3. QED
    BY <1>4, <1>6, <2>1, <2>2, StoreKeepsNewer
<1>9. SenderInv'
  <2>1. 0 \in Readings
    BY DEF Readings
  <2>2. QED
    BY <1>1, <1>3, <2>1 DEF PeerInv, SenderInv
<1>10. ReceiverInv' /\ RowInv'
  BY <1>1, <1>4 DEF PeerInv, ReceiverInv, RowInv, RttOfTheAck
<1>11. LeftInv'
  BY <1>1, <1>2, <1>3 DEF PeerInv, LeftInv, Clock
<1>12. SentInv'
  BY <1>1, <1>3, <1>4 DEF PeerInv, SentInv
<1>13. answered' \in 0 .. NextAckNo' - 1 /\ answered' = answered
  <2>1. answered \in 0 .. n - 1
    BY <1>1, <1>2 DEF PeerInv, SharedInv, NextAckNo
  <2>2. NextAckNo' = n + 1
    BY <1>3 DEF NextAckNo
  <2>3. QED
    BY <1>1, <1>3, <2>1, <2>2
<1>14. SharedInv'
  BY <1>1, <1>7, <1>8, <1>13 DEF PeerInv, SharedInv
<1>15. QED
  BY <1>9, <1>10, <1>11, <1>12, <1>14 DEF PeerInv

LEMMA ReceiveAckAckKeepsInv ==
  ASSUME PeerInv, NEW n \in 1 .. MaxAckNo, NEW ts \in 0 .. MaxTime, ReceiveAckAck(n, ts)
  PROVE  PeerInv'
<1>1. /\ UNCHANGED <<now, snd, window, rtt, rtt_var, tsbpd, row, answered, former, left, sent>>
      /\ rcv' = [rcv EXCEPT !.pc = "received", !.ackack = [ackno |-> n, ts |-> ts]]
      /\ n >= 1
  BY Bounds DEF ReceiveAckAck, path
<1>2. n \in 0 .. MaxAckNo
  BY Bounds
<1>3. ReceiverInv'
  BY <1>1, <1>2 DEF PeerInv, ReceiverInv
<1>4. SenderInv' /\ RowInv'
  BY <1>1 DEF PeerInv, SenderInv, RowInv, RttOfTheAck
<1>5. LeftInv' /\ SentInv'
  BY <1>1 DEF PeerInv, LeftInv, SentInv, Clock
<1>6. SharedInv'
  BY <1>1 DEF PeerInv, SharedInv, NextAckNo
<1>7. QED
  BY <1>3, <1>4, <1>5, <1>6 DEF PeerInv

LEMMA StampAckAckKeepsInv == PeerInv /\ StampAckAck => PeerInv'
<1> SUFFICES ASSUME PeerInv, StampAckAck PROVE PeerInv'
  OBVIOUS
<1>1. /\ UNCHANGED <<now, snd, window, rtt, rtt_var, tsbpd, row, answered, former, left, sent>>
      /\ rcv' = [rcv EXCEPT !.pc = "handle", !.stamp = Clock]
      /\ rcv.pc = "received"
  BY DEF StampAckAck, path
<1>2. Clock \in ClockReadings
  BY DEF PeerInv, LeftInv, Clock, ClockReadings
<1>3. ReceiverInv'
  BY <1>1, <1>2 DEF PeerInv, ReceiverInv, Readings
<1>4. SenderInv' /\ RowInv'
  BY <1>1 DEF PeerInv, SenderInv, RowInv, RttOfTheAck
<1>5. LeftInv' /\ SentInv'
  BY <1>1 DEF PeerInv, LeftInv, SentInv, Clock
<1>6. SharedInv'
  BY <1>1 DEF PeerInv, SharedInv, NextAckNo
<1>7. QED
  BY <1>3, <1>4, <1>5, <1>6 DEF PeerInv

LEMMA HandleAckAckKeepsInv == PeerInv /\ HandleAckAck => PeerInv'
<1> SUFFICES ASSUME PeerInv, HandleAckAck PROVE PeerInv'
  OBVIOUS
<1>1. PICK n, t, sample : /\ n = rcv.ackack.ackno
                          /\ t = rcv.stamp
                          /\ sample = MeasuredRtt(window, n, t)
  OBVIOUS
<1>2. /\ UNCHANGED <<now, snd, former, left, sent>>
      /\ rcv.pc = "handle" /\ rcv' = Idle
      /\ window' = AfterAcknowledge(window, n)
      /\ rtt' = NextRtt(rtt, sample)
      /\ rtt_var' = NextRttVar(rtt, rtt_var, sample)
      /\ answered' = IF Found(window, n) THEN n ELSE answered
  BY <1>1 DEF HandleAckAck
<1>3. /\ row'.ackno = n /\ row'.recvtime = t /\ row'.rtt = sample
      /\ row'.found = Found(window, n)
  BY <1>1, Zenon DEF HandleAckAck
<1>4. /\ n \in Int /\ t \in Int /\ t \in ClockReadings
  BY <1>1, <1>2, Bounds, ReadingsAreClock DEF PeerInv, ReceiverInv, Readings
<1>5. /\ window \in WindowType(Readings)
      /\ answered \in Int
      /\ DOMAIN sent \subseteq Int
      /\ FreshRecords(window, sent, answered)
      /\ HoldsNewer(window, sent, answered)
  BY DEF PeerInv, SharedInv, SentInv, LeftInv, NextAckNo
<1>6. ReceiverInv'
  BY <1>2, Bounds DEF ReceiverInv, Idle, NoAckAck, Readings
<1>7. SenderInv' /\ LeftInv' /\ SentInv'
  BY <1>2 DEF PeerInv, SenderInv, LeftInv, SentInv, Clock
<1>8. NextAckNo' = NextAckNo
  BY <1>2 DEF NextAckNo
<1>9. CASE ~ Found(window, n)
  <2>1. /\ window' = window /\ answered' = answered /\ sample = NotFound
        /\ row'.found = FALSE
    BY <1>1, <1>2, <1>3, <1>9 DEF AfterAcknowledge, MeasuredRtt
  <2>2. rtt' \in Int /\ rtt_var' \in Int
    BY <1>2, <2>1, EstimatesAreInts DEF PeerInv, SharedInv, NotFound
  <2>3. SharedInv'
    BY <1>2, <1>8, <2>1, <2>2 DEF PeerInv, SharedInv
  <2>4. RowInv'
    BY <2>1 DEF RowInv, RttOfTheAck
  <2>5. QED
    BY <1>6, <1>7, <2>3, <2>4 DEF PeerInv
<1>10. CASE Found(window, n)
  <2>1. /\ window' \in WindowType(Readings)
        /\ FreshRecords(window', sent, n)
        /\ n \in DOMAIN sent
        /\ window.records_[FirstHit(window, n) % SIZE].sendtime = sent[n]
    <3>1. n \in Int /\ window' = AfterAcknowledge(window, n)
      BY <1>2, <1>4
    <3>2. /\ window \in WindowType(Readings)
          /\ answered \in Int
          /\ DOMAIN sent \subseteq Int
          /\ FreshRecords(window, sent, answered)
      BY <1>5
    <3>3. QED
      BY <1>10, <3>1, <3>2, AnswerKeepsFresh, SMTT(60)
  <2>2. HoldsNewer(window', sent, n)
    BY <1>2, <1>4, <1>5, <1>10, AnswerKeepsNewer
  <2>3. sample = t - sent[n]
    BY <1>1, <1>10, <2>1 DEF MeasuredRtt
  <2>4. /\ n \in DOMAIN left
        /\ sent[n] \in Int /\ left[n] \in Int /\ left[n] <= sent[n]
    BY <2>1, ReadingsAreClock DEF PeerInv, SentInv, LeftInv, Readings
  <2>5. sample \in Int /\ sample <= t - left[n]
    BY <1>4, <2>3, <2>4
  <2>6. rtt' \in Int /\ rtt_var' \in Int
    BY <1>2, <2>5, EstimatesAreInts DEF PeerInv, SharedInv
  <2>7. answered' = n /\ row'.found = TRUE
    BY <1>2, <1>3, <1>10
  <2>8. n \in 0 .. NextAckNo - 1
    <3>1. DOMAIN sent \subseteq 1 .. snd.ackno /\ snd.ackno \in Int
      BY DEF PeerInv, SentInv, LeftInv, SenderInv
    <3>2. snd.pc # "sleep" => n # snd.ackno
      BY <2>1 DEF PeerInv, SentInv
    <3>3. QED
      BY <2>1, <3>1, <3>2 DEF NextAckNo
  <2>9. SharedInv'
    BY <1>2, <1>8, <2>1, <2>2, <2>6, <2>7, <2>8 DEF SharedInv
  <2>10. RowInv'
    BY <1>2, <1>3, <2>1, <2>3, <2>4, <2>5, <2>7 DEF RowInv, RttOfTheAck
  <2>11. QED
    BY <1>6, <1>7, <2>9, <2>10 DEF PeerInv
<1>11. QED
  BY <1>9, <1>10

LEMMA NextKeepsPeerInv == PeerInv /\ [Next]_vars => PeerInv'
<1> SUFFICES ASSUME PeerInv, [Next]_vars PROVE PeerInv'
  OBVIOUS
<1>1. ASSUME Sender PROVE PeerInv'
  BY <1>1, BuildAckKeepsInv, SendAckKeepsInv, SendShortKeepsInv, StampAckKeepsInv,
     StoreAckKeepsInv DEF Sender
<1>2. ASSUME Receiver PROVE PeerInv'
  BY <1>2, ReceiveAckAckKeepsInv, StampAckAckKeepsInv, HandleAckAckKeepsInv DEF Receiver
<1>3. CASE UNCHANGED vars
  <2>1. UNCHANGED <<now, snd, rcv, window, rtt, rtt_var, tsbpd, row, answered, former, left, sent>>
    BY <1>3 DEF vars, path
  <2>2. QED
    BY <2>1 DEF PeerInv, SenderInv, ReceiverInv, LeftInv, SentInv, SharedInv, RowInv,
                RttOfTheAck, NextAckNo, Clock
<1>4. QED
  BY <1>1, <1>2, <1>3, TickKeepsInv, RestartKeepsInv DEF Next

\* Type correctness of both threads and of g_path, for every SIZE and clock
\* (app/start.cpp:58-125, app/path.hpp).
THEOREM PeerTypeCorrect == Spec => []TypeOK
<1>1. PeerInv => TypeOK
  <2> SUFFICES ASSUME PeerInv PROVE TypeOK
    OBVIOUS
  <2>1. /\ now \in 0 .. MaxTime
        /\ window \in WindowType(ClockReadings \cup {0})
        /\ rtt \in Int /\ rtt_var \in Int
        /\ row.found \in BOOLEAN
        /\ former \subseteq 1 .. MaxAckNo
    BY DEF PeerInv, LeftInv, SharedInv, RowInv, Readings
  <2>2. /\ snd.pc \in {"sleep", "send", "sent", "store"}
        /\ snd.ackno \in 0 .. MaxAckNo
        /\ snd.rtt \in 0 .. IntMod - 1
        /\ snd.stamp \in ClockReadings \cup {0}
    BY DEF PeerInv, SenderInv, Readings
  <2>3. /\ rcv.pc \in {"wait", "received", "handle"}
        /\ rcv.ackack \in [ackno : 0 .. MaxAckNo, ts : 0 .. MaxTime]
        /\ rcv.stamp \in ClockReadings \cup {0}
    BY DEF PeerInv, ReceiverInv, Readings
  <2>4. QED
    BY <2>1, <2>2, <2>3 DEF TypeOK
<1>2. QED
  BY <1>1, InitPeerInv, NextKeepsPeerInv, PTL DEF Spec

\* Although the sender reads its clock and stores the record in steps of their
\* own, and ACKACKs come late, twice or not at all, a round trip measured is
\* that of the very ACK: never longer than the time since it left, and shorter by
\* what passed until the sender read its clock (app/start.cpp:75-85,107-125).
THEOREM RttIsOfTheAck == Spec => []RttOfTheAck
<1>1. PeerInv => RttOfTheAck
  BY DEF PeerInv, RowInv
<1>2. QED
  BY <1>1, InitPeerInv, NextKeepsPeerInv, PTL DEF Spec

-----------------------------------------------------------------------------
(* Why a look-up fails.                                                    *)

LEMMA MissHasReason ==
  ASSUME PeerInv, HandleAckAck, ~ row'.found
  PROVE  \/ row'.ackno <= answered
         \/ row'.ackno \notin DOMAIN sent
         \/ Cardinality({m \in DOMAIN sent : m > row'.ackno}) >= SIZE - 1
<1>1. PICK n : n = rcv.ackack.ackno
  OBVIOUS
<1>2. row'.ackno = n /\ row'.found = Found(window, n)
  BY <1>1, Zenon DEF HandleAckAck
<1>3. ~ Found(window, n)
  BY <1>2
<1>4. /\ window \in WindowType(Readings)
      /\ answered \in Int
      /\ DOMAIN sent \subseteq Int
      /\ FreshRecords(window, sent, answered)
      /\ HoldsNewer(window, sent, answered)
  BY DEF PeerInv, SharedInv, SentInv, LeftInv, NextAckNo
<1>5. IsFiniteSet(DOMAIN sent)
  <2>1. DOMAIN sent \subseteq 1 .. MaxAckNo /\ 1 \in Int /\ MaxAckNo \in Int
    BY Bounds DEF PeerInv, SentInv, LeftInv, SenderInv
  <2>2. IsFiniteSet(1 .. MaxAckNo)
    BY <2>1, FS_Interval
  <2>3. QED
    BY <2>1, <2>2, FS_Subset
<1>6. ~ (\E k \in 0 .. Count(window) - 1 : At(window, k).ackno = n)
  <2> SUFFICES ASSUME NEW k \in 0 .. Count(window) - 1, At(window, k).ackno = n
               PROVE  FALSE
    OBVIOUS
  <2>1. /\ Scan(window) = window.oldest_idx .. window.oldest_idx + Count(window) - 1
        /\ window.oldest_idx \in Int /\ Count(window) \in Int
    BY <1>4, ScanIsInterval, ScanEnd
  <2>2. window.oldest_idx + k \in Scan(window)
    BY <2>1
  <2>3. window.oldest_idx + k \in Hits(window, n)
    BY <2>2 DEF Hits, At, RecordAt
  <2>4. QED
    BY <1>3, <2>3 DEF Found
<1>7. ASSUME n \in DOMAIN sent, n > answered
      PROVE  Cardinality({m \in DOMAIN sent : m > n}) >= SIZE - 1
  <2>1. ~ (Cardinality({m \in DOMAIN sent : m > n}) < SIZE - 1)
    BY <1>4, <1>5, <1>6, <1>7, HeldIsNewest
  <2>2. /\ IsFiniteSet({m \in DOMAIN sent : m > n})
        /\ {m \in DOMAIN sent : m > n} \subseteq DOMAIN sent
    BY <1>5, FS_Subset
  <2>3. Cardinality({m \in DOMAIN sent : m > n}) \in Nat
    BY <2>2, FS_CardinalityType
  <2>4. QED
    BY <2>1, <2>3, SizeType
<1>8. n \in DOMAIN sent => n \in Int
  BY <1>4
<1>9. CASE n \in DOMAIN sent /\ n > answered
  BY <1>2, <1>7, <1>9
<1>10. CASE ~ (n \in DOMAIN sent /\ n > answered)
  BY <1>2, <1>4, <1>8, <1>10
<1>11. QED
  BY <1>9, <1>10

\* No interleaving makes g_path lose a record: a look-up fails only for an ACK
\* that is answered, not stored (yet), or pushed out (app/ack_window.hpp:67-77,
\* called under the lock of app/start.cpp:75-81,114).
THEOREM MissesExplained == Spec => MissExplained
<1>1. PeerInv /\ [Next]_vars =>
        [HandleAckAck /\ ~ row'.found =>
           \/ row'.ackno <= answered
           \/ row'.ackno \notin DOMAIN sent
           \/ Cardinality({m \in DOMAIN sent : m > row'.ackno}) >= SIZE - 1]_vars
  BY MissHasReason
<1>2. QED
  BY <1>1, InitPeerInv, NextKeepsPeerInv, PTL DEF Spec, MissExplained

-----------------------------------------------------------------------------
(* The two threads implement AckWindow.                                    *)

\* The operators of the instance are those of this module.
LEMMA SameOperators ==
  /\ Window!EmptyWindow = EmptyWindow
  /\ \A w, n, t : Window!Store(w, n, t) = Store(w, n, t)
  /\ \A w, n : Window!Found(w, n) = Found(w, n)
  /\ \A w, n : Window!AfterAcknowledge(w, n) = AfterAcknowledge(w, n)
  /\ \A w, n, t : Window!MeasuredRtt(w, n, t) = MeasuredRtt(w, n, t)
<1>1. Window!EmptyWindow = EmptyWindow
  BY Zenon DEF Window!EmptyWindow, EmptyWindow, Window!Slots, Slots,
               Window!SRT_SEQNO_NONE, SRT_SEQNO_NONE
<1>2. ASSUME NEW w, NEW n, NEW t PROVE Window!Store(w, n, t) = Store(w, n, t)
  BY Zenon DEF Window!Store, Store
<1>3. ASSUME NEW w, NEW n PROVE Window!Hits(w, n) = Hits(w, n)
  BY Zenon DEF Window!Hits, Hits, Window!Scan, Scan, Window!Wrapped, Wrapped
<1>4. ASSUME NEW w, NEW n PROVE Window!Found(w, n) = Found(w, n)
  BY <1>3, Zenon DEF Window!Found, Found
<1>5. ASSUME NEW w, NEW n PROVE Window!FirstHit(w, n) = FirstHit(w, n)
  BY <1>3, Zenon DEF Window!FirstHit, FirstHit
<1>6. ASSUME NEW w, NEW i PROVE Window!ForgetUpTo(w, i) = ForgetUpTo(w, i)
  BY Zenon DEF Window!ForgetUpTo, ForgetUpTo, Window!EmptiesWindow, EmptiesWindow,
               Window!Wrapped, Wrapped, Window!SRT_SEQNO_NONE, SRT_SEQNO_NONE
<1>7. ASSUME NEW w, NEW n
      PROVE  Window!AfterAcknowledge(w, n) = AfterAcknowledge(w, n)
  BY <1>4, <1>5, <1>6, Zenon DEF Window!AfterAcknowledge, AfterAcknowledge
<1>8. ASSUME NEW w, NEW n, NEW t PROVE Window!MeasuredRtt(w, n, t) = MeasuredRtt(w, n, t)
  BY <1>4, <1>5, Zenon DEF Window!MeasuredRtt, MeasuredRtt, Window!NotFound, NotFound
<1>9. QED
  BY <1>1, <1>2, <1>4, <1>7, <1>8

LEMMA InitIsWindowInit == Init => Window!Init
<1> SUFFICES ASSUME Init PROVE Window!Init
  OBVIOUS
<1>1. window = Window!EmptyWindow
  BY SameOperators DEF Init
<1>2. NextAckNo = 1 /\ row.rtt = Window!NotFound
  BY DEF Init, NextAckNo, NoRow, NotFound, Window!NotFound
<1>3. sent = [n \in {} |-> 0] /\ answered = 0
  BY DEF Init
<1>4. QED
  BY <1>1, <1>2, <1>3 DEF Window!Init

LEMMA StoreAckIsStoreRecord ==
  ASSUME PeerInv, StoreAck
  PROVE  \E t \in ClockReadings \cup {0} : Window!StoreRecord(t)
<1>1. PICK n, t : n = snd.ackno /\ t = snd.stamp
  OBVIOUS
<1>2. NextAckNo = n /\ n \in 0 .. MaxAckNo /\ t \in ClockReadings \cup {0}
  BY <1>1 DEF StoreAck, PeerInv, SenderInv, NextAckNo, Readings
<1>3. NextAckNo' = n + 1
  BY <1>1 DEF StoreAck, PeerInv, SenderInv, NextAckNo
<1>4. window' = Window!Store(window, n, t)
  BY <1>1, SameOperators DEF StoreAck
<1>5. sent' = [m \in DOMAIN sent \cup {n} |-> IF m = n THEN t ELSE sent[m]]
  BY <1>1 DEF StoreAck, Extend
<1>6. row' = row /\ answered' = answered
  BY DEF StoreAck
<1>7. n <= MaxAckNo
  BY <1>2, Bounds
<1>8. Window!StoreRecord(t)
  BY <1>2, <1>3, <1>4, <1>5, <1>6, <1>7 DEF Window!StoreRecord
<1>9. QED
  BY <1>2, <1>8

LEMMA SendShortIsSkipNumber == PeerInv /\ SendShort => Window!SkipNumber
<1> SUFFICES ASSUME PeerInv, SendShort PROVE Window!SkipNumber
  OBVIOUS
<1>1. /\ NextAckNo = snd.ackno /\ NextAckNo' = snd.ackno + 1
      /\ snd.ackno \in 0 .. MaxAckNo
  BY DEF SendShort, PeerInv, SenderInv, NextAckNo
<1>2. snd.ackno <= MaxAckNo
  BY <1>1, Bounds
<1>3. UNCHANGED <<window, row, sent, answered>>
  BY DEF SendShort, path
<1>4. QED
  BY <1>1, <1>2, <1>3 DEF Window!SkipNumber

LEMMA HandleAckAckIsLookUp ==
  ASSUME PeerInv, HandleAckAck
  PROVE  \E n \in 1 .. MaxAckNo, t \in ClockReadings \cup {0} : Window!LookUp(n, t)
<1>1. PICK n, t : n = rcv.ackack.ackno /\ t = rcv.stamp
  OBVIOUS
<1>2. n \in 0 .. MaxAckNo /\ n >= 1 /\ t \in ClockReadings \cup {0}
  BY <1>1 DEF HandleAckAck, PeerInv, ReceiverInv, Readings
<1>3. n \in 1 .. MaxAckNo
  BY <1>2, Bounds
<1>4. row'.rtt = Window!MeasuredRtt(window, n, t)
  <2>1. row'.rtt = MeasuredRtt(window, n, t)
    BY <1>1, Zenon DEF HandleAckAck
  <2>2. QED
    BY <2>1, SameOperators, Zenon
<1>5. window' = Window!AfterAcknowledge(window, n)
  <2>1. window' = AfterAcknowledge(window, n)
    BY <1>1, Zenon DEF HandleAckAck
  <2>2. QED
    BY <2>1, SameOperators, Zenon
<1>6. answered' = IF Window!Found(window, n) THEN n ELSE answered
  <2>1. answered' = IF Found(window, n) THEN n ELSE answered
    BY <1>1, Zenon DEF HandleAckAck
  <2>2. Window!Found(window, n) = Found(window, n)
    BY SameOperators, Zenon
  <2>3. QED
    BY <2>1, <2>2, Zenon
<1>7. NextAckNo' = NextAckNo /\ sent' = sent
  BY DEF HandleAckAck, NextAckNo
<1>8. Window!LookUp(n, t)
  BY <1>4, <1>5, <1>6, <1>7 DEF Window!LookUp
<1>9. QED
  BY <1>2, <1>3, <1>8

LEMMA RestartIsWindowRestart == Restart => Window!Restart
<1> SUFFICES ASSUME Restart PROVE Window!Restart
  OBVIOUS
<1>1. window' = Window!EmptyWindow
  BY SameOperators DEF Restart
<1>2. NextAckNo' = 1 /\ row'.rtt = Window!NotFound
  BY DEF Restart, NextAckNo, NoRow, NotFound, Window!NotFound
<1>3. sent' = [n \in {} |-> 0] /\ answered' = 0
  BY DEF Restart
<1>4. QED
  BY <1>1, <1>2, <1>3 DEF Window!Restart

LEMMA StepIsWindowStep == PeerInv /\ [Next]_vars => [Window!Next]_(Window!vars)
<1> SUFFICES ASSUME PeerInv, [Next]_vars PROVE [Window!Next]_(Window!vars)
  OBVIOUS
<1>1. CASE BuildAck
  <2>1. NextAckNo' = NextAckNo
    BY <1>1 DEF BuildAck, PeerInv, SenderInv, NextAckNo
  <2>2. QED
    BY <1>1, <2>1 DEF BuildAck, path, Window!vars
<1>2. CASE SendAck
  <2>1. NextAckNo' = NextAckNo
    BY <1>2 DEF SendAck, PeerInv, SenderInv, NextAckNo
  <2>2. QED
    BY <1>2, <2>1 DEF SendAck, path, Window!vars
<1>3. CASE StampAck
  <2>1. NextAckNo' = NextAckNo
    BY <1>3 DEF StampAck, PeerInv, SenderInv, NextAckNo
  <2>2. QED
    BY <1>3, <2>1 DEF StampAck, path, Window!vars
<1>4. CASE SendShort
  BY <1>4, SendShortIsSkipNumber DEF Window!Next
<1>5. CASE StoreAck
  BY <1>5, StoreAckIsStoreRecord DEF Window!Next
<1>6. ASSUME NEW n, NEW ts, ReceiveAckAck(n, ts)
      PROVE  UNCHANGED Window!vars
  BY <1>6 DEF ReceiveAckAck, path, NextAckNo, Window!vars
<1>7. CASE StampAckAck \/ Tick \/ UNCHANGED vars
  BY <1>7 DEF StampAckAck, Tick, vars, path, NextAckNo, Window!vars
<1>8. CASE HandleAckAck
  BY <1>8, HandleAckAckIsLookUp DEF Window!Next
<1>9. CASE Restart
  BY <1>9, RestartIsWindowRestart DEF Window!Next
<1>10. QED
  BY <1>1, <1>2, <1>3, <1>4, <1>5, <1>6, <1>7, <1>8, <1>9 DEF Next, Sender, Receiver

\* The lock of g_path covers what it has to, for every SIZE: however the two
\* threads interleave, the shared window makes steps of AckWindow only, so all
\* that is proved of AckWindow holds for it (app/start.cpp:75-81,93,114).
THEOREM PeerImplementsWindow == Spec => ImplementsWindow
<1>1. Init => Window!Init
  BY InitIsWindowInit
<1>2. PeerInv /\ [Next]_vars => [Window!Next]_(Window!vars)
  BY StepIsWindowStep
<1>3. QED
  BY <1>1, <1>2, InitPeerInv, NextKeepsPeerInv, PTL
     DEF Spec, ImplementsWindow, Window!Spec

=============================================================================
