------------------------------ MODULE AckWindow ------------------------------
(***************************************************************************)
(* path_metrics::ack_records as a state machine: the calls that            *)
(* ack_sending_loop and on_ctrl_ackack of app/start.cpp make on it, each   *)
(* one under g_path_mut, in any order.  An ACKACK can have any number: the *)
(* network delays and repeats them, and the socket of a process that was   *)
(* started again gets those of its former runs.                            *)
(*                                                                         *)
(* Bounds: MaxAckNo caps the ACK numbers (the code counts to 2^32), Times  *)
(* is a set of clock readings.  The system clock may be set back between   *)
(* two calls, so the readings are not ordered.                             *)
(***************************************************************************)
EXTENDS AckWindowOps, FiniteSets

CONSTANTS MaxAckNo, Times

ASSUME BoundsAssumption == /\ MaxAckNo \in Nat
                           /\ Times \subseteq Int
                           /\ 0 \in Times

VARIABLES window,   \* ack_records
          ackno,    \* the number ack_sending_loop gives to its next ACK
          rtt,      \* what the latest acknowledge() returned
          sent,     \* history: send time of every number ever stored
          answered  \* history: the highest number acknowledge() has found

vars == <<window, ackno, rtt, sent, answered>>

Init == /\ window = EmptyWindow
        /\ ackno = 1
        /\ rtt = NotFound
        /\ sent = [n \in {} |-> 0]
        /\ answered = 0

\* The sender stores the ACK it has just sent.
StoreRecord(t) ==
  /\ ackno <= MaxAckNo
  /\ window' = Store(window, ackno, t)
  /\ ackno' = ackno + 1
  /\ sent' = [n \in DOMAIN sent \cup {ackno} |-> IF n = ackno THEN t ELSE sent[n]]
  /\ UNCHANGED <<rtt, answered>>

\* A send that did not take the whole packet: the number is used up, and no
\* record is stored for it.
SkipNumber ==
  /\ ackno <= MaxAckNo
  /\ ackno' = ackno + 1
  /\ UNCHANGED <<window, rtt, sent, answered>>

\* The receiver looks up the number of an ACKACK: of an ACK that was answered, of
\* one whose record is not stored yet, of a former run.
LookUp(n, t) ==
  /\ rtt' = MeasuredRtt(window, n, t)
  /\ window' = AfterAcknowledge(window, n)
  /\ answered' = IF Found(window, n) THEN n ELSE answered
  /\ UNCHANGED <<ackno, sent>>

\* The process starts again: the numbers begin anew.
Restart ==
  /\ window' = EmptyWindow
  /\ ackno' = 1
  /\ rtt' = NotFound
  /\ sent' = [n \in {} |-> 0]
  /\ answered' = 0

Next == \/ \E t \in Times : StoreRecord(t)
        \/ SkipNumber
        \/ Restart
        \/ \E n \in 1 .. MaxAckNo, t \in Times : LookUp(n, t)

Spec == Init /\ [][Next]_vars

-----------------------------------------------------------------------------
\* Every variable stays in its type; the indices stay inside the array.
TypeOK ==
  /\ window \in WindowType(Times)
  /\ ackno \in 1 .. MaxAckNo + 1
  /\ rtt \in Int
  /\ DOMAIN sent \subseteq 1 .. ackno - 1
  /\ \A n \in DOMAIN sent : sent[n] \in Times
  /\ answered \in 0 .. ackno - 1

\* The records a scan sees ascend strictly, are newer than every number that
\* was already answered and carry the send time of their own number.  So a
\* duplicated or late ACKACK can not be measured a second time, and reuse of a
\* slot never pairs an ACKACK with the send time of another ACK (store() and
\* acknowledge() of app/ack_window.hpp).
LiveRecordsFresh ==
  \A i \in Scan(window) :
     LET r == RecordAt(window, i)
     IN  /\ r.ackno \in DOMAIN sent
         /\ r.ackno > answered
         /\ r.sendtime = sent[r.ackno]
         /\ \A j \in Scan(window) : i < j => r.ackno < RecordAt(window, j).ackno

\* Nothing is lost early: the window holds exactly the SIZE - 1 newest numbers
\* stored, less those an answer has made obsolete ("overwrite the oldest ACK",
\* app/ack_window.hpp:74).
HoldsTheNewest ==
  {RecordAt(window, i).ackno : i \in Scan(window)} =
     {n \in DOMAIN sent : /\ n > answered
                          /\ Cardinality({m \in DOMAIN sent : m > n}) < SIZE - 1}

-----------------------------------------------------------------------------
(* The ring implements the queue of AckQueue.                              *)

PendingOf(w) == [k \in 1 .. Count(w) |-> RecordAt(w, w.oldest_idx + k - 1)]

Queue == INSTANCE AckQueue WITH Capacity <- SIZE - 1,
                                AckNos   <- 1 .. MaxAckNo + 1,
                                pending  <- PendingOf(window)

\* Every call on the ring is a call on the queue with the same result: wrapping,
\* overwriting, emptying and the reset to slot 0 can not be seen from outside.
ImplementsQueue == Queue!Spec

=============================================================================
