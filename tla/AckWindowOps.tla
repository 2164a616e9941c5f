---------------------------- MODULE AckWindowOps ----------------------------
(***************************************************************************)
(* The class template ack_window<SIZE> of app/ack_window.hpp as a value:   *)
(* a record with the fields of the class, and one operator per method that *)
(* maps the value before a call to the value after it.  AckWindow.tla makes*)
(* a state machine of it, Peer.tla puts it into path_metrics.              *)
(*                                                                         *)
(* Abstractions.  An entry keeps two send times, one per clock, which the  *)
(* code always treats alike: here it is one `sendtime'.  `pktseqno' is     *)
(* stored and looked up but never used, and is left out.                   *)
(***************************************************************************)
EXTENDS Integers

CONSTANT SIZE   \* template parameter, 1024 in app/path.hpp

ASSUME SizeAssumption == SIZE \in Nat \ {0}

SRT_SEQNO_NONE == -1

\* What acknowledge() returns when it does not find the number.
NotFound == -1

Slots == 0 .. SIZE - 1

\* records_() zeroes the array; the constructor then marks slot 0.
EmptyWindow ==
  [ records_   |-> [i \in Slots |-> [ ackno    |-> IF i = 0 THEN SRT_SEQNO_NONE ELSE 0,
                                      sendtime |-> 0 ]],
    latest_idx |-> 0,
    oldest_idx |-> 0 ]

-----------------------------------------------------------------------------
(* store() writes at latest_idx and advances it; when that catches up with *)
(* oldest_idx the oldest record is given up.                               *)

\* Mutant: the index runs out of the array.
StoreUnwrapped(w, ackno, sendtime) ==
  [ w EXCEPT !.records_[w.latest_idx] = [ackno |-> ackno, sendtime |-> sendtime],
             !.latest_idx = @ + 1 ]

\* Mutant: the oldest record is not given up when the ring is full.
StoreKeepsOldest(w, ackno, sendtime) ==
  [ w EXCEPT !.records_[w.latest_idx] = [ackno |-> ackno, sendtime |-> sendtime],
             !.latest_idx = (@ + 1) % SIZE ]

Store(w, ackno, sendtime) ==
  LET latest == (w.latest_idx + 1) % SIZE
  IN  [ records_   |-> [w.records_ EXCEPT ![w.latest_idx] =
                           [ackno |-> ackno, sendtime |-> sendtime]],
        latest_idx |-> latest,
        oldest_idx |-> IF latest = w.oldest_idx
                       THEN (w.oldest_idx + 1) % SIZE
                       ELSE w.oldest_idx ]

-----------------------------------------------------------------------------
(* acknowledge() scans from the oldest record to the latest one.  While    *)
(* latest_idx is behind oldest_idx the loop variable runs past SIZE and the*)
(* slot is its remainder.                                                  *)

Wrapped(w) == w.latest_idx < w.oldest_idx

Scan(w) ==
  IF Wrapped(w) THEN w.oldest_idx .. w.latest_idx + SIZE - 1
                ELSE w.oldest_idx .. w.latest_idx - 1

\* Mutant: takes the ACK for cumulative.
HitsCumulative(w, ackno) == {i \in Scan(w) : w.records_[i % SIZE].ackno <= ackno}

Hits(w, ackno) == {i \in Scan(w) : w.records_[i % SIZE].ackno = ackno}

FirstHit(w, ackno) ==
  CHOOSE i \in Hits(w, ackno) : \A j \in Hits(w, ackno) : i <= j

\* Mutant: every hit empties the window.
EmptiesAlways(w, i) == TRUE

\* The test that makes a hit empty the window; each loop has its own.
EmptiesWindow(w, i) ==
  IF Wrapped(w) THEN i % SIZE = w.latest_idx ELSE i + 1 = w.latest_idx

\* Mutant: the record that was hit stays.
ForgetBefore(w, i) == [w EXCEPT !.oldest_idx = i % SIZE]

\* A hit at i forgets record i and every older one.
ForgetUpTo(w, i) ==
  IF EmptiesWindow(w, i)
  THEN [ w EXCEPT !.oldest_idx = 0, !.latest_idx = 0,
                  !.records_ = [@ EXCEPT ![0].ackno = SRT_SEQNO_NONE] ]
  ELSE [ w EXCEPT !.oldest_idx = (i + 1) % SIZE ]

Found(w, ackno) == Hits(w, ackno) # {}

AfterAcknowledge(w, ackno) ==
  IF Found(w, ackno) THEN ForgetUpTo(w, FirstHit(w, ackno)) ELSE w

\* Mutant: the send time of the oldest record.
MeasuredFromOldest(w, ackno, recvtime) ==
  IF Found(w, ackno) THEN recvtime - w.records_[w.oldest_idx].sendtime ELSE NotFound

MeasuredRtt(w, ackno, recvtime) ==
  IF Found(w, ackno)
  THEN recvtime - w.records_[FirstHit(w, ackno) % SIZE].sendtime
  ELSE NotFound

-----------------------------------------------------------------------------
EntryType(Time) == [ackno : Int, sendtime : Time]

WindowType(Time) ==
  [records_ : [Slots -> EntryType(Time)], latest_idx : Slots, oldest_idx : Slots]

\* How many records a scan sees, and the one it sees at i.
Count(w) == IF Wrapped(w) THEN w.latest_idx + SIZE - w.oldest_idx
                          ELSE w.latest_idx - w.oldest_idx

RecordAt(w, i) == w.records_[i % SIZE]

=============================================================================
