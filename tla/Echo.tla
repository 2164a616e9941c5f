-------------------------------- MODULE Echo --------------------------------
(***************************************************************************)
(* What two peers tell each other, free of bytes, buffers and the width of *)
(* integers.  A peer numbers its ACKs and announces its estimate, and the  *)
(* other one answers an ACK with its number and its two clocks.  Messages  *)
(* are never taken out of `msgs': one that nobody reads was lost, one that *)
(* is read twice was repeated.                                             *)
(*                                                                         *)
(* Times are counted from a common start; `set[p]' is how far the system   *)
(* clock of p was set since.                                               *)
(***************************************************************************)
EXTENDS Integers, TwoPeers

CONSTANTS AckNos,      \* the numbers an ACK may leave with
          Estimates,   \* what g_path may have: a smoothed rtt and its variance
          Corrections  \* how far a system clock may be off its first setting

VARIABLES now,     \* time since the start
          set,     \* correction of each system clock
          msgs,    \* every message sent
          estimate, \* what each peer has measured so far
          draft,   \* the ACK each peer makes out or made out last
          left,    \* for each peer, when the ACKs it numbered left it
          heard    \* for each peer, the last ACKACK it read

vars == <<now, set, msgs, estimate, draft, left, heard>>

Nothing == [ackno |-> 0, ts |-> 0, ts_sys |-> 0]
NoEstimate == [rtt |-> 0, var |-> 0]

\* A peer whose rtt is 0 has no estimate to announce.
Announced(est) == IF est.rtt = 0 THEN NoEstimate ELSE est

AckMsg(p, n, t, est) ==
  [kind |-> "ACK", from |-> p, ackno |-> n, ts |-> t, estimate |-> est]

AckAckMsg(p, n, t, t_sys) ==
  [kind |-> "ACKACK", from |-> p, ackno |-> n, ts |-> t, ts_sys |-> t_sys]

Init == /\ now = 0
        /\ set = [p \in Peers |-> 0]
        /\ msgs = {}
        /\ estimate = [p \in Peers |-> NoEstimate]
        /\ draft = [p \in Peers |-> AckMsg(p, 0, 0, NoEstimate)]
        /\ left = [p \in Peers |-> [n \in {} |-> 0]]
        /\ heard = [p \in Peers |-> Nothing]

Tick == /\ now' = now + 1
        /\ UNCHANGED <<set, estimate, left, heard, msgs, draft>>

SetClock(p, d) == /\ set' = [set EXCEPT ![p] = d]
                  /\ UNCHANGED <<now, estimate, left, heard, msgs, draft>>

\* The next number, the time and the estimate there is.
MakeOut(p) ==
  /\ draft' = [draft EXCEPT ![p] = AckMsg(p, @.ackno + 1, now, Announced(estimate[p]))]
  /\ UNCHANGED <<now, set, estimate, left, heard, msgs>>

Send(p) ==
  LET n == draft[p].ackno
  IN  /\ n \in AckNos /\ n \notin DOMAIN left[p]
      /\ msgs' = msgs \cup {draft[p]}
      /\ left' = [left EXCEPT ![p] = [m \in DOMAIN @ \cup {n} |-> IF m = n THEN now ELSE @[m]]]
      /\ UNCHANGED <<now, set, estimate, heard, draft>>

\* Both clocks are read when the answer goes out.
Answer(p, m) ==
  /\ m.kind = "ACK" /\ m.from # p
  /\ msgs' = msgs \cup {AckAckMsg(p, m.ackno, now, now + set[p])}
  /\ UNCHANGED <<now, set, estimate, left, heard, draft>>

\* What a peer hears moves its estimate.
Hear(p, m, est) ==
  /\ m.kind = "ACKACK" /\ m.from # p
  /\ heard' = [heard EXCEPT ![p] = [ackno |-> m.ackno, ts |-> m.ts, ts_sys |-> m.ts_sys]]
  /\ estimate' = [estimate EXCEPT ![p] = est]
  /\ UNCHANGED <<now, set, left, msgs, draft>>

Next == \/ Tick
        \/ \E p \in Peers :
             \/ \E d \in Corrections : SetClock(p, d)
             \/ MakeOut(p) \/ Send(p)
             \/ \E m \in msgs : \/ Answer(p, m)
                               \/ \E est \in Estimates : Hear(p, m, est)

Spec == Init /\ [][Next]_vars

-----------------------------------------------------------------------------
\* An ACKACK carries the number of an ACK that its reader sent, and the time it
\* carries lies between that ACK's leaving and now: what on_ctrl_ackack may
\* count on when it looks the number up (app/start.cpp:98-115).
AnswersFollowAcks ==
  \A m \in msgs : \A p \in Peers :
     m.kind = "ACKACK" /\ m.from # p =>
       /\ m.ackno \in DOMAIN left[p]
       /\ left[p][m.ackno] <= m.ts /\ m.ts <= now

=============================================================================
