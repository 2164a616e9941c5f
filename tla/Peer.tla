-------------------------------- MODULE Peer --------------------------------
(***************************************************************************)
(* One process of the program with its remote known: ack_sending_loop and  *)
(* ack_reply_loop of app/start.cpp, the two threads that share g_path.     *)
(*                                                                         *)
(* The sender gives its ACK a number, puts the estimate into it, sends it, *)
(* reads the clock, and stores the number with that reading.  The receiver *)
(* takes an ACKACK off the socket, reads the clock, and runs               *)
(* on_ctrl_ackack.  g_path_mut only covers the steps that touch g_path, so *)
(* the clock and the other thread run between any two steps.  The network  *)
(* may lose, repeat, delay and reorder: the ACKACK of any ACK that has left*)
(* can arrive at any time.  The process may end and start again, on the    *)
(* port it is bound to: its globals are new, the ACKs it sent before are   *)
(* still answered, and their numbers come again.                           *)
(*                                                                         *)
(* ACKs of the remote are answered without touching this state; Session    *)
(* has them.  Bounds: MaxAckNo caps the ACK numbers, MaxTime the clock.    *)
(***************************************************************************)
EXTENDS AckWindowOps, RttOps, TsbpdOps, FiniteSets

CONSTANTS MaxAckNo, MaxTime,
          UpTime,           \* what the local clock reads when tracing starts
          CompensateRtt     \* --compensate-rtt

ASSUME PeerAssumption == /\ MaxAckNo \in Nat /\ MaxTime \in Nat
                         /\ UpTime \in Nat \ {0}
                         /\ CompensateRtt \in BOOLEAN
                         /\ MaxTime < TSBPD_WRAP_PERIOD

VARIABLES now,       \* time since the start of both peers
          snd,       \* the sending thread: pc, its ACK, its clock reading
          rcv,       \* the receiving thread: pc, the ACKACK, its clock reading
          window, rtt, rtt_var,   \* g_path
          tsbpd,     \* g_tsbpd
          row,       \* the last line of the trace
          former,    \* history: the numbers that left in former runs
          left,      \* history: when the ACK of a number left the socket
          sent,      \* history: the send time stored for a number
          answered   \* history: the highest number found by a look-up

path == <<window, rtt, rtt_var, tsbpd, row, answered>>
vars == <<now, snd, rcv, path, former, left, sent>>

Clock == UpTime + now

NoAckAck == [ackno |-> 0, ts |-> 0]
NoRow == [ackno |-> 0, recvtime |-> 0, rtt |-> NotFound, found |-> FALSE, drift |-> 0]

Idle == [pc |-> "wait", ackack |-> NoAckAck, stamp |-> 0]

Init == /\ now = 0
        /\ snd = [pc |-> "sleep", ackno |-> 0, rtt |-> 0, stamp |-> 0]
        /\ rcv = Idle
        /\ window = EmptyWindow /\ rtt = 0 /\ rtt_var = 0
        /\ tsbpd = NewTsbpd
        /\ row = NoRow
        /\ former = {}
        /\ left = [n \in {} |-> 0]
        /\ sent = [n \in {} |-> 0]
        /\ answered = 0

Tick == /\ now < MaxTime
        /\ now' = now + 1
        /\ UNCHANGED <<snd, rcv, path, former, left, sent>>

-----------------------------------------------------------------------------
(* ack_sending_loop.                                                       *)

\* Mutant: the field keeps a sign.
BuildAckSigned ==
  /\ snd.pc = "sleep" /\ snd.ackno < MaxAckNo
  /\ snd' = [snd EXCEPT !.pc = "send", !.ackno = @ + 1, !.rtt = rtt]
  /\ UNCHANGED <<now, rcv, path, former, left, sent>>

\* The estimate is read under g_path_mut; the field is an uint32_t, and stays 0
\* while there is no estimate.
BuildAck ==
  /\ snd.pc = "sleep" /\ snd.ackno < MaxAckNo
  /\ snd' = [snd EXCEPT !.pc = "send", !.ackno = @ + 1, !.rtt = rtt % IntMod]
  /\ UNCHANGED <<now, rcv, path, former, left, sent>>

Extend(f, n, t) == [m \in DOMAIN f \cup {n} |-> IF m = n THEN t ELSE f[m]]

SendAck ==
  /\ snd.pc = "send"
  /\ left' = Extend(left, snd.ackno, Clock)
  /\ snd' = [snd EXCEPT !.pc = "sent", !.rtt = 0]
  /\ UNCHANGED <<now, rcv, path, former, sent>>

\* send() reports fewer bytes than the packet has: no record is stored.
SendShort ==
  /\ snd.pc = "send"
  /\ snd' = [snd EXCEPT !.pc = "sleep", !.rtt = 0]
  /\ UNCHANGED <<now, rcv, path, former, left, sent>>

StampAck ==
  /\ snd.pc = "sent"
  /\ snd' = [snd EXCEPT !.pc = "store", !.stamp = Clock]
  /\ UNCHANGED <<now, rcv, path, former, left, sent>>

\* Mutant: stores the counter, which is one ahead of the packet by now.
StoreAckCounter ==
  /\ snd.pc = "store"
  /\ window' = Store(window, snd.ackno + 1, snd.stamp)
  /\ sent' = Extend(sent, snd.ackno, snd.stamp)
  /\ snd' = [snd EXCEPT !.pc = "sleep", !.stamp = 0]
  /\ UNCHANGED <<now, rcv, rtt, rtt_var, tsbpd, row, former, left, answered>>

StoreAck ==
  /\ snd.pc = "store"
  /\ window' = Store(window, snd.ackno, snd.stamp)
  /\ sent' = Extend(sent, snd.ackno, snd.stamp)
  /\ snd' = [snd EXCEPT !.pc = "sleep", !.stamp = 0]
  /\ UNCHANGED <<now, rcv, rtt, rtt_var, tsbpd, row, former, left, answered>>

-----------------------------------------------------------------------------
(* ack_reply_loop.                                                         *)

\* The remote answered at `ts', some time after the ACK had left.
ReceiveAckAck(n, ts) ==
  /\ rcv.pc = "wait"
  /\ \/ n \in DOMAIN left /\ left[n] <= UpTime + ts
     \/ n \in former
  /\ ts <= now
  /\ rcv' = [rcv EXCEPT !.pc = "received", !.ackack = [ackno |-> n, ts |-> ts]]
  /\ UNCHANGED <<now, snd, path, former, left, sent>>

StampAckAck ==
  /\ rcv.pc = "received"
  /\ rcv' = [rcv EXCEPT !.pc = "handle", !.stamp = Clock]
  /\ UNCHANGED <<now, snd, path, former, left, sent>>

\* on_ctrl_ackack, all of it under g_path_mut.
HandleAckAck ==
  LET n      == rcv.ackack.ackno
      sample == MeasuredRtt(window, n, rcv.stamp)
      used   == IF CompensateRtt THEN sample ELSE 0
  IN  /\ rcv.pc = "handle"
      /\ window' = AfterAcknowledge(window, n)
      /\ rtt' = NextRtt(rtt, sample)
      /\ rtt_var' = NextRttVar(rtt, rtt_var, sample)
      /\ tsbpd' = OnAckAck(tsbpd, rcv.ackack.ts, used, rcv.stamp)
      /\ row' = [ ackno    |-> n,
                  recvtime |-> rcv.stamp,
                  rtt      |-> sample,
                  found    |-> Found(window, n),
                  drift    |-> Sampled(tsbpd, rcv.ackack.ts, used, rcv.stamp) ]
      /\ answered' = IF Found(window, n) THEN n ELSE answered
      /\ rcv' = Idle
      /\ UNCHANGED <<now, snd, former, left, sent>>

-----------------------------------------------------------------------------
\* main() ends, in whatever way, and is called again.
Restart ==
  /\ snd' = [pc |-> "sleep", ackno |-> 0, rtt |-> 0, stamp |-> 0]
  /\ rcv' = Idle
  /\ window' = EmptyWindow /\ rtt' = 0 /\ rtt_var' = 0
  /\ tsbpd' = NewTsbpd
  /\ row' = NoRow
  /\ former' = former \cup DOMAIN left
  /\ left' = [n \in {} |-> 0]
  /\ sent' = [n \in {} |-> 0]
  /\ answered' = 0
  /\ UNCHANGED now

Sender == BuildAck \/ SendAck \/ SendShort \/ StampAck \/ StoreAck

Receiver == \/ \E n \in 1 .. MaxAckNo, ts \in 0 .. MaxTime : ReceiveAckAck(n, ts)
            \/ StampAckAck
            \/ HandleAckAck

Next == Tick \/ Sender \/ Receiver \/ Restart

Spec == Init /\ [][Next]_vars

-----------------------------------------------------------------------------
ClockReadings == {UpTime + t : t \in 0 .. MaxTime}

\* Every variable stays in its type; what an ACK announces fits its field.
TypeOK ==
  /\ now \in 0 .. MaxTime
  /\ snd.pc \in {"sleep", "send", "sent", "store"}
  /\ snd.ackno \in 0 .. MaxAckNo
  /\ snd.rtt \in 0 .. IntMod - 1
  /\ snd.stamp \in ClockReadings \cup {0}
  /\ rcv.pc \in {"wait", "received", "handle"}
  /\ rcv.ackack \in [ackno : 0 .. MaxAckNo, ts : 0 .. MaxTime]
  /\ rcv.stamp \in ClockReadings \cup {0}
  /\ window \in WindowType(ClockReadings \cup {0})
  /\ rtt \in Int /\ rtt_var \in Int
  /\ row.found \in BOOLEAN
  /\ former \subseteq 1 .. MaxAckNo

\* The number the window is to store next: the one in hand until it is stored
\* or given up.
NextAckNo == IF snd.pc = "sleep" THEN snd.ackno + 1 ELSE snd.ackno

Window == INSTANCE AckWindow WITH ackno <- NextAckNo,
                                  rtt   <- row.rtt,
                                  Times <- ClockReadings \cup {0}

\* However the two threads interleave, g_path.ack_records goes through the
\* steps of AckWindow and no other, and the trace has the result of each
\* look-up: the lock covers what it has to (app/start.cpp:75-81,93,114).
ImplementsWindow == Window!Spec

\* A look-up that succeeds finds the record of that very ACK, whatever was lost,
\* repeated or reordered.  The round trip is never longer than the time since
\* that ACK left the socket, and shorter by exactly what passed before the sender
\* read its clock: that, and no more, is what the order of the two costs.
RttOfTheAck ==
  row.found =>
    /\ row.ackno \in DOMAIN left /\ row.ackno \in DOMAIN sent
    /\ row.rtt <= row.recvtime - left[row.ackno]
    /\ row.rtt = row.recvtime - sent[row.ackno]

\* A look-up fails for three reasons only: the number, or a later one, was
\* answered before; its record is not stored, as the sender has not come to
\* that or its send was short; SIZE - 1 later records have pushed it out.
MissExplained ==
  [][HandleAckAck /\ ~ row'.found =>
       \/ row'.ackno <= answered
       \/ row'.ackno \notin DOMAIN sent
       \/ Cardinality({m \in DOMAIN sent : m > row'.ackno}) >= SIZE - 1]_vars

=============================================================================
