-------------------------------- MODULE Wire --------------------------------
(***************************************************************************)
(* The same two peers as they talk in app/start.cpp: through buffers of    *)
(* bytes, 32-bit fields and two clocks per host.  ack_sending_loop fills a *)
(* buffer that it uses for every ACK; ack_reply_loop reads every datagram  *)
(* into one buffer that is never cleared, and answers an ACK from a buffer *)
(* of its own.                                                             *)
(*                                                                         *)
(* `net' only grows: a datagram that is never received was lost, one that  *)
(* is received twice was repeated.  Both peers know each other's address.  *)
(* What the receiver does with the numbers is in Peer.                     *)
(*                                                                         *)
(* Bounds: LastAckNo, for each peer, MaxTime, and MaxDatagrams in all.     *)
(***************************************************************************)
EXTENDS PacketOps, TwoPeers

CONSTANTS Estimates, Corrections,
          Lead,        \* what the clocks of a peer read at time 0
          BufferSize,  \* mtu_size, 1500
          Strays,      \* datagrams of others, of any length
          LastAckNo, MaxTime, MaxDatagrams

ASSUME WireAssumption ==
  /\ Estimates \subseteq [rtt : Int, var : Int]
  /\ Corrections \in [Peers -> SUBSET Int]
  /\ Lead \in [Peers -> Nat] /\ LastAckNo \in [Peers -> Nat]
  /\ MaxTime \in 0 .. WORD - 1 /\ MaxDatagrams \in Nat
  /\ BufferSize \in Nat /\ BufferSize >= ack_length
  /\ \A d \in Strays : \E n \in 0 .. BufferSize :
       /\ d.bytes \in [0 .. n - 1 -> Bytes] /\ d.from \notin Peers
       /\ n > 1 => d.bytes[1] \notin {ACK, ACKACK}   \* none has the type of one

\* What 32 bits can tell apart: an int, the number of an ACK, and the times of a
\* system clock that is not set by half a turn or more.
Ints == -(WORD \div 2) .. WORD \div 2 - 1

ASSUME RangeAssumption ==
  /\ Estimates \subseteq [rtt : Ints, var : Ints]
  /\ \A p \in Peers : /\ LastAckNo[p] < WORD
                      /\ \A d \in Corrections[p] \cup {0} : {d, MaxTime + d} \subseteq Ints

VARIABLES now, set,   \* time, and the correction of each system clock
          snd,        \* the sending thread of a peer: pc, ackno, buffer
          rbuf,       \* the buffer of the receiving thread
          estimate,   \* rtt and rtt_var of g_path
          net,        \* the datagrams, and the peer each came from
          left,       \* history: when the ACKs of a peer left it
          heard       \* history: what on_ctrl_ackack took from the last ACKACK

vars == <<now, set, snd, rbuf, estimate, net, left, heard>>

Nothing == [ackno |-> 0, ts |-> 0, ts_sys |-> 0]

Init == /\ now = 0
        /\ set = [p \in Peers |-> 0]
        /\ snd = [p \in Peers |-> [pc |-> "sleep", ackno |-> 1, buffer |-> Blank(BufferSize)]]
        /\ rbuf = [p \in Peers |-> Blank(BufferSize)]
        /\ estimate = [p \in Peers |-> [rtt |-> 0, var |-> 0]]
        /\ net = {}
        /\ left = [p \in Peers |-> [n \in {} |-> 0]]
        /\ heard = [p \in Peers |-> Nothing]

get_timestamp_std(p) == (now + Lead[p]) % WORD

\* The system clock may be set back to before the start of the process.
get_timestamp_sys(p) == (now + Lead[p] + set[p]) % WORD

Tick == /\ now < MaxTime
        /\ now' = now + 1
        /\ UNCHANGED <<set, snd, rbuf, estimate, net, left, heard>>

SetClock(p, d) ==
  /\ set' = [set EXCEPT ![p] = d]
  /\ UNCHANGED <<now, snd, rbuf, estimate, net, left, heard>>

-----------------------------------------------------------------------------
\* Mutant: the buffer keeps what the last ACK left in it.
FillNot(buf) == buf

\* std::fill with 0.
Fill(buf) == [i \in DOMAIN buf |-> 0]

BuildAck(p) ==
  LET ack == set_field(
               set_field(set_control_type(Fill(snd[p].buffer), ACK),
                         fld_timestamp, get_timestamp_std(p)),
               fld_ackno, snd[p].ackno)
      est == estimate[p]
  IN  /\ snd[p].pc = "sleep" /\ snd[p].ackno <= LastAckNo[p]
      /\ snd' = [snd EXCEPT ![p] =
           [ pc     |-> "send",
             ackno  |-> snd[p].ackno + 1,
             buffer |-> IF est.rtt = 0 THEN ack
                        ELSE set_field(set_field(ack, fld_rtt, est.rtt), fld_rttvar, est.var) ]]
      /\ UNCHANGED <<now, set, rbuf, estimate, net, left, heard>>

Extend(f, n, t) == [m \in DOMAIN f \cup {n} |-> IF m = n THEN t ELSE f[m]]

Datagram(p, buf, length) == [from |-> p, bytes |-> const_buf(buf, length)]

SendAck(p) ==
  /\ snd[p].pc = "send" /\ Cardinality(net) < MaxDatagrams
  /\ net' = net \cup {Datagram(p, snd[p].buffer, ack_length)}
  /\ left' = [left EXCEPT ![p] = Extend(@, get_field(snd[p].buffer, fld_ackno), now)]
  /\ snd' = [snd EXCEPT ![p].pc = "sleep"]
  /\ UNCHANGED <<now, set, rbuf, estimate, heard>>

\* send() does not take the packet; its number is used up.
SendShort(p) ==
  /\ snd[p].pc = "send"
  /\ snd' = [snd EXCEPT ![p].pc = "sleep"]
  /\ UNCHANGED <<now, set, rbuf, estimate, net, left, heard>>

-----------------------------------------------------------------------------
(* One iteration of ack_reply_loop is one step: only this thread uses its  *)
(* buffers, and a later answer is one to a datagram that came later.       *)

\* recvfrom() overwrites as much of the buffer as the datagram has.
Read(p, d) ==
  [i \in DOMAIN rbuf[p] |-> IF i \in DOMAIN d.bytes THEN d.bytes[i] ELSE rbuf[p][i]]

\* Mutant: takes a field of the ACK from the wrong place.
AnswerToTimestamp(p, pkt) ==
  set_field(
    set_field(
      set_field(set_control_type(Blank(40), ACKACK), fld_timestamp, get_timestamp_std(p)),
      fld_ackno, get_field(pkt, fld_timestamp)),
    fld_timestamp_sys, get_timestamp_sys(p))

\* What on_ctrl_ack makes of an ACK.
AnswerTo(p, pkt) ==
  set_field(
    set_field(
      set_field(set_control_type(Blank(40), ACKACK), fld_timestamp, get_timestamp_std(p)),
      fld_ackno, get_field(pkt, fld_ackno)),
    fld_timestamp_sys, get_timestamp_sys(p))

IsOf(type, pkt) == is_ctrl(pkt) /\ control_type(pkt) = type

Receive(p, d) == d.from # p /\ rbuf' = [rbuf EXCEPT ![p] = Read(p, d)]

\* The number of bytes is only tested for 0; the type is looked for in the buffer,
\* in what the datagram has overwritten and in what it has not.
IsTaken(type, p, d) == DOMAIN d.bytes # {} /\ IsOf(type, Read(p, d))

ReceiveAck(p, d) ==
  /\ Receive(p, d) /\ IsTaken(ACK, p, d)
  /\ Cardinality(net) < MaxDatagrams
  /\ net' = net \cup {Datagram(p, AnswerTo(p, Read(p, d)), ackack_length)}
  /\ UNCHANGED <<now, set, snd, estimate, left, heard>>

\* on_ctrl_ackack moves the estimate; to where, is in Peer.
ReceiveAckAck(p, d, est) ==
  /\ Receive(p, d) /\ IsTaken(ACKACK, p, d)
  /\ heard' = [heard EXCEPT ![p] = [ ackno  |-> get_field(Read(p, d), fld_ackno),
                                     ts     |-> get_field(Read(p, d), fld_timestamp),
                                     ts_sys |-> get_field(Read(p, d), fld_timestamp_sys) ]]
  /\ estimate' = [estimate EXCEPT ![p] = est]
  /\ UNCHANGED <<now, set, snd, net, left>>

\* No bytes or no control packet, which are logged, or one of another type.
PassOver(p, d) ==
  /\ ~ IsTaken(ACK, p, d) /\ ~ IsTaken(ACKACK, p, d) /\ Receive(p, d)
  /\ UNCHANGED <<now, set, snd, estimate, net, left, heard>>

Next == \/ Tick
        \/ \E p \in Peers :
             \/ \E d \in Corrections[p] : SetClock(p, d)
             \/ BuildAck(p) \/ SendAck(p) \/ SendShort(p)
             \/ \E d \in net \cup Strays :
                  \/ ReceiveAck(p, d)
                  \/ \E est \in Estimates : ReceiveAckAck(p, d, est)
                  \/ PassOver(p, d)

Spec == Init /\ [][Next]_vars

-----------------------------------------------------------------------------
Buffers == [0 .. BufferSize - 1 -> Bytes]

\* Threads and buffers keep their shape, and what is in a buffer is bytes.
TypeOK ==
  /\ now \in 0 .. MaxTime /\ \A p \in Peers : set[p] \in Corrections[p] \cup {0}
  /\ \A p \in Peers :
       /\ snd[p].pc \in {"sleep", "send"} /\ snd[p].ackno \in 1 .. LastAckNo[p] + 1
       /\ snd[p].buffer \in Buffers /\ rbuf[p] \in Buffers
       /\ DOMAIN left[p] \subseteq 1 .. LastAckNo[p]
  /\ \A d \in net : DOMAIN d.bytes \in {0 .. ack_length - 1, 0 .. ackack_length - 1}

-----------------------------------------------------------------------------
(* What the datagrams say, by the diagrams of src/packet: rows of four     *)
(* bytes, the most significant first, and the flag and the type in front.  *)

Row(b, i) == ((b[4 * i] * BYTE + b[4 * i + 1]) * BYTE + b[4 * i + 2]) * BYTE + b[4 * i + 3]

\* A row that holds an int, and one that holds a clock of peer p.
Signed(word) == IF word < WORD \div 2 THEN word ELSE word - WORD
Elapsed(p, word) == (word - Lead[p]) % WORD

Meaning(d) ==
  LET b == d.bytes
  IN  IF <<b[0], b[1]>> = <<BYTE \div 2, 2>>
      THEN [ kind     |-> "ACK",
             from     |-> d.from,
             ackno    |-> Row(b, 1),
             ts       |-> Elapsed(d.from, Row(b, 2)),
             estimate |-> [rtt |-> Signed(Row(b, 5)), var |-> Signed(Row(b, 6))] ]
      ELSE [ kind   |-> "ACKACK",
             from   |-> d.from,
             ackno  |-> Row(b, 1),
             ts     |-> Elapsed(d.from, Row(b, 2)),
             ts_sys |-> Signed(Elapsed(d.from, Row(b, 4))) ]

\* The ACK in the buffer of the sending thread, once there is one.
Draft(p) ==
  IF snd[p].ackno = 1
  THEN [ kind |-> "ACK", from |-> p, ackno |-> 0, ts |-> 0,
         estimate |-> [rtt |-> 0, var |-> 0] ]
  ELSE Meaning([from |-> p, bytes |-> snd[p].buffer])

Understood(p) ==
  IF heard[p] = Nothing THEN Nothing
  ELSE [ ackno  |-> heard[p].ackno,
         ts     |-> Elapsed(Other(p), heard[p].ts),
         ts_sys |-> Signed(Elapsed(Other(p), heard[p].ts_sys)) ]

Talk == INSTANCE Echo WITH AckNos      <- UNION {1 .. LastAckNo[p] : p \in Peers},
                           Corrections <- UNION {Corrections[p] : p \in Peers},
                           msgs        <- {Meaning(d) : d \in net},
                           draft       <- [p \in Peers |-> Draft(p)],
                           heard       <- [p \in Peers |-> Understood(p)]

\* Bytes, field widths and shared buffers can not be seen from outside: no ACK
\* shows a piece of an earlier one, no answer a piece of an earlier datagram,
\* negative estimates, clocks that wrap and clocks that were set back arrive as
\* they were (src/packet, app/start.cpp:69-83,100-109,159-191).  A datagram of
\* somebody else that is too short to have a type makes the program take what it
\* read last once more, and does nothing else.
ImplementsEcho == Talk!Spec

\* The number and the time an ACKACK brings are those of an ACK that its reader
\* sent, at a time between that ACK's leaving and now.
AnswersFollowAcks == Talk!AnswersFollowAcks

\* No peer passes over a datagram of the other one, whatever its buffer held
\* before: the flag that is written as one half of 16 bits is found in the first
\* byte, and the type in the rest (pkt_base::is_ctrl and control_type).
UnderstandsPeer == [][\A p \in Peers : \A d \in {e \in net : e.from # p} : ~ PassOver(p, d)]_vars

=============================================================================
