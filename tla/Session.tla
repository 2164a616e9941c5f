------------------------------- MODULE Session -------------------------------
(***************************************************************************)
(* Two processes of the program over UDP: run(), ack_sending_loop and      *)
(* ack_reply_loop of app/start.cpp, with the destination address that the  *)
(* two threads of a process share (app/udp_socket.hpp), force_break, and   *)
(* the errors that end a thread or a process.                              *)
(*                                                                         *)
(* A packet is its kind and its two addresses: what the ACK numbers do is  *)
(* in Peer.                                                                *)
(*                                                                         *)
(* `net' has the packets on their way and in the buffers of the sockets.   *)
(* They come in any order, more than once, or not at all.                  *)
(*                                                                         *)
(* A loop iteration is one step that ends with the test of force_break: a  *)
(* signal between the two has the effect of one before the iteration.      *)
(* Bound: MaxRestarts, for each peer.                                      *)
(*                                                                         *)
(* A peer in Callers is given the address of the other one on its command  *)
(* line; a peer that is not listens, and takes the source of the first ACK *)
(* for its destination.  A peer in `bound' has the same address after a    *)
(* restart, one that is not gets a new one.                                *)
(*                                                                         *)
(* Strangers are addresses of other processes, which send ACKs to a peer   *)
(* whenever they like.  What is sent to them leaves the model.             *)
(***************************************************************************)
EXTENDS Naturals, TwoPeers

CONSTANTS Callers, Bindings, Strangers, MaxRestarts, None

\* A listener is bound, and so is the one that a caller calls.
ASSUME SessionAssumption ==
  /\ Callers \subseteq Peers
  /\ \A b \in Bindings : /\ b \subseteq Peers /\ Peers \ Callers \subseteq b
                          /\ \A p \in Callers : Peers \ {p} \subseteq b
  /\ MaxRestarts \in Nat

Addresses == Peers \X (0 .. MaxRestarts)

\* No address is none, and those of the peers are their own.
ASSUME AddressAssumption == /\ None \notin Addresses \cup Strangers
                            /\ Strangers \cap Addresses = {}

VARIABLES bound,        \* the peers with a bind option in their URLs
          proc,         \* "up", or "down" (killed, aborted, or run() returned)
          incarnation,  \* how often the peer was restarted
          dst,          \* m_dst_addr, None while it is empty
          force_break,
          snd, rcv,     \* where the two threads are
          net

sessionVars == <<bound, proc, incarnation, dst, force_break, snd, rcv, net>>

Addr(p) == <<p, IF p \in bound THEN 0 ELSE incarnation[p]>>

Packets == [kind : {"ACK", "ACKACK"}, from : Addresses, to : Addresses]

\* Where a peer was in a run before this one, if it has moved.
Left(q) == {q} \X {i \in 0 .. MaxRestarts : q \notin bound /\ i < incarnation[q]}

\* The packet that p sends, unless it goes to where no peer reads it.
Sent(p, kind, to) ==
  [kind : {kind}, from : {Addr(p)}, to : {to} \ (Strangers \cup Left(Other(p)))]

\* The address in the URL is one the other peer is bound to.
GivenDst(p) == IF p \in Callers THEN <<Other(p), 0>> ELSE None

SessionInit ==
  /\ bound \in Bindings
  /\ proc = [p \in Peers |-> "up"]
  /\ incarnation = [p \in Peers |-> 0]
  /\ dst = [p \in Peers |-> GivenDst(p)]
  /\ force_break = [p \in Peers |-> FALSE]
  /\ snd = [p \in Peers |-> "start"]
  /\ rcv = [p \in Peers |-> "start"]
  /\ net = {}

-----------------------------------------------------------------------------
(* ack_sending_loop.                                                       *)

SndTest(p) == snd' = [snd EXCEPT ![p] = IF force_break[p] THEN "returned" ELSE "sleep"]

SndStart(p) ==
  /\ proc[p] = "up" /\ snd[p] = "start"
  /\ SndTest(p)
  /\ UNCHANGED <<bound, proc, incarnation, dst, force_break, rcv, net>>

\* The remote is not known yet.
SndSkip(p) ==
  /\ proc[p] = "up" /\ snd[p] = "sleep" /\ dst[p] = None
  /\ SndTest(p)
  /\ UNCHANGED <<bound, proc, incarnation, dst, force_break, rcv, net>>

\* Mutant: sends although the remote is not known.
SndAckAnyway(p) ==
  /\ proc[p] = "up" /\ snd[p] = "sleep"
  /\ net' = net \cup Sent(p, "ACK", dst[p])
  /\ SndTest(p)
  /\ UNCHANGED <<bound, proc, incarnation, dst, force_break, rcv>>

SndAck(p) ==
  /\ proc[p] = "up" /\ snd[p] = "sleep" /\ dst[p] # None
  /\ net' = net \cup Sent(p, "ACK", dst[p])
  /\ SndTest(p)
  /\ UNCHANGED <<bound, proc, incarnation, dst, force_break, rcv>>

\* The send is short, or the network loses the packet.
SndLost(p) ==
  /\ proc[p] = "up" /\ snd[p] = "sleep" /\ dst[p] # None
  /\ SndTest(p)
  /\ UNCHANGED <<bound, proc, incarnation, dst, force_break, rcv, net>>

-----------------------------------------------------------------------------
(* ack_reply_loop.                                                         *)

\* Mutant: does not look at force_break.
RcvTestNever(p) == rcv' = [rcv EXCEPT ![p] = "recvfrom"]

RcvTest(p) == rcv' = [rcv EXCEPT ![p] = IF force_break[p] THEN "returned" ELSE "recvfrom"]

RcvStart(p) ==
  /\ proc[p] = "up" /\ rcv[p] = "start"
  /\ RcvTest(p)
  /\ UNCHANGED <<bound, proc, incarnation, dst, force_break, snd, net>>

\* recvfrom() returns nothing, as select was interrupted or ready for no reason, or
\* a datagram that no one answers: the ACKACK of a stranger, say.
RcvNothing(p) ==
  /\ proc[p] = "up" /\ rcv[p] = "recvfrom"
  /\ RcvTest(p)
  /\ UNCHANGED <<bound, proc, incarnation, dst, force_break, snd, net>>

Incoming(p, kind) ==
  {pkt \in net : proc[p] = "up" /\ rcv[p] = "recvfrom" /\ pkt.to = Addr(p) /\ pkt.kind = kind}

\* What may be left when the packet is read: it may come once more.
Remaining(pkt) == {net, net \ {pkt}}

\* Mutant: the source of the ACK is not kept.
LearnNothing(p, addr) == UNCHANGED dst

\* Mutant: the last one to send an ACK is taken for the remote.
LearnAlways(p, addr) == dst' = [dst EXCEPT ![p] = addr]

Learn(p, addr) == dst' = [dst EXCEPT ![p] = IF @ = None THEN addr ELSE @]

\* An ACK came from `source': the answer goes to m_dst_addr, whoever sent it.
Answers(p, source, rest) ==
  /\ Learn(p, source)
  /\ net' = rest \cup Sent(p, "ACKACK", dst'[p])
  /\ RcvTest(p)
  /\ UNCHANGED <<bound, proc, incarnation, force_break, snd>>

\* The answer is lost; its send was short, which nobody looks at; or it threw.
LosesAnswer(p, source, rest) ==
  /\ Learn(p, source)
  /\ net' = rest
  /\ RcvTest(p) \/ rcv' = [rcv EXCEPT ![p] = "threw"]
  /\ UNCHANGED <<bound, proc, incarnation, force_break, snd>>

RcvAck(p) == \E pkt \in Incoming(p, "ACK") :
               \E rest \in Remaining(pkt) : Answers(p, pkt.from, rest)

RcvAckLost(p) == \E pkt \in Incoming(p, "ACK") :
                   \E rest \in Remaining(pkt) : LosesAnswer(p, pkt.from, rest)

\* The ACK of a stranger.
RcvStray(p) ==
  /\ proc[p] = "up" /\ rcv[p] = "recvfrom"
  /\ \E source \in Strangers : Answers(p, source, net) \/ LosesAnswer(p, source, net)

\* on_ctrl_ackack: a line of the trace.
RcvAckAck(p) == \E pkt \in Incoming(p, "ACKACK") :
  /\ net' \in Remaining(pkt)
  /\ RcvTest(p)
  /\ UNCHANGED <<bound, proc, incarnation, dst, force_break, snd>>

\* recvfrom() fails.  std::async keeps the exception and nobody asks for it.
RcvThrow(p) ==
  /\ proc[p] = "up" /\ rcv[p] = "recvfrom"
  /\ rcv' = [rcv EXCEPT ![p] = "threw"]
  /\ UNCHANGED <<bound, proc, incarnation, dst, force_break, snd, net>>

-----------------------------------------------------------------------------
(* run() and main().                                                       *)

\* SIGINT or SIGTERM under --handle-sigint.
Interrupt(p) ==
  /\ proc[p] = "up" /\ ~ force_break[p]
  /\ force_break' = [force_break EXCEPT ![p] = TRUE]
  /\ UNCHANGED <<bound, proc, incarnation, dst, snd, rcv, net>>

\* The process goes with all it knows, and what its socket holds with it.
Ends(p) ==
  /\ proc[p] = "up"
  /\ proc' = [proc EXCEPT ![p] = "down"]
  /\ dst' = [dst EXCEPT ![p] = GivenDst(p)]
  /\ force_break' = [force_break EXCEPT ![p] = FALSE]
  /\ snd' = [snd EXCEPT ![p] = "start"]
  /\ rcv' = [rcv EXCEPT ![p] = "start"]
  /\ \/ UNCHANGED net
     \/ net' = {pkt \in net : pkt.to # Addr(p)}
  /\ UNCHANGED <<bound, incarnation>>

\* Mutant: the thread has to return.
WaitedForReturn(p) == rcv[p] = "returned"

\* future::wait() comes back for a thread that threw, too.
Waited(p) == rcv[p] \in {"returned", "threw"}

\* run() waits for the receiving thread and returns.
Exit(p) == snd[p] = "returned" /\ Waited(p) /\ Ends(p)

\* A signal without --handle-sigint, or send() throws in ack_sending_loop and
\* nobody catches it.
Crash(p) == Ends(p)

\* What is on its way to an address that is given up is lost.
Restart(p) ==
  /\ proc[p] # "up" /\ incarnation[p] < MaxRestarts
  /\ proc' = [proc EXCEPT ![p] = "up"]
  /\ incarnation' = [incarnation EXCEPT ![p] = @ + 1]
  /\ UNCHANGED <<bound, dst, force_break, snd, rcv>>
  /\ net' = {pkt \in net : pkt.to \notin Left(p)'}

Sender(p) == SndStart(p) \/ SndSkip(p) \/ SndAck(p) \/ SndLost(p)

Receiver(p) == \/ RcvStart(p) \/ RcvNothing(p) \/ RcvThrow(p)
               \/ RcvAck(p) \/ RcvAckLost(p) \/ RcvAckAck(p)
               \/ RcvStray(p)

SessionNext == \E p \in Peers : \/ Sender(p) \/ Receiver(p)
                                \/ Interrupt(p) \/ Exit(p) \/ Crash(p) \/ Restart(p)

SessionSpec == SessionInit /\ [][SessionNext]_sessionVars

-----------------------------------------------------------------------------
(* Fairness.  The threads run and read what the socket has got; a packet   *)
(* that is sent again and again is not lost for ever.  No operator need    *)
(* restart a process, nothing need fail or interrupt select, and no        *)
(* stranger need send.                                                     *)

Fairness ==
  \A p \in Peers :
    /\ WF_sessionVars(SndStart(p) \/ SndSkip(p) \/ SndAck(p) \/ Exit(p))
    /\ WF_sessionVars(RcvStart(p) \/ RcvAckAck(p)) /\ SF_sessionVars(RcvAck(p))

FairSpec == SessionSpec /\ Fairness

-----------------------------------------------------------------------------
\* Every variable stays in its type: packets only go to addresses of peers.
SessionTypeOK ==
  /\ bound \in Bindings
  /\ proc \in [Peers -> {"up", "down"}]
  /\ incarnation \in [Peers -> 0 .. MaxRestarts]
  /\ dst \in [Peers -> Addresses \cup Strangers \cup {None}]
  /\ force_break \in [Peers -> BOOLEAN]
  /\ snd \in [Peers -> {"start", "sleep", "returned"}]
  /\ rcv \in [Peers -> {"start", "recvfrom", "returned", "threw"}]
  /\ net \subseteq Packets

\* It sends, and not to where its remote is.
Misled(p) == dst[p] \notin {None, Addr(Other(p))}

\* A process that was given its remote sends to where the remote is, whoever else
\* sends to it, and however late a packet comes.  A listener may be misled, by the
\* first ACK it reads: by that of a stranger, or by one from where a remote that is
\* not bound was before it was started again (app/start.cpp:181-184).
SendsToTheRemote ==
  \A p \in Peers : Misled(p) => p \notin Callers /\ dst[p] \in Strangers \cup Left(Other(p))

Works(p) == proc[p] = "up" /\ ~ force_break[p] /\ rcv[p] # "threw"

\* Once both processes run undisturbed and neither is misled each of them gets
\* ACKACKs, again and again, whatever crashes, restarts and losses came before
\* (README.md:113).
KeepsMeasuring ==
  <>[](\A p \in Peers : Works(p) /\ ~ Misled(p))
    => \A p \in Peers : []<><<RcvAckAck(p)>>_sessionVars

Serves(q, p) == Works(q) /\ dst[q] = Addr(p)

\* A process that is asked to stop stops, if the other one goes on sending to it.
StopsWhenServed ==
  \A p \in Peers : force_break[p] ~> (proc[p] # "up" \/ ~ Serves(Other(p), p))

\* An exception of the receiving thread, which nobody sees, leaves a process that
\* goes on sending and can still be stopped: run() does not wait for ever for a
\* thread that is gone (app/start.cpp:238-242).
StopsWhenThrew ==
  \A p \in Peers : (force_break[p] /\ rcv[p] = "threw") ~> proc[p] # "up"

-----------------------------------------------------------------------------
\* app/start.cpp:146: force_break is "a flag to break the loop and return from
\* the function".  A process that is asked to stop would stop.
Stops == \A p \in Peers : force_break[p] ~> proc[p] # "up"

\* README.md:113: "Both peers send acknowledgement (ACK) packets and receive
\* acknowledment of acknowledgment (ACKACK) packets back", and README.md:109:
\* "Binding is also optional."  Two processes that run would get ACKACKs.
MeasuresWhileRunning ==
  <>[](\A p \in Peers : Works(p)) => \A p \in Peers : []<><<RcvAckAck(p)>>_sessionVars

=============================================================================
