------------------------------ MODULE AckQueue ------------------------------
(***************************************************************************)
(* What ack_window promises to the two threads that share it: a first-in   *)
(* first-out queue of the ACKs that are still waiting for their ACKACK.    *)
(* It holds at most Capacity of them and forgets the oldest to make room.  *)
(* An ACKACK answers the first ACK with its number; that ACK and all older *)
(* ones leave the queue, and the result is the time since the ACK was sent.*)
(***************************************************************************)
EXTENDS Integers, Sequences

CONSTANTS Capacity,   \* the most ACKs the queue holds
          AckNos,     \* the numbers an ACK can carry
          Times,      \* readings of the clock
          NotFound    \* the result for a number that is not in the queue

VARIABLES pending,    \* the ACKs not answered yet, oldest first
          rtt         \* the result of the latest acknowledgement

vars == <<pending, rtt>>

Init == /\ pending = <<>>
        /\ rtt = NotFound

Enqueue(n, t) ==
  LET longer == Append(pending, [ackno |-> n, sendtime |-> t])
  IN  /\ pending' = IF Len(pending) = Capacity THEN Tail(longer) ELSE longer
      /\ UNCHANGED rtt

FirstAt(n, k) == /\ pending[k].ackno = n
                 /\ \A j \in 1 .. k - 1 : pending[j].ackno # n

Answer(n, t) ==
  \E k \in 1 .. Len(pending) :
     /\ FirstAt(n, k)
     /\ rtt' = t - pending[k].sendtime
     /\ pending' = SubSeq(pending, k + 1, Len(pending))

AnswerUnknown(n) ==
  /\ \A k \in 1 .. Len(pending) : pending[k].ackno # n
  /\ rtt' = NotFound
  /\ UNCHANGED pending

\* The process starts again.
Restart == pending' = <<>> /\ rtt' = NotFound

Next == \/ \E n \in AckNos, t \in Times :
              Enqueue(n, t) \/ Answer(n, t) \/ AnswerUnknown(n)
        \/ Restart

Spec == Init /\ [][Next]_vars

=============================================================================
