------------------------------ MODULE PacketOps ------------------------------
(***************************************************************************)
(* The packets of src/packet: pkt_view reads and writes a field of a       *)
(* buffer, pkt_base has the header, pkt_ack and pkt_ackack the rest.  A    *)
(* buffer is the function from offsets to bytes that a buf_view points to. *)
(*                                                                         *)
(* BYTE is the number of values of a byte; a smaller one keeps 32-bit      *)
(* fields within TLC's integers and changes nothing but their range.  Hosts*)
(* are little-endian, as all the builds of README.md are: bits.hpp swaps   *)
(* the bytes of a field without asking the host for its order.             *)
(***************************************************************************)
EXTENDS Integers, FiniteSets

CONSTANT BYTE   \* 256

ASSUME ByteAssumption == BYTE \in Nat /\ BYTE >= 16 /\ BYTE % 2 = 0

Bytes == 0 .. BYTE - 1
WORD == BYTE * BYTE * BYTE * BYTE   \* 2^32

\* What a vector or an array of n bytes is filled with.
Blank(n) == [i \in 0 .. n - 1 |-> 0]

-----------------------------------------------------------------------------
\* BYTE ^ i: what one in byte i counts for.
Place[i \in 0 .. 4] == IF i = 0 THEN 1 ELSE BYTE * Place[i - 1]

\* Mutant: digits of the value that do not fit a byte.
StoredUncut(w, val) == [i \in 0 .. w - 1 |-> val \div Place[i]]

\* A host integer of w bytes in memory, and the integer such bytes stand for.
\* The parameter of a setter converts to w bytes, a negative int to its two's
\* complement.
Stored(w, val) == [i \in 0 .. w - 1 |-> (val \div Place[i]) % BYTE]
Loaded(w, b) ==
  LET from[i \in 0 .. w] == IF i = w THEN 0 ELSE b[i] + BYTE * from[i + 1]
  IN  from[0]

\* Mutant: as on a host whose order is that of the network.
bswap_none(w, b) == b

bswap(w, b) == [i \in 0 .. w - 1 |-> b[w - 1 - i]]

pkt_field(width, offset) == [width |-> width, offset |-> offset]

set_field(buf, field, val) ==
  LET bytes == bswap(field.width, Stored(field.width, val))
  IN  [i \in DOMAIN buf |-> IF i - field.offset \in DOMAIN bytes
                            THEN bytes[i - field.offset] ELSE buf[i]]

get_field(buf, field) ==
  Loaded(field.width,
         bswap(field.width, [i \in 0 .. field.width - 1 |-> buf[field.offset + i]]))

-----------------------------------------------------------------------------
(* pkt_base.                                                               *)

fld_flag      == pkt_field(1, 0)
fld_ctrltype  == pkt_field(2, 0)
fld_timestamp == pkt_field(4, 8)

CTRL_BIT == (BYTE * BYTE) \div 2   \* 0x8000

HANDSHAKE == 0
ACK == 2
ACKACK == 6
PEERERROR == 8
USERDEFINED == CTRL_BIT - 1
INVALID == -1

is_ctrl(buf) == get_field(buf, fld_flag) >= BYTE \div 2

control_type(buf) ==
  LET type == get_field(buf, fld_ctrltype) % CTRL_BIT
  IN  IF type \in HANDSHAKE .. PEERERROR \/ type = USERDEFINED THEN type ELSE INVALID

\* Mutant: the flag is left to the sender.
set_control_type_plain(buf, type) == set_field(buf, fld_ctrltype, type)

set_control_type(buf, type) == set_field(buf, fld_ctrltype, CTRL_BIT + type)

\* What const_buf() hands to send().
const_buf(buf, length) == [i \in 0 .. length - 1 |-> buf[i]]

-----------------------------------------------------------------------------
(* pkt_ack and pkt_ackack.                                                 *)

fld_ackno  == pkt_field(4, 1 * 4)
fld_rtt    == pkt_field(4, 5 * 4)
fld_rttvar == pkt_field(4, 6 * 4)
ack_length == 44

\* Mutant: the place of a field that only a pkt_ack has.
fld_timestamp_sys_ack == pkt_field(4, 7 * 4)

fld_timestamp_sys == pkt_field(4, 4 * 4)   \* of a pkt_ackack
ackack_length == 20

=============================================================================
