----------------------------- MODULE WireProofs -----------------------------
(***************************************************************************)
(* Proofs about Wire: for every size of a byte and of a buffer, every clock*)
(* and every number of ACKs and datagrams that a field of 32 bits can tell *)
(* apart.                                                                  *)
(*                                                                         *)
(* First, that a field holds what was put there; then, what an ACK and an  *)
(* ACKACK look like on the wire; then, step by step, that the two peers    *)
(* implement Echo.                                                         *)
(***************************************************************************)
EXTENDS Wire, TLAPS

-----------------------------------------------------------------------------
(* Numbers and their digits.                                               *)

\* Quotient and remainder are the only ones.
LEMMA Unique ==
  ASSUME NEW t \in Int, NEW d \in Nat \ {0}, NEW q \in Int, NEW r \in 0 .. d - 1,
         t = d * q + r
  PROVE  t % d = r /\ t \div d = q
  OBVIOUS

LEMMA QuotientRemainder ==
  ASSUME NEW t \in Int, NEW d \in Nat \ {0}
  PROVE  /\ t \div d \in Int /\ t % d \in 0 .. d - 1
         /\ t = d * (t \div d) + (t % d)
  OBVIOUS

Half == BYTE \div 2

LEMMA ByteTypes ==
  /\ BYTE \in Nat \ {0} /\ BYTE >= 16
  /\ Half \in Nat \ {0} /\ BYTE = 2 * Half /\ Half < BYTE /\ Half >= 8
  BY ByteAssumption DEF Half

\* One digit more.
LEMMA OneMore ==
  ASSUME NEW m \in Nat \ {0}, NEW x \in 0 .. m - 1, NEW d \in 0 .. BYTE - 1
  PROVE  x * BYTE + d \in 0 .. (m * BYTE) - 1
<1>1. BYTE \in Nat \ {0}
  BY ByteTypes
<1>2. x * BYTE \in Nat /\ x * BYTE <= (m - 1) * BYTE
  BY <1>1
<1>3. m * BYTE \in Nat /\ (m - 1) * BYTE = (m * BYTE) - BYTE
  BY <1>1
<1> HIDE DEF Half
<1> DEFINE y == x * BYTE
           z == m * BYTE
<1>4. y \in Nat /\ z \in Nat /\ y <= z - BYTE
  BY <1>2, <1>3
<1> HIDE DEF y, z
<1>5. y + d \in 0 .. z - 1
  BY <1>1, <1>4
<1> QED
  BY <1>5 DEF y, z

\* A quotient of a quotient.
LEMMA DivDiv ==
  ASSUME NEW v \in Int, NEW a \in Nat \ {0}
  PROVE  v \div (BYTE * a) = (v \div a) \div BYTE
<1> DEFINE q == v \div a
           r == v % a
           p == q \div BYTE
           s == q % BYTE
<1>1. BYTE \in Nat \ {0}
  BY ByteTypes
<1>2. q \in Int /\ r \in 0 .. a - 1 /\ v = a * q + r
  BY QuotientRemainder
<1> HIDE DEF q, r
<1>3. p \in Int /\ s \in 0 .. BYTE - 1 /\ q = BYTE * p + s
  BY <1>1, <1>2, QuotientRemainder
<1> HIDE DEF p, s
<1>4. a * q = (BYTE * a) * p + a * s
  BY <1>1, <1>2, <1>3
<1>5. a * s + r \in 0 .. (BYTE * a) - 1
  <2>1. a * s \in Nat /\ a * s <= a * (BYTE - 1)
    BY <1>1, <1>3
  <2>2. a * (BYTE - 1) = (BYTE * a) - a /\ BYTE * a \in Nat
    BY <1>1
  <2> DEFINE y == a * s
             z == BYTE * a
  <2>3. y \in Nat /\ z \in Nat /\ y <= z - a
    BY <2>1, <2>2
  <2> HIDE DEF y, z
  <2>4. y + r \in 0 .. z - 1
    BY <1>2, <2>3
  <2> QED
    BY <2>4 DEF y, z
<1>6. v = (BYTE * a) * p + (a * s + r) /\ BYTE * a \in Nat \ {0}
  <2> DEFINE x == (BYTE * a) * p
             y == a * s
             z == a * q
  <2>1. x \in Int /\ y \in Int /\ z = x + y /\ v = z + r
    BY <1>1, <1>2, <1>3, <1>4
  <2> HIDE DEF x, y, z
  <2>2. v = x + (y + r)
    BY <1>2, <2>1
  <2> QED
    BY <1>1, <2>2 DEF x, y
<1>7. v \div (BYTE * a) = p
  BY <1>3, <1>5, <1>6, Unique
<1> QED
  BY <1>7 DEF p, q

LEMMA Places ==
  /\ Place[0] = 1 /\ Place[1] = BYTE /\ Place[2] = BYTE * BYTE
  /\ Place[3] = BYTE * (BYTE * BYTE)
<1>1. Place = [i \in 0 .. 4 |-> IF i = 0 THEN 1 ELSE BYTE * Place[i - 1]]
  BY DEF Place
<1>2. Place[0] = 1
  BY <1>1
<1>3. Place[1] = BYTE * Place[0]
  BY <1>1
<1>4. Place[2] = BYTE * Place[1]
  BY <1>1
<1>5. Place[3] = BYTE * Place[2]
  BY <1>1
<1> QED
  BY <1>2, <1>3, <1>4, <1>5, ByteTypes

\* What the digits d0, d1, d2, d3 stand for.
Number(d0, d1, d2, d3) == ((d3 * BYTE + d2) * BYTE + d1) * BYTE + d0

LEMMA WordTypes == WORD \in Nat \ {0} /\ WORD = ((BYTE * BYTE) * BYTE) * BYTE
  BY ByteTypes DEF WORD

LEMMA NumberInWord ==
  ASSUME NEW d0 \in Bytes, NEW d1 \in Bytes, NEW d2 \in Bytes, NEW d3 \in Bytes
  PROVE  Number(d0, d1, d2, d3) \in 0 .. WORD - 1
<1> DEFINE x == d3 * BYTE + d2
           y == x * BYTE + d1
<1>1. BYTE \in Nat \ {0} /\ BYTE * BYTE \in Nat \ {0} /\ (BYTE * BYTE) * BYTE \in Nat \ {0}
  BY ByteTypes
<1>2. x \in 0 .. (BYTE * BYTE) - 1
  BY <1>1, OneMore DEF Bytes
<1> HIDE DEF x
<1>3. y \in 0 .. ((BYTE * BYTE) * BYTE) - 1
  BY <1>1, <1>2, OneMore DEF Bytes
<1> HIDE DEF y
<1>4. y * BYTE + d0 \in 0 .. (((BYTE * BYTE) * BYTE) * BYTE) - 1
  BY <1>1, <1>3, OneMore DEF Bytes
<1> QED
  BY <1>4, WordTypes DEF Number, x, y

\* The four low digits of a number stand for it modulo WORD.
LEMMA DigitsOfNumber ==
  ASSUME NEW v \in Int
  PROVE  LET digit(i) == (v \div Place[i]) % BYTE
         IN  /\ \A i \in 0 .. 3 : digit(i) \in Bytes
             /\ Number(digit(0), digit(1), digit(2), digit(3)) = v % WORD
<1> DEFINE q1 == v \div BYTE
           q2 == v \div (BYTE * BYTE)
           q3 == v \div (BYTE * (BYTE * BYTE))
           q4 == q3 \div BYTE
           d0 == v % BYTE
           d1 == q1 % BYTE
           d2 == q2 % BYTE
           d3 == q3 % BYTE
<1>1. BYTE \in Nat \ {0} /\ BYTE * BYTE \in Nat \ {0} /\ BYTE * (BYTE * BYTE) \in Nat \ {0}
  BY ByteTypes
<1>2. /\ (v \div Place[0]) % BYTE = d0 /\ (v \div Place[1]) % BYTE = d1
      /\ (v \div Place[2]) % BYTE = d2 /\ (v \div Place[3]) % BYTE = d3
  <2>1. v \div 1 = v
    OBVIOUS
  <2> QED
    BY <2>1, Places
<1>3. q2 = q1 \div BYTE /\ q3 = q2 \div BYTE
  BY <1>1, DivDiv
<1>4. q1 \in Int /\ q2 \in Int /\ q3 \in Int /\ q4 \in Int
  BY <1>1
<1>5. /\ d0 \in 0 .. BYTE - 1 /\ v = BYTE * q1 + d0
  BY <1>1, QuotientRemainder
<1>6. /\ d1 \in 0 .. BYTE - 1 /\ q1 = BYTE * q2 + d1
  BY <1>1, <1>3, <1>4, QuotientRemainder
<1>7. /\ d2 \in 0 .. BYTE - 1 /\ q2 = BYTE * q3 + d2
  BY <1>1, <1>3, <1>4, QuotientRemainder
<1>8. /\ d3 \in 0 .. BYTE - 1 /\ q3 = BYTE * q4 + d3
  BY <1>1, <1>3, <1>4, QuotientRemainder
<1> HIDE DEF q1, q2, q3, q4, d0, d1, d2, d3
<1>9. v = WORD * q4 + Number(d0, d1, d2, d3)
  <2> DEFINE B2 == BYTE * BYTE
             B3 == B2 * BYTE
  <2>1. q2 = B2 * q4 + (d3 * BYTE + d2)
    BY <1>1, <1>4, <1>5, <1>6, <1>7, <1>8
  <2> DEFINE x == d3 * BYTE + d2
             y == x * BYTE + d1
  <2>2. x \in Int /\ B2 \in Nat /\ q2 = B2 * q4 + x
    BY <1>1, <1>7, <1>8, <2>1
  <2> HIDE DEF x, B2
  <2>3. q1 = B3 * q4 + y /\ y \in Int /\ B3 \in Nat
    BY <1>1, <1>4, <1>6, <2>2
  <2> HIDE DEF y, B3
  <2>4. v = (B3 * BYTE) * q4 + (y * BYTE + d0)
    BY <1>1, <1>4, <1>5, <2>3
  <2> QED
    BY <2>4, WordTypes DEF Number, x, y, B3, B2
<1>10. Number(d0, d1, d2, d3) \in 0 .. WORD - 1
  BY <1>5, <1>6, <1>7, <1>8, NumberInWord DEF Bytes
<1>11. v % WORD = Number(d0, d1, d2, d3)
  BY <1>4, <1>9, <1>10, WordTypes, Unique
<1>12. \A i \in 0 .. 3 : (v \div Place[i]) % BYTE \in Bytes
  <2>1. \A i \in 0 .. 3 : i = 0 \/ i = 1 \/ i = 2 \/ i = 3
    OBVIOUS
  <2> QED
    BY <1>2, <1>5, <1>6, <1>7, <1>8, <2>1 DEF Bytes
<1> QED
  BY <1>2, <1>11, <1>12

-----------------------------------------------------------------------------
(* Fields of a buffer.                                                     *)

\* The four bytes from o on as a number, the most significant first.
Word(b, o) == Number(b[o + 3], b[o + 2], b[o + 1], b[o])

LEMMA RowIsWord ==
  ASSUME NEW b
  PROVE  /\ Row(b, 1) = Word(b, 4) /\ Row(b, 2) = Word(b, 8) /\ Row(b, 4) = Word(b, 16)
         /\ Row(b, 5) = Word(b, 20) /\ Row(b, 6) = Word(b, 24)
  BY DEF Row, Word, Number

\* Two buffers of n bytes differ at most in the four from o on.
SameBut(n, a, b, o) == \A i \in 0 .. n - 1 : i < o \/ i >= o + 4 => b[i] = a[i]

\* A field of 32 bits holds what was put there, modulo 2^32, and nothing else of the
\* buffer has changed.
LEMMA SetWord ==
  ASSUME NEW n \in Nat, NEW buf \in [0 .. n - 1 -> Bytes],
         NEW o \in Nat, o + 4 <= n, NEW v \in Int
  PROVE  LET after == set_field(buf, pkt_field(4, o), v)
         IN  /\ after \in [0 .. n - 1 -> Bytes]
             /\ Word(after, o) = v % WORD
             /\ SameBut(n, buf, after, o)
<1> DEFINE digit(i) == (v \div Place[i]) % BYTE
           bytes == [i \in 0 .. 3 |-> digit(3 - i)]
           after == set_field(buf, pkt_field(4, o), v)
<1>1. /\ \A i \in 0 .. 3 : digit(i) \in Bytes
      /\ Number(digit(0), digit(1), digit(2), digit(3)) = v % WORD
  BY DigitsOfNumber
<1> HIDE DEF digit
<1>2. bytes \in [0 .. 3 -> Bytes]
  BY <1>1
<1>3. after = [i \in 0 .. n - 1 |-> IF i - o \in 0 .. 3 THEN bytes[i - o] ELSE buf[i]]
  <2>1. Stored(4, v) = [i \in 0 .. 3 |-> digit(i)]
    BY DEF Stored, digit
  <2>2. bswap(4, Stored(4, v)) = bytes
    BY <2>1 DEF bswap
  <2>3. DOMAIN bytes = 0 .. 3 /\ DOMAIN buf = 0 .. n - 1
    OBVIOUS
  <2>4. pkt_field(4, o).width = 4 /\ pkt_field(4, o).offset = o
    BY DEF pkt_field
  <2> HIDE DEF bytes
  <2> QED
    BY <2>2, <2>3, <2>4 DEF set_field
<1> HIDE DEF after
<1>4. bytes[0] = digit(3) /\ bytes[1] = digit(2) /\ bytes[2] = digit(1) /\ bytes[3] = digit(0)
  OBVIOUS
<1> HIDE DEF bytes
<1>5. after \in [0 .. n - 1 -> Bytes]
  BY <1>2, <1>3
<1>6. SameBut(n, buf, after, o)
  BY <1>3 DEF SameBut
<1>7. /\ after[o] = bytes[0] /\ after[o + 1] = bytes[1]
      /\ after[o + 2] = bytes[2] /\ after[o + 3] = bytes[3]
  <2>1. \A k \in 0 .. 3 : o + k \in 0 .. n - 1 /\ (o + k) - o = k
    OBVIOUS
  <2>2. \A k \in 0 .. 3 : after[o + k] = bytes[k]
    BY <1>3, <2>1
  <2>3. o + 0 = o
    OBVIOUS
  <2> QED
    BY <2>2, <2>3
<1>8. Word(after, o) = v % WORD
  BY <1>1, <1>4, <1>7 DEF Word
<1> QED
  BY <1>5, <1>6, <1>8 DEF after

LEMMA CtrlBit == CTRL_BIT = BYTE * Half
<1>1. BYTE * BYTE = 2 * (BYTE * Half) /\ BYTE * Half \in Nat
  BY ByteTypes
<1> HIDE DEF Half
<1> DEFINE x == BYTE * Half
           y == BYTE * BYTE
<1>2. x \in Nat /\ y = 2 * x
  BY <1>1
<1> HIDE DEF x, y
<1>3. y \div 2 = x
  BY <1>2
<1> QED
  BY <1>3 DEF CTRL_BIT, x, y

\* The two bytes of the type, with the flag in front.
LEMMA SetType ==
  ASSUME NEW n \in Nat, n >= 2, NEW buf \in [0 .. n - 1 -> Bytes], NEW type \in {ACK, ACKACK}
  PROVE  LET after == set_control_type(buf, type)
         IN  /\ after \in [0 .. n - 1 -> Bytes]
             /\ after[0] = Half /\ after[1] = type
             /\ \A i \in 0 .. n - 1 : i >= 2 => after[i] = buf[i]
<1> DEFINE v == CTRL_BIT + type
           after == set_control_type(buf, type)
           bytes == [i \in 0 .. 1 |-> IF i = 0 THEN Half ELSE type]
<1>1. type \in 0 .. BYTE - 1 /\ type \in Bytes /\ Half \in Bytes
  BY ByteTypes DEF ACK, ACKACK, Bytes
<1>2. CTRL_BIT = BYTE * Half
  BY CtrlBit
<1>3. v \in Int /\ v % BYTE = type /\ v \div BYTE = Half
  <2>1. v \in Int /\ v = BYTE * Half + type
    BY <1>1, <1>2, ByteTypes
  <2> HIDE DEF v
  <2> QED
    BY <1>1, <2>1, ByteTypes, Unique
<1>4. Half % BYTE = Half
  BY ByteTypes
<1> HIDE DEF v
<1>5. Stored(2, v) = [i \in 0 .. 1 |-> IF i = 0 THEN type ELSE Half]
  <2>1. \A i \in 0 .. 1 : (v \div Place[i]) % BYTE = IF i = 0 THEN type ELSE Half
    <3>1. v \div 1 = v
      BY <1>3
    <3>2. (v \div Place[0]) % BYTE = type /\ (v \div Place[1]) % BYTE = Half
      BY <1>3, <1>4, <3>1, Places
    <3>3. \A i \in 0 .. 1 : i = 0 \/ i = 1
      OBVIOUS
    <3> QED
      BY <3>2, <3>3
  <2> QED
    BY <2>1 DEF Stored
<1>6. bswap(2, Stored(2, v)) = bytes
  <2>1. \A i \in 0 .. 1 : 1 - i \in 0 .. 1 /\ (1 - i = 0 <=> i # 0)
    OBVIOUS
  <2> QED
    BY <1>5, <2>1 DEF bswap
<1>7. after = [i \in 0 .. n - 1 |-> IF i \in 0 .. 1 THEN bytes[i] ELSE buf[i]]
  <2>1. fld_ctrltype.width = 2 /\ fld_ctrltype.offset = 0
    BY DEF fld_ctrltype, pkt_field
  <2>2. \A i \in 0 .. n - 1 : i - 0 = i
    OBVIOUS
  <2>3. DOMAIN bytes = 0 .. 1 /\ DOMAIN buf = 0 .. n - 1
    OBVIOUS
  <2> HIDE DEF bytes
  <2> QED
    BY <1>6, <2>1, <2>2, <2>3 DEF set_control_type, set_field, v
<1> HIDE DEF after
<1>8. \A i \in 0 .. 1 : bytes[i] \in Bytes
  BY <1>1
<1>9. bytes[0] = Half /\ bytes[1] = type
  OBVIOUS
<1> HIDE DEF bytes
<1>10. after \in [0 .. n - 1 -> Bytes]
  BY <1>7, <1>8
<1>11. after[0] = Half /\ after[1] = type
  BY <1>7, <1>9
<1>12. \A i \in 0 .. n - 1 : i >= 2 => after[i] = buf[i]
  BY <1>7
<1> QED
  BY <1>10, <1>11, <1>12 DEF after

\* Reading four bytes.
LEMMA GetWord ==
  ASSUME NEW b, NEW o \in Nat, \A i \in 0 .. 3 : b[o + i] \in Bytes
  PROVE  get_field(b, pkt_field(4, o)) = Word(b, o)
<1> DEFINE c == [i \in 0 .. 3 |-> b[o + (3 - i)]]
           from[i \in 0 .. 4] == IF i = 4 THEN 0 ELSE c[i] + BYTE * from[i + 1]
<1>1. get_field(b, pkt_field(4, o)) = Loaded(4, c)
  <2> DEFINE f == pkt_field(4, o)
             bytes == [i \in 0 .. f.width - 1 |-> b[f.offset + i]]
  <2>1. f.width = 4 /\ f.offset = o
    BY DEF pkt_field
  <2>2. get_field(b, f) = Loaded(f.width, bswap(f.width, bytes))
    BY DEF get_field
  <2> HIDE DEF f
  <2>3. bytes = [i \in 0 .. 3 |-> b[o + i]]
    BY <2>1
  <2> HIDE DEF bytes
  <2>4. bswap(4, bytes) = c
    BY <2>3 DEF bswap
  <2> QED
    BY <2>1, <2>2, <2>4 DEF f
<1>2. from = [i \in 0 .. 4 |-> IF i = 4 THEN 0 ELSE c[i] + BYTE * from[i + 1]]
  OBVIOUS
<1>3. Loaded(4, c) = from[0]
  BY DEF Loaded
<1>4. /\ c[0] = b[o + 3] /\ c[1] = b[o + 2] /\ c[2] = b[o + 1] /\ c[3] = b[o]
  BY o + 0 = o
<1>5. c[0] \in Int /\ c[1] \in Int /\ c[2] \in Int /\ c[3] \in Int
  BY ByteTypes DEF Bytes
<1> HIDE DEF from, c
<1>6. from[4] = 0 /\ from[3] = c[3] + BYTE * from[4] /\ from[2] = c[2] + BYTE * from[3]
  BY <1>2
<1>7. from[1] = c[1] + BYTE * from[2] /\ from[0] = c[0] + BYTE * from[1]
  BY <1>2
<1>8. from[3] = c[3]
  BY <1>5, <1>6, ByteTypes
<1>9. from[0] = c[0] + BYTE * (c[1] + BYTE * (c[2] + BYTE * c[3]))
  BY <1>6, <1>7, <1>8
<1>10. from[0] = Number(c[0], c[1], c[2], c[3])
  <2>1. \A x, y \in Int : x + BYTE * y \in Int /\ x + BYTE * y = y * BYTE + x
    BY ByteTypes
  <2> DEFINE x == c[2] + BYTE * c[3]
             y == c[1] + BYTE * x
  <2>2. x \in Int /\ x = c[3] * BYTE + c[2]
    BY <1>5, <2>1
  <2>3. from[0] = c[0] + BYTE * y
    BY <1>9
  <2> HIDE DEF x
  <2>4. y \in Int /\ y = x * BYTE + c[1]
    BY <1>5, <2>1, <2>2
  <2> HIDE DEF y
  <2>5. from[0] = y * BYTE + c[0]
    BY <1>5, <2>1, <2>3, <2>4
  <2> QED
    BY <2>2, <2>4, <2>5 DEF Number
<1> QED
  BY <1>1, <1>3, <1>4, <1>10 DEF Word

\* The first byte, and the first two as one number.
LEMMA FlagAndType ==
  ASSUME NEW b, b[0] \in Bytes, b[1] \in Bytes
  PROVE  get_field(b, fld_flag) = b[0] /\ get_field(b, fld_ctrltype) = BYTE * b[0] + b[1]
<1>0. b[0] \in Int /\ b[1] \in Int /\ BYTE \in Int /\ BYTE * b[0] \in Int
  BY ByteTypes DEF Bytes
<1>1. get_field(b, fld_flag) = b[0]
  <2> DEFINE c == [i \in 0 .. 0 |-> b[0]]
             from[i \in 0 .. 1] == IF i = 1 THEN 0 ELSE c[i] + BYTE * from[i + 1]
  <2>1. get_field(b, fld_flag) = Loaded(1, c)
    <3>1. fld_flag.width = 1 /\ fld_flag.offset = 0
      BY DEF fld_flag, pkt_field
    <3>2. bswap(1, [i \in 0 .. 1 - 1 |-> b[0 + i]]) = c
      <4>1. 0 .. 1 - 1 = {0} /\ 0 .. 0 = {0} /\ 1 - 1 - 0 = 0 /\ 0 + 0 = 0
        OBVIOUS
      <4> QED
        BY <4>1 DEF bswap
    <3> QED
      BY <3>1, <3>2 DEF get_field
  <2>2. from = [i \in 0 .. 1 |-> IF i = 1 THEN 0 ELSE c[i] + BYTE * from[i + 1]]
    OBVIOUS
  <2>3. Loaded(1, c) = from[0]
    BY DEF Loaded
  <2>4. c[0] = b[0]
    OBVIOUS
  <2> HIDE DEF from, c
  <2>5. from[1] = 0 /\ from[0] = c[0] + BYTE * from[1]
    BY <2>2
  <2> QED
    BY <1>0, <2>1, <2>3, <2>4, <2>5
<1>2. get_field(b, fld_ctrltype) = BYTE * b[0] + b[1]
  <2> DEFINE c == [i \in 0 .. 1 |-> b[1 - i]]
             from[i \in 0 .. 2] == IF i = 2 THEN 0 ELSE c[i] + BYTE * from[i + 1]
  <2>1. get_field(b, fld_ctrltype) = Loaded(2, c)
    <3>1. fld_ctrltype.width = 2 /\ fld_ctrltype.offset = 0
      BY DEF fld_ctrltype, pkt_field
    <3>2. bswap(2, [i \in 0 .. 2 - 1 |-> b[0 + i]]) = c
      BY DEF bswap
    <3> QED
      BY <3>1, <3>2 DEF get_field
  <2>2. from = [i \in 0 .. 2 |-> IF i = 2 THEN 0 ELSE c[i] + BYTE * from[i + 1]]
    OBVIOUS
  <2>3. Loaded(2, c) = from[0]
    BY DEF Loaded
  <2>4. c[0] = b[1] /\ c[1] = b[0]
    OBVIOUS
  <2> HIDE DEF from, c
  <2>5. from[2] = 0 /\ from[1] = c[1] + BYTE * from[2] /\ from[0] = c[0] + BYTE * from[1]
    BY <2>2
  <2>6. from[1] = b[0]
    BY <1>0, <2>4, <2>5
  <2> QED
    BY <1>0, <2>1, <2>3, <2>4, <2>5, <2>6
<1> QED
  BY <1>1, <1>2

\* Of what is_ctrl and control_type take for an ACK or an ACKACK, the first two
\* bytes are known, and what has these is taken for one.
LEMMA GetType ==
  ASSUME NEW b, b[0] \in Bytes, b[1] \in Bytes, NEW type \in {ACK, ACKACK}
  PROVE  is_ctrl(b) /\ control_type(b) = type <=> b[0] = Half /\ b[1] = type
<1> DEFINE x == b[0]
           y == b[1]
           r == x - Half
           low == BYTE * r + y
<1>1. /\ x \in Int /\ 0 <= x /\ x < BYTE /\ y \in Int /\ 0 <= y /\ y < BYTE
      /\ BYTE \in Int /\ Half \in Int /\ BYTE = 2 * Half /\ Half >= 8
  BY ByteTypes DEF Bytes
<1>2. is_ctrl(b) <=> x >= Half
  BY FlagAndType DEF is_ctrl, Half
<1>3. type \in Int /\ 0 <= type /\ type < Half /\ type < BYTE
  BY <1>1 DEF ACK, ACKACK
<1> HIDE DEF x, y
<1>4. r \in Int /\ BYTE * r \in Int /\ low \in Int /\ BYTE * Half \in Int
  BY <1>1
<1>5. CASE x >= Half
  <2>1. 0 <= r /\ r <= Half - 1
    BY <1>1, <1>5
  <2>2. BYTE * r >= 0 /\ BYTE * r <= BYTE * (Half - 1)
    BY <1>1, <1>4, <2>1
  <2>3. BYTE * (Half - 1) = BYTE * Half - BYTE
    BY <1>1
  <2>4. low \in 0 .. BYTE * Half - 1
    BY <1>1, <1>4, <2>2, <2>3
  <2>5. BYTE * x + y = (BYTE * Half) * 1 + low
    BY <1>1
  <2>6. BYTE * Half \in Nat \ {0}
    BY <1>1
  <2> DEFINE m == BYTE * Half
             v == BYTE * x + y
             w == low
  <2>7. m \in Nat \ {0} /\ w \in 0 .. m - 1 /\ v \in Int /\ v = m * 1 + w
    BY <1>1, <1>4, <2>4, <2>5, <2>6
  <2> HIDE DEF m, v, w
  <2>8. v % m = w
    BY <2>7, Unique
  <2>9. get_field(b, fld_ctrltype) % CTRL_BIT = low
    BY <2>8, FlagAndType, CtrlBit DEF m, v, w, x, y
  <2>10. low = type <=> r = 0 /\ y = type
    <3>1. r >= 1 => BYTE * r >= BYTE
      BY <1>1, <1>4
    <3>2. r = 0 => BYTE * r = 0
      BY <1>1
    <3> HIDE DEF r
    <3> DEFINE z == BYTE * r
    <3>3. z \in Int /\ (r >= 1 => z >= BYTE) /\ (r = 0 => z = 0) /\ r \in Int /\ r >= 0
      BY <1>4, <2>1, <3>1, <3>2
    <3> HIDE DEF z
    <3>4. z + y = type <=> r = 0 /\ y = type
      BY <1>1, <1>3, <3>3
    <3> QED
      BY <3>4 DEF z
  <2> HIDE DEF low
  <2>11. control_type(b) = type <=> low = type
    BY <1>3, <2>9 DEF control_type, HANDSHAKE, PEERERROR, ACK, ACKACK, INVALID
  <2>12. r = 0 <=> x = Half
    BY <1>1
  <2> QED
    BY <1>2, <1>5, <2>10, <2>11, <2>12 DEF x, y
<1>6. CASE ~ (x >= Half)
  <2>1. x # Half
    BY <1>1, <1>6
  <2> QED
    BY <1>2, <1>6, <2>1 DEF x
<1> QED
  BY <1>5, <1>6

-----------------------------------------------------------------------------
(* The packets.                                                            *)

LEMMA FieldPlaces ==
  /\ fld_timestamp = pkt_field(4, 8) /\ fld_ackno = pkt_field(4, 4)
  /\ fld_rtt = pkt_field(4, 20) /\ fld_rttvar = pkt_field(4, 24)
  /\ fld_timestamp_sys = pkt_field(4, 16)
<1>1. 1 * 4 = 4 /\ 5 * 4 = 20 /\ 6 * 4 = 24 /\ 4 * 4 = 16
  OBVIOUS
<1> QED
  BY <1>1 DEF fld_timestamp, fld_ackno, fld_rtt, fld_rttvar, fld_timestamp_sys

\* Words that share no byte with a field are what they were.
LEMMA WordKept ==
  ASSUME NEW n \in Nat, NEW a, NEW b, NEW o \in Nat, NEW f \in Nat,
         o + 4 <= n, o + 4 <= f \/ f + 4 <= o, SameBut(n, a, b, f)
  PROVE  Word(b, o) = Word(a, o)
<1>1. \A k \in 0 .. 3 : o + k \in 0 .. n - 1 /\ (o + k < f \/ o + k >= f + 4)
  OBVIOUS
<1>2. \A k \in 0 .. 3 : b[o + k] = a[o + k]
  BY <1>1 DEF SameBut
<1>3. b[o] = a[o] /\ b[o + 1] = a[o + 1] /\ b[o + 2] = a[o + 2] /\ b[o + 3] = a[o + 3]
  BY <1>2, o + 0 = o
<1> QED
  BY <1>3 DEF Word

\* The beginning of a packet of a type.
Begins(b, type) == b[0] = Half /\ b[1] = type

\* What a peer makes of a cleared buffer.
LEMMA AckMade ==
  ASSUME NEW n \in Nat, n >= 44, NEW buf \in [0 .. n - 1 -> Bytes],
         NEW ts \in Int, NEW k \in Int
  PROVE  LET ack == set_field(set_field(set_control_type(Fill(buf), ACK), fld_timestamp, ts),
                              fld_ackno, k)
         IN  /\ ack \in [0 .. n - 1 -> Bytes] /\ Begins(ack, ACK)
             /\ Word(ack, 4) = k % WORD /\ Word(ack, 8) = ts % WORD
             /\ Word(ack, 20) = 0 /\ Word(ack, 24) = 0
<1> DEFINE a == Fill(buf)
           b == set_control_type(a, ACK)
           c == set_field(b, pkt_field(4, 8), ts)
           d == set_field(c, pkt_field(4, 4), k)
<1>1. /\ a \in [0 .. n - 1 -> Bytes] /\ \A i \in 0 .. n - 1 : a[i] = 0
  BY ByteTypes DEF Fill, Bytes
<1> HIDE DEF a
<1>2. /\ b \in [0 .. n - 1 -> Bytes]
      /\ b[0] = Half /\ b[1] = ACK
      /\ \A i \in 0 .. n - 1 : i >= 2 => b[i] = a[i]
  <2>1. n >= 2 /\ ACK \in {ACK, ACKACK}
    OBVIOUS
  <2> QED
    BY <1>1, <2>1, SetType
<1> HIDE DEF b
<1>3. /\ c \in [0 .. n - 1 -> Bytes] /\ Word(c, 8) = ts % WORD
      /\ SameBut(n, b, c, 8)
  <2>1. 8 \in Nat /\ 8 + 4 <= n
    OBVIOUS
  <2> QED
    BY <1>2, <2>1, SetWord
<1> HIDE DEF c
<1>4. /\ d \in [0 .. n - 1 -> Bytes] /\ Word(d, 4) = k % WORD
      /\ SameBut(n, c, d, 4)
  <2>1. 4 \in Nat /\ 4 + 4 <= n
    OBVIOUS
  <2> QED
    BY <1>3, <2>1, SetWord
<1> HIDE DEF d
<1>5. Begins(d, ACK)
  <2>1. 0 \in 0 .. n - 1 /\ 1 \in 0 .. n - 1
    OBVIOUS
  <2> QED
    BY <1>2, <1>3, <1>4, <2>1 DEF Begins, SameBut
<1>6. Word(d, 8) = ts % WORD
  <2>1. 8 \in Nat /\ 4 \in Nat /\ 8 + 4 <= n /\ 4 + 4 <= 8
    OBVIOUS
  <2> QED
    BY <1>3, <1>4, <2>1, WordKept
<1>7. \A i \in 16 .. 27 : d[i] = 0
  <2> TAKE i \in 16 .. 27
  <2>1. i \in 0 .. n - 1 /\ i >= 2 /\ i >= 8 + 4 /\ i >= 4 + 4
    OBVIOUS
  <2>2. d[i] = c[i] /\ c[i] = b[i]
    BY <1>3, <1>4, <2>1 DEF SameBut
  <2> QED
    BY <1>1, <1>2, <2>1, <2>2
<1>8. Word(d, 20) = 0 /\ Word(d, 24) = 0
  <2>1. /\ d[20] = 0 /\ d[21] = 0 /\ d[22] = 0 /\ d[23] = 0
        /\ d[24] = 0 /\ d[25] = 0 /\ d[26] = 0 /\ d[27] = 0
    BY <1>7
  <2>2. Number(0, 0, 0, 0) = 0
    BY ByteTypes DEF Number
  <2> QED
    BY <2>1, <2>2 DEF Word
<1> QED
  BY <1>4, <1>5, <1>6, <1>8, FieldPlaces DEF a, b, c, d

\* The estimate in an ACK leaves the rest of it alone.
LEMMA EstimateAdded ==
  ASSUME NEW n \in Nat, n >= 44, NEW ack \in [0 .. n - 1 -> Bytes], Begins(ack, ACK),
         NEW rtt \in Int, NEW var \in Int
  PROVE  LET after == set_field(set_field(ack, fld_rtt, rtt), fld_rttvar, var)
         IN  /\ after \in [0 .. n - 1 -> Bytes] /\ Begins(after, ACK)
             /\ Word(after, 4) = Word(ack, 4) /\ Word(after, 8) = Word(ack, 8)
             /\ Word(after, 20) = rtt % WORD /\ Word(after, 24) = var % WORD
<1> DEFINE b == set_field(ack, pkt_field(4, 20), rtt)
           c == set_field(b, pkt_field(4, 24), var)
<1>1. /\ b \in [0 .. n - 1 -> Bytes] /\ Word(b, 20) = rtt % WORD
      /\ SameBut(n, ack, b, 20)
  <2>1. 20 \in Nat /\ 20 + 4 <= n
    OBVIOUS
  <2> QED
    BY <2>1, SetWord
<1> HIDE DEF b
<1>2. /\ c \in [0 .. n - 1 -> Bytes] /\ Word(c, 24) = var % WORD
      /\ SameBut(n, b, c, 24)
  BY <1>1, SetWord
<1> HIDE DEF c
<1>3. Word(c, 20) = rtt % WORD
  <2>1. 20 \in Nat /\ 24 \in Nat /\ 20 + 4 <= n /\ 20 + 4 <= 24
    OBVIOUS
  <2> QED
    BY <1>1, <1>2, <2>1, WordKept
<1>4. Word(b, 4) = Word(ack, 4) /\ Word(b, 8) = Word(ack, 8)
  <2>1. /\ 4 \in Nat /\ 8 \in Nat /\ 20 \in Nat
        /\ 4 + 4 <= n /\ 8 + 4 <= n /\ 4 + 4 <= 20 /\ 8 + 4 <= 20
    OBVIOUS
  <2> QED
    BY <1>1, <2>1, WordKept
<1>5. Word(c, 4) = Word(ack, 4) /\ Word(c, 8) = Word(ack, 8)
  <2>1. /\ 4 \in Nat /\ 8 \in Nat /\ 24 \in Nat
        /\ 4 + 4 <= n /\ 8 + 4 <= n /\ 4 + 4 <= 24 /\ 8 + 4 <= 24
    OBVIOUS
  <2> QED
    BY <1>2, <1>4, <2>1, WordKept
<1>6. Begins(c, ACK)
  <2>1. 0 \in 0 .. n - 1 /\ 1 \in 0 .. n - 1
    OBVIOUS
  <2> QED
    BY <1>1, <1>2, <2>1 DEF Begins, SameBut
<1> QED
  BY <1>2, <1>3, <1>5, <1>6, FieldPlaces DEF b, c

\* What a peer answers.
LEMMA AnswerMade ==
  ASSUME NEW k \in Int, NEW ts \in Int, NEW ts_sys \in Int
  PROVE  LET answer == set_field(
                         set_field(
                           set_field(set_control_type(Blank(40), ACKACK), fld_timestamp, ts),
                           fld_ackno, k),
                         fld_timestamp_sys, ts_sys)
         IN  /\ answer \in [0 .. 40 - 1 -> Bytes] /\ Begins(answer, ACKACK)
             /\ Word(answer, 4) = k % WORD /\ Word(answer, 8) = ts % WORD
             /\ Word(answer, 16) = ts_sys % WORD
<1> DEFINE n == 40
           a == Blank(n)
           b == set_control_type(a, ACKACK)
           c == set_field(b, pkt_field(4, 8), ts)
           d == set_field(c, pkt_field(4, 4), k)
           e == set_field(d, pkt_field(4, 16), ts_sys)
<1>1. a \in [0 .. n - 1 -> Bytes]
  BY ByteTypes DEF Blank, Bytes
<1> HIDE DEF a
<1>2. /\ b \in [0 .. n - 1 -> Bytes]
      /\ b[0] = Half /\ b[1] = ACKACK
  <2>1. n >= 2 /\ ACKACK \in {ACK, ACKACK}
    OBVIOUS
  <2> QED
    BY <1>1, <2>1, SetType
<1> HIDE DEF b
<1>3. /\ c \in [0 .. n - 1 -> Bytes] /\ Word(c, 8) = ts % WORD
      /\ SameBut(n, b, c, 8)
  <2>1. 8 \in Nat /\ 8 + 4 <= n
    OBVIOUS
  <2> QED
    BY <1>2, <2>1, SetWord
<1> HIDE DEF c
<1>4. /\ d \in [0 .. n - 1 -> Bytes] /\ Word(d, 4) = k % WORD
      /\ SameBut(n, c, d, 4)
  <2>1. 4 \in Nat /\ 4 + 4 <= n
    OBVIOUS
  <2> QED
    BY <1>3, <2>1, SetWord
<1> HIDE DEF d
<1>5. /\ e \in [0 .. n - 1 -> Bytes] /\ Word(e, 16) = ts_sys % WORD
      /\ SameBut(n, d, e, 16)
  <2>1. 16 \in Nat /\ 16 + 4 <= n
    OBVIOUS
  <2> QED
    BY <1>4, <2>1, SetWord
<1> HIDE DEF e
<1>6. Begins(e, ACKACK)
  <2>1. 0 \in 0 .. n - 1 /\ 1 \in 0 .. n - 1
    OBVIOUS
  <2> QED
    BY <1>2, <1>3, <1>4, <1>5, <2>1 DEF Begins, SameBut
<1>7. Word(d, 8) = ts % WORD
  <2>1. 8 \in Nat /\ 4 \in Nat /\ 8 + 4 <= n /\ 4 + 4 <= 8
    OBVIOUS
  <2> QED
    BY <1>3, <1>4, <2>1, WordKept
<1>8. Word(e, 8) = ts % WORD /\ Word(e, 4) = k % WORD
  <2>1. /\ 4 \in Nat /\ 8 \in Nat /\ 16 \in Nat
        /\ 4 + 4 <= n /\ 8 + 4 <= n /\ 4 + 4 <= 16 /\ 8 + 4 <= 16
    OBVIOUS
  <2> QED
    BY <1>4, <1>5, <1>7, <2>1, WordKept
<1> QED
  BY <1>5, <1>6, <1>8, FieldPlaces DEF a, b, c, d, e

-----------------------------------------------------------------------------
(* What the words stand for.                                               *)

\* A word that two's complement has put there is read as what it was.
LEMMA SignedOfInt ==
  ASSUME NEW v \in Ints
  PROVE  v % WORD \in 0 .. WORD - 1 /\ Signed(v % WORD) = v
<1> DEFINE h == WORD \div 2
<1>1. WORD \in Nat \ {0} /\ h \in Nat /\ 2 * h <= WORD /\ WORD <= 2 * h + 1
  BY WordTypes
<1>2. v \in Int /\ -h <= v /\ v < h
  BY <1>1 DEF Ints
<1>3. h = WORD \div 2
  OBVIOUS
<1> HIDE DEF h
<1>4. CASE v >= 0
  <2>1. v % WORD = v
    BY <1>1, <1>2, <1>4
  <2> QED
    BY <1>1, <1>2, <1>3, <1>4, <2>1 DEF Signed
<1>5. CASE v < 0
  <2> DEFINE r == WORD + v
  <2>1. r \in 0 .. WORD - 1 /\ ~ (r < h) /\ r - WORD = v /\ -1 \in Int
    BY <1>1, <1>2, <1>5
  <2>2. v = WORD * (-1) + r
    BY <1>1, <1>2
  <2> HIDE DEF r
  <2>3. v % WORD = r
    BY <1>1, <1>2, <2>1, <2>2, Unique
  <2> QED
    BY <1>3, <2>1, <2>3 DEF Signed
<1> QED
  BY <1>2, <1>4, <1>5

\* A remainder can be taken again.
LEMMA Remainders ==
  ASSUME NEW x \in Int, NEW m \in Nat \ {0}
  PROVE  (x % m) % m = x % m
  OBVIOUS

\* What was added before a remainder was taken can be taken off again.
LEMMA TakenOff ==
  ASSUME NEW x \in Int, NEW l \in Int, NEW m \in Nat \ {0}
  PROVE  (((x + l) % m) - l) % m = x % m
<1> DEFINE y == x + l
           q == y \div m
           r == y % m
           p == (r - l) \div m
           s == (r - l) % m
<1>1. q \in Int /\ r \in 0 .. m - 1 /\ y = m * q + r
  BY QuotientRemainder
<1> HIDE DEF q, r
<1>2. r - l \in Int
  BY <1>1
<1>3. p \in Int /\ s \in 0 .. m - 1 /\ r - l = m * p + s
  BY <1>2, QuotientRemainder
<1> HIDE DEF p, s
<1>4. p + q \in Int /\ m * (p + q) = m * p + m * q /\ m * p \in Int /\ m * q \in Int
  BY <1>1, <1>3
<1> DEFINE u == m * p
           w == m * q
<1>5. x = (u + w) + s
  <2>1. u \in Int /\ w \in Int /\ x + l = w + r /\ r - l = u + s
    BY <1>1, <1>3, <1>4
  <2> HIDE DEF u, w
  <2> QED
    BY <1>1, <1>3, <2>1
<1>6. x = m * (p + q) + s
  BY <1>4, <1>5
<1>7. x % m = s
  BY <1>3, <1>4, <1>6, Unique
<1>8. ((x + l) % m) - l = r - l
  BY DEF r
<1> QED
  BY <1>7, <1>8 DEF s

\* The clocks of a peer, in a field, show the time and the time with its correction.
LEMMA ClocksShowTime ==
  ASSUME NEW p \in Peers, now \in 0 .. MaxTime, set[p] \in Corrections[p] \cup {0}
  PROVE  /\ get_timestamp_std(p) \in Int /\ get_timestamp_sys(p) \in Int
         /\ Elapsed(p, get_timestamp_std(p) % WORD) = now
         /\ Signed(Elapsed(p, get_timestamp_sys(p) % WORD)) = now + set[p]
<1>1. WORD \in Nat \ {0} /\ MaxTime \in 0 .. WORD - 1 /\ Lead[p] \in Int
  BY WordTypes, WireAssumption
<1>2. now \in Int /\ now >= 0 /\ now <= MaxTime
  BY <1>1
<1>3. set[p] \in Ints /\ MaxTime + set[p] \in Ints
  BY RangeAssumption
<1>4. now + set[p] \in Ints /\ set[p] \in Int /\ now + set[p] \in Int
  BY <1>1, <1>2, <1>3, WordTypes DEF Ints
<1>5. now % WORD = now
  BY <1>1, <1>2
<1>6. Elapsed(p, get_timestamp_std(p) % WORD) = now
  <2> DEFINE y == now + Lead[p]
  <2>1. (y % WORD) % WORD = y % WORD
    <3>1. y \in Int
      BY <1>1, <1>2
    <3> HIDE DEF y
    <3> QED
      BY <1>1, <3>1, Remainders
  <2>2. (((now + Lead[p]) % WORD) - Lead[p]) % WORD = now % WORD
    BY <1>1, <1>2, TakenOff
  <2> QED
    BY <1>5, <2>1, <2>2 DEF Elapsed, get_timestamp_std
<1>7. Elapsed(p, get_timestamp_sys(p) % WORD) = (now + set[p]) % WORD
  <2> DEFINE x == now + set[p]
  <2>1. x \in Int /\ (now + Lead[p]) + set[p] = x + Lead[p]
    BY <1>1, <1>2, <1>4
  <2>2. get_timestamp_sys(p) = (x + Lead[p]) % WORD
    <3>1. (now + Lead[p] + set[p]) = (now + Lead[p]) + set[p]
      OBVIOUS
    <3> QED
      BY <2>1, <3>1 DEF get_timestamp_sys
  <2> HIDE DEF x
  <2> DEFINE y == x + Lead[p]
  <2>3. (y % WORD) % WORD = y % WORD
    <3>1. y \in Int
      BY <1>1, <2>1
    <3> HIDE DEF y
    <3> QED
      BY <1>1, <3>1, Remainders
  <2>4. (((x + Lead[p]) % WORD) - Lead[p]) % WORD = x % WORD
    BY <1>1, <2>1, TakenOff
  <2> QED
    BY <2>2, <2>3, <2>4 DEF Elapsed, x
<1>8. Signed((now + set[p]) % WORD) = now + set[p]
  BY <1>4, SignedOfInt
<1>9. get_timestamp_std(p) \in Int /\ get_timestamp_sys(p) \in Int
  BY <1>1, <1>2, <1>4 DEF get_timestamp_std, get_timestamp_sys
<1> QED
  BY <1>6, <1>7, <1>8, <1>9

\* What the diagrams make of a packet.
LEMMA MeaningOfAck ==
  ASSUME NEW d, Begins(d.bytes, ACK)
  PROVE  Meaning(d) = [ kind     |-> "ACK",
                        from     |-> d.from,
                        ackno    |-> Word(d.bytes, 4),
                        ts       |-> Elapsed(d.from, Word(d.bytes, 8)),
                        estimate |-> [ rtt |-> Signed(Word(d.bytes, 20)),
                                       var |-> Signed(Word(d.bytes, 24)) ] ]
<1>1. <<d.bytes[0], d.bytes[1]>> = <<BYTE \div 2, 2>>
  BY DEF Begins, Half, ACK
<1> QED
  BY <1>1, RowIsWord DEF Meaning

LEMMA MeaningOfAckAck ==
  ASSUME NEW d, Begins(d.bytes, ACKACK)
  PROVE  Meaning(d) = [ kind   |-> "ACKACK",
                        from   |-> d.from,
                        ackno  |-> Word(d.bytes, 4),
                        ts     |-> Elapsed(d.from, Word(d.bytes, 8)),
                        ts_sys |-> Signed(Elapsed(d.from, Word(d.bytes, 16))) ]
<1>1. <<d.bytes[0], d.bytes[1]>> # <<BYTE \div 2, 2>>
  BY DEF Begins, Half, ACKACK
<1> QED
  BY <1>1, RowIsWord DEF Meaning

-----------------------------------------------------------------------------
(* Copies of a buffer, whole or in part.                                   *)

\* b has the first m bytes of a.
Agree(m, a, b) == \A i \in 0 .. m - 1 : b[i] = a[i]

LEMMA SameWord ==
  ASSUME NEW m \in Nat, NEW a, NEW b, Agree(m, a, b), NEW o \in Nat, o + 4 <= m
  PROVE  Word(b, o) = Word(a, o)
<1>1. \A k \in 0 .. 3 : o + k \in 0 .. m - 1
  OBVIOUS
<1>2. \A k \in 0 .. 3 : b[o + k] = a[o + k]
  BY <1>1 DEF Agree
<1>3. b[o] = a[o] /\ b[o + 1] = a[o + 1] /\ b[o + 2] = a[o + 2] /\ b[o + 3] = a[o + 3]
  BY <1>2, o + 0 = o
<1> QED
  BY <1>3 DEF Word

LEMMA SameBeginning ==
  ASSUME NEW m \in Nat, m >= 2, NEW a, NEW b, Agree(m, a, b), NEW type, Begins(a, type)
  PROVE  Begins(b, type)
<1>1. 0 \in 0 .. m - 1 /\ 1 \in 0 .. m - 1
  OBVIOUS
<1> QED
  BY <1>1 DEF Agree, Begins

LEMMA WordOfBytes ==
  ASSUME NEW n \in Nat, NEW b \in [0 .. n - 1 -> Bytes], NEW o \in Nat, o + 4 <= n
  PROVE  Word(b, o) \in 0 .. WORD - 1
<1>1. o \in 0 .. n - 1 /\ o + 1 \in 0 .. n - 1 /\ o + 2 \in 0 .. n - 1 /\ o + 3 \in 0 .. n - 1
  OBVIOUS
<1>2. b[o] \in Bytes /\ b[o + 1] \in Bytes /\ b[o + 2] \in Bytes /\ b[o + 3] \in Bytes
  BY <1>1
<1> QED
  BY <1>2, NumberInWord DEF Word

LEMMA GetWordOfBytes ==
  ASSUME NEW n \in Nat, NEW b \in [0 .. n - 1 -> Bytes], NEW o \in Nat, o + 4 <= n
  PROVE  get_field(b, pkt_field(4, o)) = Word(b, o)
<1>1. \A i \in 0 .. 3 : o + i \in 0 .. n - 1
  OBVIOUS
<1>2. \A i \in 0 .. 3 : b[o + i] \in Bytes
  BY <1>1
<1> QED
  BY <1>2, GetWord

LEMMA ConstBuf ==
  ASSUME NEW n \in Nat, NEW m \in 0 .. n, NEW b \in [0 .. n - 1 -> Bytes]
  PROVE  const_buf(b, m) \in [0 .. m - 1 -> Bytes] /\ Agree(m, b, const_buf(b, m))
<1>1. \A i \in 0 .. m - 1 : i \in 0 .. n - 1
  OBVIOUS
<1> QED
  BY <1>1 DEF const_buf, Agree

\* What is read into a buffer is there, whatever the buffer had before.
LEMMA ReadIn ==
  ASSUME NEW p \in Peers, rbuf[p] \in Buffers, NEW m \in 0 .. BufferSize,
         NEW d, d.bytes \in [0 .. m - 1 -> Bytes]
  PROVE  Read(p, d) \in Buffers /\ Agree(m, d.bytes, Read(p, d))
<1>1. \A i \in 0 .. m - 1 : i \in 0 .. BufferSize - 1
  BY WireAssumption
<1> QED
  BY <1>1 DEF Read, Agree, Buffers

-----------------------------------------------------------------------------
(* The invariant.                                                          *)

Types ==
  /\ now \in 0 .. MaxTime
  /\ set \in [Peers -> Int] /\ \A p \in Peers : set[p] \in Corrections[p] \cup {0}
  /\ snd \in [Peers -> [pc : {"sleep", "send"}, ackno : Nat, buffer : Buffers]]
  /\ rbuf \in [Peers -> Buffers]
  /\ estimate \in [Peers -> [rtt : Ints, var : Ints]]
  /\ DOMAIN left = Peers /\ DOMAIN heard = Peers

\* A number leaves once, if at all, and not before its ACK has been made out.
Numbers ==
  \A p \in Peers :
    /\ snd[p].ackno \in 1 .. LastAckNo[p] + 1
    /\ snd[p].pc = "send" => snd[p].ackno > 1 /\ snd[p].ackno - 1 \notin DOMAIN left[p]
    /\ DOMAIN left[p] \subseteq 1 .. snd[p].ackno - 1
    /\ \A n \in DOMAIN left[p] : left[p][n] \in 0 .. now

\* The buffer of a sending thread has the ACK of the number before the next.
Drafts ==
  \A p \in Peers : snd[p].ackno > 1 => /\ Begins(snd[p].buffer, ACK)
                                       /\ Word(snd[p].buffer, 4) = snd[p].ackno - 1

IsAck(d) ==
  /\ d.bytes \in [0 .. ack_length - 1 -> Bytes] /\ Begins(d.bytes, ACK)
  /\ Word(d.bytes, 4) \in DOMAIN left[d.from]

IsAnswer(d) ==
  /\ d.bytes \in [0 .. ackack_length - 1 -> Bytes] /\ Begins(d.bytes, ACKACK)
  /\ \A p \in Peers : p # d.from =>
       /\ Word(d.bytes, 4) \in DOMAIN left[p]
       /\ left[p][Word(d.bytes, 4)] <= Elapsed(d.from, Word(d.bytes, 8))
       /\ Elapsed(d.from, Word(d.bytes, 8)) <= now

Packets == \A d \in net : d.from \in Peers /\ (IsAck(d) \/ IsAnswer(d))

\* What a receiving buffer holds behind its first byte, if that can be taken for an ACK
\* or an ACKACK, is what the last of these left there.
Leftovers ==
  \A p \in Peers : rbuf[p][1] \in {ACK, ACKACK} =>
    \E e \in net : e.from # p /\ \A i \in DOMAIN e.bytes \ {0} : rbuf[p][i] = e.bytes[i]

Inv == Types /\ Numbers /\ Drafts /\ Packets /\ Leftovers

LEMMA Lengths ==
  /\ ack_length = 44 /\ ackack_length = 20
  /\ ack_length \in 0 .. BufferSize /\ ackack_length \in 0 .. BufferSize
  /\ BufferSize \in Nat /\ BufferSize >= 44
  BY WireAssumption DEF ack_length, ackack_length

LEMMA SmallNumbers ==
  ASSUME Inv, NEW p \in Peers
  PROVE  /\ LastAckNo[p] \in Nat /\ LastAckNo[p] < WORD
         /\ snd[p].ackno \in 1 .. LastAckNo[p] + 1
  BY WireAssumption, RangeAssumption DEF Inv, Numbers

\* What BuildAck leaves in the buffer.
Made(p) ==
  LET ack == set_field(
               set_field(set_control_type(Fill(snd[p].buffer), ACK),
                         fld_timestamp, get_timestamp_std(p)),
               fld_ackno, snd[p].ackno)
      est == estimate[p]
  IN  IF est.rtt = 0 THEN ack
      ELSE set_field(set_field(ack, fld_rtt, est.rtt), fld_rttvar, est.var)

\* It is an ACK with the next number, the time, and the estimate there is.
LEMMA BufferMade ==
  ASSUME Inv, NEW p \in Peers, snd[p].ackno <= LastAckNo[p]
  PROVE  /\ Made(p) \in Buffers /\ Begins(Made(p), ACK)
         /\ Word(Made(p), 4) = snd[p].ackno /\ Elapsed(p, Word(Made(p), 8)) = now
         /\ Signed(Word(Made(p), 20)) = Talk!Announced(estimate[p]).rtt
         /\ Signed(Word(Made(p), 24)) = Talk!Announced(estimate[p]).var
<1> DEFINE k == snd[p].ackno
           ts == get_timestamp_std(p)
           est == estimate[p]
           buf == snd[p].buffer
           n == BufferSize
           ack == set_field(set_field(set_control_type(Fill(buf), ACK), fld_timestamp, ts),
                            fld_ackno, k)
           more == set_field(set_field(ack, fld_rtt, est.rtt), fld_rttvar, est.var)
<1>1. Made(p) = IF est.rtt = 0 THEN ack ELSE more
  BY DEF Made
<1>2. n \in Nat /\ n >= 44 /\ Buffers = [0 .. n - 1 -> Bytes]
  BY Lengths DEF Buffers
<1>3. buf \in [0 .. n - 1 -> Bytes] /\ est \in [rtt : Ints, var : Ints]
  BY <1>2 DEF Inv, Types
<1>4. k \in Int /\ k % WORD = k
  BY SmallNumbers, WordTypes
<1>5. ts \in Int /\ Elapsed(p, ts % WORD) = now
  BY ClocksShowTime DEF Inv, Types
<1>6. est.rtt \in Ints /\ est.var \in Ints
  BY <1>3
<1>7. est.rtt \in Int /\ est.var \in Int /\ 0 \in Ints
  BY <1>6, WordTypes DEF Ints
<1>8. /\ Signed(est.rtt % WORD) = est.rtt /\ Signed(est.var % WORD) = est.var
      /\ Signed(0) = 0
  <2>1. 0 % WORD = 0
    BY WordTypes
  <2> QED
    BY <1>6, <1>7, <2>1, SignedOfInt
<1> HIDE DEF k, ts, est, buf, n, ack
<1>9. /\ ack \in [0 .. n - 1 -> Bytes] /\ Begins(ack, ACK)
      /\ Word(ack, 4) = k % WORD /\ Word(ack, 8) = ts % WORD
      /\ Word(ack, 20) = 0 /\ Word(ack, 24) = 0
  BY <1>2, <1>3, <1>4, <1>5, AckMade DEF ack
<1>10. /\ more \in [0 .. n - 1 -> Bytes] /\ Begins(more, ACK)
       /\ Word(more, 4) = Word(ack, 4) /\ Word(more, 8) = Word(ack, 8)
       /\ Word(more, 20) = est.rtt % WORD /\ Word(more, 24) = est.var % WORD
  BY <1>2, <1>7, <1>9, EstimateAdded
<1> HIDE DEF more
<1>11. CASE est.rtt = 0
  <2>1. Talk!Announced(est) = [rtt |-> 0, var |-> 0]
    BY <1>11 DEF Talk!Announced, Talk!NoEstimate
  <2>2. Talk!Announced(est).rtt = 0 /\ Talk!Announced(est).var = 0
    BY <2>1
  <2>3. Made(p) = ack
    BY <1>1, <1>11
  <2> QED
    BY <1>2, <1>4, <1>5, <1>8, <1>9, <2>2, <2>3 DEF est, k
<1>12. CASE est.rtt # 0
  <2>1. Talk!Announced(est) = est
    BY <1>12 DEF Talk!Announced
  <2>2. Made(p) = more
    BY <1>1, <1>12
  <2> QED
    BY <1>2, <1>4, <1>5, <1>8, <1>9, <1>10, <2>1, <2>2 DEF est, k
<1> QED
  BY <1>11, <1>12

\* The ACK that leaves is the one in the buffer.
LEMMA AckLeaves ==
  ASSUME Inv, NEW p \in Peers, snd[p].pc = "send"
  PROVE  LET d == Datagram(p, snd[p].buffer, ack_length)
         IN  /\ d.from = p /\ d.bytes \in [0 .. ack_length - 1 -> Bytes]
             /\ Begins(d.bytes, ACK) /\ Word(d.bytes, 4) = snd[p].ackno - 1
             /\ get_field(snd[p].buffer, fld_ackno) = snd[p].ackno - 1
             /\ Meaning(d) = Draft(p)
<1> DEFINE buf == snd[p].buffer
           b == const_buf(buf, ack_length)
           d == Datagram(p, buf, ack_length)
           e == [from |-> p, bytes |-> buf]
<1>1. d.from = p /\ d.bytes = b /\ e.from = p /\ e.bytes = buf
  BY DEF Datagram
<1>2. buf \in [0 .. BufferSize - 1 -> Bytes]
  BY DEF Inv, Types, Buffers
<1>3. snd[p].ackno > 1 /\ Begins(buf, ACK) /\ Word(buf, 4) = snd[p].ackno - 1
  BY DEF Inv, Numbers, Drafts
<1>4. Draft(p) = Meaning(e)
  BY <1>3, SmallNumbers DEF Draft
<1> HIDE DEF buf, d, e
<1>5. b \in [0 .. ack_length - 1 -> Bytes] /\ Agree(ack_length, buf, b)
  BY <1>2, Lengths, ConstBuf
<1> HIDE DEF b
<1>6. ack_length \in Nat /\ ack_length >= 2
  BY Lengths
<1>7. Begins(b, ACK)
  BY <1>3, <1>5, <1>6, SameBeginning
<1>8. /\ 4 \in Nat /\ 8 \in Nat /\ 20 \in Nat /\ 24 \in Nat /\ 4 + 4 <= ack_length
      /\ 8 + 4 <= ack_length /\ 20 + 4 <= ack_length /\ 24 + 4 <= ack_length
  BY Lengths
<1>9. /\ Word(b, 4) = Word(buf, 4) /\ Word(b, 8) = Word(buf, 8)
      /\ Word(b, 20) = Word(buf, 20) /\ Word(b, 24) = Word(buf, 24)
  BY <1>5, <1>6, <1>8, SameWord
<1>10. Meaning(d) = Meaning(e)
  BY <1>1, <1>3, <1>7, <1>9, MeaningOfAck
<1>11. get_field(buf, fld_ackno) = Word(buf, 4)
  <2>1. 4 + 4 <= BufferSize /\ BufferSize \in Nat
    BY Lengths
  <2> QED
    BY <1>2, <1>8, <2>1, GetWordOfBytes, FieldPlaces
<1> QED
  BY <1>1, <1>3, <1>4, <1>5, <1>7, <1>9, <1>10, <1>11 DEF d, buf

\* The ACKACK that leaves has the number it was given and the two clocks.
LEMMA AnswerLeaves ==
  ASSUME Inv, NEW p \in Peers, NEW pkt, get_field(pkt, fld_ackno) \in 0 .. WORD - 1
  PROVE  LET d == Datagram(p, AnswerTo(p, pkt), ackack_length)
         IN  /\ d.from = p /\ d.bytes \in [0 .. ackack_length - 1 -> Bytes]
             /\ Begins(d.bytes, ACKACK) /\ Word(d.bytes, 4) = get_field(pkt, fld_ackno)
             /\ Elapsed(p, Word(d.bytes, 8)) = now
             /\ Signed(Elapsed(p, Word(d.bytes, 16))) = now + set[p]
<1> DEFINE k == get_field(pkt, fld_ackno)
           ts == get_timestamp_std(p)
           ts_sys == get_timestamp_sys(p)
           n == 40
           answer == set_field(
                       set_field(
                         set_field(set_control_type(Blank(n), ACKACK), fld_timestamp, ts),
                         fld_ackno, k),
                       fld_timestamp_sys, ts_sys)
           b == const_buf(answer, ackack_length)
           d == Datagram(p, AnswerTo(p, pkt), ackack_length)
<1>1. d.from = p /\ d.bytes = b
  BY DEF Datagram, AnswerTo
<1>2. k \in Int /\ k % WORD = k
  BY WordTypes
<1>3. /\ ts \in Int /\ ts_sys \in Int /\ Elapsed(p, ts % WORD) = now
      /\ Signed(Elapsed(p, ts_sys % WORD)) = now + set[p]
  BY ClocksShowTime DEF Inv, Types
<1> HIDE DEF d, k, ts, ts_sys
<1>4. /\ answer \in [0 .. n - 1 -> Bytes] /\ Begins(answer, ACKACK)
      /\ Word(answer, 4) = k % WORD /\ Word(answer, 8) = ts % WORD
      /\ Word(answer, 16) = ts_sys % WORD
  BY <1>2, <1>3, AnswerMade
<1>5. n \in Nat /\ ackack_length \in 0 .. n /\ ackack_length \in Nat /\ ackack_length >= 2
  BY Lengths
<1> HIDE DEF n, answer
<1>6. b \in [0 .. ackack_length - 1 -> Bytes] /\ Agree(ackack_length, answer, b)
  BY <1>4, <1>5, ConstBuf
<1> HIDE DEF b
<1>7. Begins(b, ACKACK)
  BY <1>4, <1>5, <1>6, SameBeginning
<1>8. /\ 4 \in Nat /\ 8 \in Nat /\ 16 \in Nat /\ 4 + 4 <= ackack_length
      /\ 8 + 4 <= ackack_length /\ 16 + 4 <= ackack_length
  BY Lengths
<1>9. /\ Word(b, 4) = Word(answer, 4) /\ Word(b, 8) = Word(answer, 8)
      /\ Word(b, 16) = Word(answer, 16)
  BY <1>5, <1>6, <1>8, SameWord
<1> QED
  BY <1>1, <1>2, <1>3, <1>4, <1>6, <1>7, <1>9 DEF d, k

\* The first two bytes of a buffer.
LEMMA FirstTwo ==
  ASSUME NEW b \in Buffers
  PROVE  b[0] \in Bytes /\ b[1] \in Bytes
<1>1. 0 \in 0 .. BufferSize - 1 /\ 1 \in 0 .. BufferSize - 1
  BY Lengths
<1> QED
  BY <1>1 DEF Buffers

\* A buffer that has an ACK of a peer, or an ACKACK, in front is taken for one, and its
\* fields are read as they are.
LEMMA AckRead ==
  ASSUME NEW b \in Buffers, NEW d, IsAck(d), Agree(ack_length, d.bytes, b)
  PROVE  /\ IsOf(ACK, b) /\ ~ IsOf(ACKACK, b)
         /\ get_field(b, fld_ackno) = Word(d.bytes, 4)
         /\ Word(d.bytes, 4) \in 0 .. WORD - 1
<1>1. d.bytes \in [0 .. ack_length - 1 -> Bytes] /\ Begins(d.bytes, ACK)
  BY DEF IsAck
<1>2. b \in Buffers /\ Agree(ack_length, d.bytes, b)
  OBVIOUS
<1>3. ack_length \in Nat /\ ack_length >= 2 /\ 4 \in Nat /\ 4 + 4 <= ack_length
  BY Lengths
<1>4. Begins(b, ACK)
  BY <1>1, <1>2, <1>3, SameBeginning
<1>5. is_ctrl(b) /\ control_type(b) = ACK
  BY <1>4, FirstTwo, GetType DEF Begins
<1>6. Word(b, 4) = Word(d.bytes, 4)
  BY <1>2, <1>3, SameWord
<1>7. get_field(b, fld_ackno) = Word(b, 4)
  <2>1. BufferSize \in Nat /\ 4 + 4 <= BufferSize
    BY Lengths
  <2> QED
    BY <1>2, <1>3, <2>1, GetWordOfBytes, FieldPlaces DEF Buffers
<1>8. Word(d.bytes, 4) \in 0 .. WORD - 1
  BY <1>1, <1>3, WordOfBytes
<1>9. ACK # ACKACK
  BY DEF ACK, ACKACK
<1> QED
  BY <1>5, <1>6, <1>7, <1>8, <1>9 DEF IsOf

LEMMA AnswerRead ==
  ASSUME NEW b \in Buffers, NEW d, IsAnswer(d), Agree(ackack_length, d.bytes, b)
  PROVE  /\ IsOf(ACKACK, b) /\ ~ IsOf(ACK, b)
         /\ get_field(b, fld_ackno) = Word(d.bytes, 4)
         /\ get_field(b, fld_timestamp) = Word(d.bytes, 8)
         /\ get_field(b, fld_timestamp_sys) = Word(d.bytes, 16)
<1>1. d.bytes \in [0 .. ackack_length - 1 -> Bytes] /\ Begins(d.bytes, ACKACK)
  BY DEF IsAnswer
<1>2. b \in Buffers /\ Agree(ackack_length, d.bytes, b)
  OBVIOUS
<1>3. /\ ackack_length \in Nat /\ ackack_length >= 2
      /\ 4 \in Nat /\ 8 \in Nat /\ 16 \in Nat /\ 4 + 4 <= ackack_length
      /\ 8 + 4 <= ackack_length /\ 16 + 4 <= ackack_length
  BY Lengths
<1>4. Begins(b, ACKACK)
  BY <1>1, <1>2, <1>3, SameBeginning
<1>5. is_ctrl(b) /\ control_type(b) = ACKACK
  BY <1>4, FirstTwo, GetType DEF Begins
<1>6. /\ Word(b, 4) = Word(d.bytes, 4) /\ Word(b, 8) = Word(d.bytes, 8)
      /\ Word(b, 16) = Word(d.bytes, 16)
  BY <1>2, <1>3, SameWord
<1>7. /\ get_field(b, fld_ackno) = Word(b, 4) /\ get_field(b, fld_timestamp) = Word(b, 8)
      /\ get_field(b, fld_timestamp_sys) = Word(b, 16)
  <2>1. /\ BufferSize \in Nat /\ 4 + 4 <= BufferSize /\ 8 + 4 <= BufferSize
        /\ 16 + 4 <= BufferSize
    BY Lengths
  <2> QED
    BY <1>2, <1>3, <2>1, GetWordOfBytes, FieldPlaces DEF Buffers
<1>9. ACK # ACKACK
  BY DEF ACK, ACKACK
<1> QED
  BY <1>5, <1>6, <1>7, <1>9 DEF IsOf

\* A datagram of a peer: how long it is, and what a buffer has after it was read.
LEMMA PacketRead ==
  ASSUME Inv, NEW p \in Peers, NEW d \in net
  PROVE  /\ d.from \in Peers /\ Read(p, d) \in Buffers /\ 0 \in DOMAIN d.bytes
         /\ DOMAIN d.bytes \subseteq 0 .. BufferSize - 1
         /\ \A i \in DOMAIN d.bytes : Read(p, d)[i] = d.bytes[i]
         /\ \/ IsAck(d) /\ Agree(ack_length, d.bytes, Read(p, d))
            \/ IsAnswer(d) /\ Agree(ackack_length, d.bytes, Read(p, d))
<1>1. d.from \in Peers /\ (IsAck(d) \/ IsAnswer(d)) /\ rbuf[p] \in Buffers
  BY DEF Inv, Packets, Types
<1>2. ASSUME NEW m \in {ack_length, ackack_length}, d.bytes \in [0 .. m - 1 -> Bytes]
      PROVE  /\ Read(p, d) \in Buffers /\ 0 \in DOMAIN d.bytes
             /\ DOMAIN d.bytes \subseteq 0 .. BufferSize - 1
             /\ \A i \in DOMAIN d.bytes : Read(p, d)[i] = d.bytes[i]
             /\ Agree(m, d.bytes, Read(p, d))
  <2>1. m \in 0 .. BufferSize /\ m >= 1 /\ DOMAIN d.bytes = 0 .. m - 1
    BY <1>2, Lengths
  <2>2. Read(p, d) \in Buffers /\ Agree(m, d.bytes, Read(p, d))
    BY <1>1, <1>2, <2>1, ReadIn
  <2>3. 0 \in 0 .. m - 1 /\ 0 .. m - 1 \subseteq 0 .. BufferSize - 1
    BY <2>1, Lengths
  <2> QED
    BY <2>1, <2>2, <2>3 DEF Agree
<1> QED
  BY <1>1, <1>2 DEF IsAck, IsAnswer

\* A datagram of somebody else either has a type of its own, or leaves all but the first
\* byte of the buffer as it was.
LEMMA StrayRead ==
  ASSUME Inv, NEW p \in Peers, NEW d \in Strays
  PROVE  /\ d.from \notin Peers /\ Read(p, d) \in Buffers
         /\ \/ Read(p, d)[1] \notin {ACK, ACKACK}
            \/ \A i \in 0 .. BufferSize - 1 : i # 0 => Read(p, d)[i] = rbuf[p][i]
<1>1. PICK n \in 0 .. BufferSize :
        /\ d.bytes \in [0 .. n - 1 -> Bytes] /\ d.from \notin Peers
        /\ n > 1 => d.bytes[1] \notin {ACK, ACKACK}
  BY WireAssumption
<1>2. rbuf[p] \in Buffers /\ DOMAIN rbuf[p] = 0 .. BufferSize - 1
  BY DEF Inv, Types, Buffers
<1>3. Read(p, d) \in Buffers /\ Agree(n, d.bytes, Read(p, d))
  BY <1>1, <1>2, ReadIn
<1>4. CASE n > 1
  <2>1. 1 \in 0 .. n - 1
    BY <1>4
  <2> QED
    BY <1>1, <1>3, <1>4, <2>1 DEF Agree
<1>5. CASE ~ (n > 1)
  <2>1. \A i \in 0 .. BufferSize - 1 : i # 0 => i \notin DOMAIN d.bytes
    BY <1>1, <1>5
  <2>2. \A i \in 0 .. BufferSize - 1 : i # 0 => Read(p, d)[i] = rbuf[p][i]
    BY <1>2, <2>1 DEF Read
  <2> QED
    BY <1>1, <1>3, <2>2
<1> QED
  BY <1>4, <1>5

\* So what the buffer holds after a datagram was read is what it is said to hold.
LEMMA ReadLeftovers ==
  ASSUME Inv, NEW p \in Peers, NEW d \in net \cup Strays, d.from # p,
         Read(p, d)[1] \in {ACK, ACKACK}
  PROVE  \E e \in net : e.from # p /\ \A i \in DOMAIN e.bytes \ {0} :
                                          Read(p, d)[i] = e.bytes[i]
<1>1. CASE d \in net
  BY <1>1, PacketRead
<1>2. CASE d \in Strays
  <2>1. \A i \in 0 .. BufferSize - 1 : i # 0 => Read(p, d)[i] = rbuf[p][i]
    BY <1>2, StrayRead
  <2>2. 1 \in 0 .. BufferSize - 1 /\ 1 # 0
    BY Lengths
  <2>3. rbuf[p][1] \in {ACK, ACKACK}
    BY <2>1, <2>2
  <2>4. PICK e \in net : e.from # p /\ \A i \in DOMAIN e.bytes \ {0} : rbuf[p][i] = e.bytes[i]
    BY <2>3 DEF Inv, Leftovers
  <2>5. DOMAIN e.bytes \subseteq 0 .. BufferSize - 1
    BY PacketRead
  <2> QED
    BY <2>1, <2>4, <2>5
<1> QED
  BY <1>1, <1>2

LEMMA ReadBuffer ==
  ASSUME Inv, NEW p \in Peers, NEW d \in net \cup Strays
  PROVE  Read(p, d) \in Buffers
  BY PacketRead, StrayRead

\* What is taken for an ACK or an ACKACK is one, of the other peer: the one just read,
\* or, when the first byte of a stray has taken the place of its first, the one before.
LEMMA Took ==
  ASSUME Inv, NEW p \in Peers, NEW d \in net \cup Strays, d.from # p,
         NEW type \in {ACK, ACKACK}, IsTaken(type, p, d)
  PROVE  \E e \in net : /\ e.from \in Peers /\ e.from # p
                        /\ \/ /\ type = ACK /\ IsAck(e)
                              /\ Agree(ack_length, e.bytes, Read(p, d))
                           \/ /\ type = ACKACK /\ IsAnswer(e)
                              /\ Agree(ackack_length, e.bytes, Read(p, d))
<1> DEFINE b == Read(p, d)
<1>1. b \in Buffers
  BY ReadBuffer
<1>2. b[0] = Half /\ b[1] = type
  <2>1. is_ctrl(b) /\ control_type(b) = type
    BY DEF IsTaken, IsOf
  <2>2. b[0] \in Bytes /\ b[1] \in Bytes
    BY <1>1, FirstTwo
  <2> HIDE DEF b
  <2> QED
    BY <2>1, <2>2, GetType
<1>3. PICK e \in net : e.from # p /\ \A i \in DOMAIN e.bytes \ {0} : b[i] = e.bytes[i]
  BY <1>2, ReadLeftovers
<1> HIDE DEF b
<1>4. e.from \in Peers /\ (IsAck(e) \/ IsAnswer(e))
  BY DEF Inv, Packets
<1>5. ACK # ACKACK
  BY DEF ACK, ACKACK
<1>6. CASE IsAck(e)
  <2>1. /\ DOMAIN e.bytes = 0 .. ack_length - 1 /\ e.bytes[0] = Half /\ e.bytes[1] = ACK
        /\ 1 \in 0 .. ack_length - 1
    BY <1>6, Lengths DEF IsAck, Begins
  <2>2. type = ACK /\ Agree(ack_length, e.bytes, b)
    BY <1>2, <1>3, <2>1 DEF Agree
  <2> QED
    BY <1>3, <1>4, <1>6, <2>2 DEF b
<1>7. CASE IsAnswer(e)
  <2>1. /\ DOMAIN e.bytes = 0 .. ackack_length - 1 /\ e.bytes[0] = Half
        /\ e.bytes[1] = ACKACK /\ 1 \in 0 .. ackack_length - 1
    BY <1>7, Lengths DEF IsAnswer, Begins
  <2>2. type = ACKACK /\ Agree(ackack_length, e.bytes, b)
    BY <1>2, <1>3, <2>1 DEF Agree
  <2> QED
    BY <1>3, <1>4, <1>7, <2>2 DEF b
<1> QED
  BY <1>4, <1>6, <1>7

-----------------------------------------------------------------------------
(* The invariant holds.                                                    *)

LEMMA InitInv == Init => Inv
<1> SUFFICES ASSUME Init PROVE Inv
  OBVIOUS
<1>1. Blank(BufferSize) \in Buffers
  BY ByteTypes DEF Blank, Buffers, Bytes
<1>2. 0 \in 0 .. MaxTime /\ 0 \in Ints
  <2>1. BYTE * BYTE \in Nat /\ WORD >= 2
    <3>1. BYTE * BYTE >= 2 /\ BYTE * BYTE \in Nat
      BY ByteTypes
    <3>2. (BYTE * BYTE) * BYTE >= 2 /\ (BYTE * BYTE) * BYTE \in Nat
      BY <3>1, ByteTypes
    <3> QED
      BY <3>1, <3>2, ByteTypes, WordTypes
  <2> QED
    BY <2>1, WireAssumption, WordTypes DEF Ints
<1>3. Types
  BY <1>1, <1>2 DEF Init, Types
<1>4. Numbers
  BY WireAssumption DEF Init, Numbers
<1>5. Drafts /\ Packets
  BY DEF Init, Drafts, Packets
<1>6. Leftovers
  <2>1. 1 \in 0 .. BufferSize - 1 /\ 0 \notin {ACK, ACKACK}
    BY Lengths DEF ACK, ACKACK
  <2>2. \A p \in Peers : rbuf[p][1] = 0
    BY <2>1 DEF Init, Blank
  <2> QED
    BY <2>1, <2>2 DEF Leftovers
<1> QED
  BY <1>3, <1>4, <1>5, <1>6 DEF Inv

\* As long as no datagram is read and none is taken back, the buffers hold what they held.
LEMMA LeftoversKept ==
  ASSUME Leftovers, rbuf' = rbuf, net \subseteq net'
  PROVE  Leftovers'
<1> SUFFICES ASSUME NEW p \in Peers, rbuf[p][1] \in {ACK, ACKACK}
             PROVE  \E e \in net' : e.from # p /\ \A i \in DOMAIN e.bytes \ {0} :
                                                      rbuf[p][i] = e.bytes[i]
  BY DEF Leftovers
<1> QED
  BY DEF Leftovers

\* And after one is read.
LEMMA LeftoversRead ==
  ASSUME Inv, NEW p \in Peers, NEW d \in net \cup Strays, d.from # p,
         rbuf' = [rbuf EXCEPT ![p] = Read(p, d)], net \subseteq net'
  PROVE  Leftovers'
<1> SUFFICES ASSUME NEW q \in Peers, rbuf'[q][1] \in {ACK, ACKACK}
             PROVE  \E e \in net' : e.from # q /\ \A i \in DOMAIN e.bytes \ {0} :
                                                      rbuf'[q][i] = e.bytes[i]
  BY DEF Leftovers
<1>1. rbuf'[p] = Read(p, d) /\ \A r \in Peers : r # p => rbuf'[r] = rbuf[r]
  BY DEF Inv, Types
<1>2. CASE q = p
  BY <1>1, <1>2, ReadLeftovers
<1>3. CASE q # p
  BY <1>1, <1>3 DEF Inv, Leftovers
<1> QED
  BY <1>2, <1>3

\* What the packets say stays true when time goes on.
LEMMA TickInv ==
  ASSUME Inv, Tick
  PROVE  Inv'
<1>1. /\ now \in Int /\ now < MaxTime /\ now' = now + 1 /\ MaxTime \in Int /\ now >= 0
      /\ UNCHANGED <<set, snd, rbuf, estimate, net, left, heard>>
  BY WireAssumption DEF Inv, Types, Tick
<1>2. Types'
  BY <1>1 DEF Inv, Types, Buffers
<1>3. Numbers'
  <2>1. \A n \in 0 .. now : n \in 0 .. now'
    BY <1>1
  <2> QED
    BY <1>1, <2>1 DEF Inv, Numbers
<1>4. Drafts'
  BY <1>1 DEF Inv, Drafts, Begins, Word, Number
<1>5. Packets'
  <2> SUFFICES ASSUME NEW d \in net
               PROVE  d.from \in Peers /\ (IsAck(d)' \/ IsAnswer(d)')
    BY <1>1 DEF Packets
  <2>1. d.from \in Peers /\ (IsAck(d) \/ IsAnswer(d))
    BY DEF Inv, Packets
  <2>2. CASE IsAck(d)
    BY <1>1, <2>1, <2>2 DEF IsAck
  <2>3. CASE IsAnswer(d)
    <3> DEFINE e == Elapsed(d.from, Word(d.bytes, 8))
    <3>1. e \in Int
      <4>1. /\ 8 \in Nat /\ 8 + 4 <= ackack_length /\ ackack_length \in Nat
            /\ d.bytes \in [0 .. ackack_length - 1 -> Bytes]
        BY <2>3, Lengths DEF IsAnswer
      <4>2. Word(d.bytes, 8) \in Int
        BY <4>1, WordOfBytes, WordTypes
      <4> QED
        BY <2>1, <4>2, WordTypes, WireAssumption DEF Elapsed
    <3>2. e <= now => e <= now'
      BY <1>1, <3>1
    <3>3. e' = e
      BY DEF Elapsed, Word, Number, WORD
    <3> DEFINE k == Word(d.bytes, 4)
    <3>4. k' = k
      OBVIOUS
    <3>5. /\ d.bytes \in [0 .. ackack_length - 1 -> Bytes] /\ Begins(d.bytes, ACKACK)
          /\ \A p \in Peers : p # d.from =>
               k \in DOMAIN left[p] /\ left[p][k] <= e /\ e <= now
      BY <2>3 DEF IsAnswer
    <3> HIDE DEF e, k
    <3>6. \A p \in Peers : p # d.from =>
             k \in DOMAIN left'[p] /\ left'[p][k] <= e /\ e <= now'
      BY <1>1, <3>2, <3>5
    <3>7. IsAnswer(d)'
      BY <1>1, <3>5, <3>6 DEF IsAnswer, e, k
    <3> QED
      BY <2>1, <3>7
  <2> QED
    BY <2>1, <2>2, <2>3
<1>6. Leftovers'
  BY <1>1, LeftoversKept DEF Inv
<1> QED
  BY <1>2, <1>3, <1>4, <1>5, <1>6 DEF Inv

LEMMA SetClockInv ==
  ASSUME Inv, NEW p \in Peers, NEW c \in Corrections[p], SetClock(p, c)
  PROVE  Inv'
<1>1. /\ set' = [set EXCEPT ![p] = c]
      /\ UNCHANGED <<now, snd, rbuf, estimate, net, left, heard>>
  BY DEF SetClock
<1>2. c \in Int
  BY WireAssumption
<1>3. Types'
  BY <1>1, <1>2 DEF Inv, Types
<1>4. Numbers' /\ Drafts' /\ Packets'
  BY <1>1 DEF Inv, Numbers, Drafts, Packets, IsAck, IsAnswer
<1>5. Leftovers'
  BY <1>1, LeftoversKept DEF Inv
<1> QED
  BY <1>3, <1>4, <1>5 DEF Inv

\* BuildAck, with the buffer by its name.
LEMMA BuildAckStep ==
  ASSUME Inv, NEW p \in Peers, BuildAck(p)
  PROVE  /\ snd[p].pc = "sleep" /\ snd[p].ackno <= LastAckNo[p]
         /\ snd' = [snd EXCEPT ![p] = [ pc |-> "send", ackno |-> snd[p].ackno + 1,
                                        buffer |-> Made(p) ]]
         /\ UNCHANGED <<now, set, rbuf, estimate, net, left, heard>>
  BY DEF BuildAck, Made

LEMMA BuildAckInv ==
  ASSUME Inv, NEW p \in Peers, BuildAck(p)
  PROVE  Inv'
<1> DEFINE k == snd[p].ackno
           new == [pc |-> "send", ackno |-> k + 1, buffer |-> Made(p)]
<1>1. /\ k <= LastAckNo[p] /\ snd' = [snd EXCEPT ![p] = new]
      /\ UNCHANGED <<now, set, rbuf, estimate, net, left, heard>>
  BY BuildAckStep
<1>2. LastAckNo[p] \in Nat /\ k \in Nat /\ k >= 1
  BY SmallNumbers
<1>3. Made(p) \in Buffers /\ Begins(Made(p), ACK) /\ Word(Made(p), 4) = k
  BY <1>1, BufferMade
<1>4. new.pc = "send" /\ new.ackno = k + 1 /\ new.buffer = Made(p)
  OBVIOUS
<1>5. new \in [pc : {"sleep", "send"}, ackno : Nat, buffer : Buffers]
  BY <1>2, <1>3
<1> HIDE DEF new, k
<1>6. snd'[p] = new /\ \A q \in Peers : q # p => snd'[q] = snd[q]
  BY <1>1 DEF Inv, Types
<1>7. Types'
  BY <1>1, <1>5 DEF Inv, Types, Buffers
<1>8. Numbers'
  <2> SUFFICES ASSUME NEW q \in Peers
               PROVE  /\ snd'[q].ackno \in 1 .. LastAckNo[q] + 1
                      /\ snd'[q].pc = "send" => /\ snd'[q].ackno > 1
                                                /\ snd'[q].ackno - 1 \notin DOMAIN left[q]
                      /\ DOMAIN left[q] \subseteq 1 .. snd'[q].ackno - 1
                      /\ \A n \in DOMAIN left[q] : left[q][n] \in 0 .. now
    BY <1>1 DEF Numbers
  <2>1. CASE q = p
    <3>1. k + 1 \in 1 .. LastAckNo[p] + 1 /\ k + 1 > 1 /\ (k + 1) - 1 = k
      BY <1>1, <1>2
    <3>2. DOMAIN left[p] \subseteq 1 .. k - 1 /\ \A n \in DOMAIN left[p] : left[p][n] \in 0 .. now
      BY DEF Inv, Numbers, k
    <3>3. k \notin DOMAIN left[p] /\ DOMAIN left[p] \subseteq 1 .. k
      BY <1>2, <3>2
    <3> QED
      BY <1>4, <1>6, <2>1, <3>1, <3>2, <3>3
  <2>2. CASE q # p
    BY <1>6, <2>2 DEF Inv, Numbers
  <2> QED
    BY <2>1, <2>2
<1>9. Drafts'
  <2> SUFFICES ASSUME NEW q \in Peers, snd'[q].ackno > 1
               PROVE  /\ Begins(snd'[q].buffer, ACK)
                      /\ Word(snd'[q].buffer, 4) = snd'[q].ackno - 1
    BY DEF Drafts, Begins, Word, Number
  <2>1. CASE q = p
    <3>1. (k + 1) - 1 = k
      BY <1>2
    <3> QED
      BY <1>3, <1>4, <1>6, <2>1, <3>1
  <2>2. CASE q # p
    BY <1>6, <2>2 DEF Inv, Drafts
  <2> QED
    BY <2>1, <2>2
<1>10. Packets'
  BY <1>1 DEF Inv, Packets, IsAck, IsAnswer
<1>11. Leftovers'
  BY <1>1, LeftoversKept DEF Inv
<1> QED
  BY <1>7, <1>8, <1>9, <1>10, <1>11 DEF Inv

LEMMA SendAckStep ==
  ASSUME Inv, NEW p \in Peers, SendAck(p)
  PROVE  LET k == snd[p].ackno - 1
             d == Datagram(p, snd[p].buffer, ack_length)
         IN  /\ k \in 1 .. LastAckNo[p] /\ k \notin DOMAIN left[p]
             /\ d.from = p /\ d.bytes \in [0 .. ack_length - 1 -> Bytes]
             /\ Begins(d.bytes, ACK) /\ Word(d.bytes, 4) = k
             /\ Meaning(d) = Draft(p) /\ net' = net \cup {d}
             /\ left' = [left EXCEPT ![p] = Extend(left[p], k, now)]
             /\ snd' = [snd EXCEPT ![p] = [snd[p] EXCEPT !.pc = "sleep"]]
             /\ UNCHANGED <<now, set, rbuf, estimate, heard>>
<1> DEFINE k == snd[p].ackno - 1
           d == Datagram(p, snd[p].buffer, ack_length)
<1>1. snd[p].pc = "send"
  BY DEF SendAck
<1>2. k \in 1 .. LastAckNo[p] /\ k \notin DOMAIN left[p]
  BY <1>1, SmallNumbers DEF Inv, Numbers
<1>3. /\ d.from = p /\ d.bytes \in [0 .. ack_length - 1 -> Bytes]
      /\ Begins(d.bytes, ACK) /\ Word(d.bytes, 4) = k
      /\ get_field(snd[p].buffer, fld_ackno) = k /\ Meaning(d) = Draft(p)
  BY <1>1, AckLeaves
<1>4. /\ net' = net \cup {d}
      /\ left' = [left EXCEPT ![p] = Extend(left[p], get_field(snd[p].buffer, fld_ackno), now)]
      /\ snd' = [snd EXCEPT ![p] = [snd[p] EXCEPT !.pc = "sleep"]]
      /\ UNCHANGED <<now, set, rbuf, estimate, heard>>
  BY DEF SendAck
<1> HIDE DEF d, k
<1>5. left' = [left EXCEPT ![p] = Extend(left[p], k, now)]
  BY <1>3, <1>4
<1> QED
  BY <1>2, <1>3, <1>4, <1>5 DEF d, k

\* One more number has left: those that had stay where they are.
LEMMA LeftGrows ==
  ASSUME DOMAIN left = Peers, NEW p \in Peers, NEW k, k \notin DOMAIN left[p],
         left' = [left EXCEPT ![p] = Extend(left[p], k, now)]
  PROVE  /\ DOMAIN left' = Peers
         /\ DOMAIN left'[p] = DOMAIN left[p] \cup {k} /\ left'[p][k] = now
         /\ \A q \in Peers : q # p => left'[q] = left[q]
         /\ \A q \in Peers : \A n \in DOMAIN left[q] :
               n \in DOMAIN left'[q] /\ (left'[q][n] = left[q][n])
<1> DEFINE longer == Extend(left[p], k, now)
<1>1. /\ DOMAIN longer = DOMAIN left[p] \cup {k} /\ longer[k] = now
      /\ \A n \in DOMAIN left[p] : longer[n] = left[p][n]
  BY DEF Extend
<1> HIDE DEF longer
<1>2. /\ DOMAIN left' = Peers /\ left'[p] = longer
      /\ \A q \in Peers : q # p => left'[q] = left[q]
  BY DEF longer
<1>3. ASSUME NEW q \in Peers, NEW n \in DOMAIN left[q]
      PROVE  n \in DOMAIN left'[q] /\ (left'[q][n] = left[q][n])
  <2>1. CASE q = p
    BY <1>1, <1>2, <2>1
  <2>2. CASE q # p
    BY <1>2, <2>2
  <2> QED
    BY <2>1, <2>2
<1> QED
  BY <1>1, <1>2, <1>3

LEMMA SendAckInv ==
  ASSUME Inv, NEW p \in Peers, SendAck(p)
  PROVE  Inv'
<1> DEFINE k == snd[p].ackno - 1
           d == Datagram(p, snd[p].buffer, ack_length)
           new == [snd[p] EXCEPT !.pc = "sleep"]
<1>1. /\ k \in 1 .. LastAckNo[p] /\ k \notin DOMAIN left[p]
      /\ d.from = p /\ d.bytes \in [0 .. ack_length - 1 -> Bytes]
      /\ Begins(d.bytes, ACK) /\ Word(d.bytes, 4) = k
      /\ net' = net \cup {d} /\ left' = [left EXCEPT ![p] = Extend(left[p], k, now)]
      /\ snd' = [snd EXCEPT ![p] = new]
      /\ UNCHANGED <<now, set, rbuf, estimate, heard>>
  BY SendAckStep
<1>2. snd[p] \in [pc : {"sleep", "send"}, ackno : Nat, buffer : Buffers]
  BY DEF Inv, Types
<1>3. /\ new \in [pc : {"sleep", "send"}, ackno : Nat, buffer : Buffers]
      /\ new.pc = "sleep" /\ new.ackno = snd[p].ackno /\ new.buffer = snd[p].buffer
  BY <1>2
<1> HIDE DEF d, new
<1>4. snd'[p] = new /\ \A q \in Peers : q # p => snd'[q] = snd[q]
  BY <1>1 DEF Inv, Types
<1>5. \A q \in Peers : snd'[q].ackno = snd[q].ackno /\ snd'[q].buffer = snd[q].buffer
  BY <1>3, <1>4
<1>6. /\ DOMAIN left' = Peers
      /\ DOMAIN left'[p] = DOMAIN left[p] \cup {k} /\ left'[p][k] = now
      /\ \A q \in Peers : q # p => left'[q] = left[q]
      /\ \A q \in Peers : \A n \in DOMAIN left[q] :
            n \in DOMAIN left'[q] /\ (left'[q][n] = left[q][n])
  BY <1>1, LeftGrows DEF Inv, Types
<1>7. Types'
  BY <1>1, <1>3, <1>6 DEF Inv, Types, Buffers
<1>8. Numbers'
  <2>1. now \in 0 .. now
    BY WireAssumption DEF Inv, Types
  <2> SUFFICES ASSUME NEW q \in Peers
               PROVE  /\ snd[q].ackno \in 1 .. LastAckNo[q] + 1
                      /\ snd'[q].pc = "send" => /\ snd[q].ackno > 1
                                                /\ snd[q].ackno - 1 \notin DOMAIN left'[q]
                      /\ DOMAIN left'[q] \subseteq 1 .. snd[q].ackno - 1
                      /\ \A n \in DOMAIN left'[q] : left'[q][n] \in 0 .. now
    BY <1>1, <1>5 DEF Numbers
  <2>2. CASE q = p
    <3>1. /\ snd[p].ackno \in 1 .. LastAckNo[p] + 1
          /\ DOMAIN left[p] \subseteq 1 .. snd[p].ackno - 1
          /\ \A n \in DOMAIN left[p] : left[p][n] \in 0 .. now
      BY DEF Inv, Numbers
    <3>2. k \in 1 .. snd[p].ackno - 1
      BY <1>1
    <3>3. \A n \in DOMAIN left'[p] : left'[p][n] \in 0 .. now
      BY <1>6, <2>1, <3>1
    <3> QED
      BY <1>3, <1>4, <1>6, <2>2, <3>1, <3>2, <3>3
  <2>3. CASE q # p
    BY <1>4, <1>6, <2>3 DEF Inv, Numbers
  <2> QED
    BY <2>2, <2>3
<1>9. Drafts'
  <2> SUFFICES ASSUME NEW q \in Peers, snd'[q].ackno > 1
               PROVE  /\ Begins(snd'[q].buffer, ACK)
                      /\ Word(snd'[q].buffer, 4) = snd'[q].ackno - 1
    BY DEF Drafts, Begins, Word, Number
  <2> QED
    BY <1>5 DEF Inv, Drafts
<1>10. Packets'
  <2> SUFFICES ASSUME NEW c \in net'
               PROVE  c.from \in Peers /\ (IsAck(c)' \/ IsAnswer(c)')
    BY DEF Packets
  <2>1. CASE c \in net
    <3>1. c.from \in Peers /\ (IsAck(c) \/ IsAnswer(c))
      BY <2>1 DEF Inv, Packets
    <3>2. IsAck(c) => IsAck(c)'
      BY <1>6, <3>1 DEF IsAck
    <3>3. IsAnswer(c) => IsAnswer(c)'
      BY <1>1, <1>6 DEF IsAnswer
    <3> QED
      BY <3>1, <3>2, <3>3
  <2>2. CASE c = d
    <3>1. IsAck(c)'
      BY <1>1, <1>6, <2>2 DEF IsAck
    <3> QED
      BY <1>1, <2>2, <3>1
  <2> QED
    BY <1>1, <2>1, <2>2
<1>11. Leftovers'
  BY <1>1, LeftoversKept DEF Inv
<1> QED
  BY <1>7, <1>8, <1>9, <1>10, <1>11 DEF Inv

LEMMA SendShortInv ==
  ASSUME Inv, NEW p \in Peers, SendShort(p)
  PROVE  Inv'
<1> DEFINE new == [snd[p] EXCEPT !.pc = "sleep"]
<1>1. /\ snd' = [snd EXCEPT ![p] = new]
      /\ UNCHANGED <<now, set, rbuf, estimate, net, left, heard>>
  BY DEF SendShort
<1>2. snd[p] \in [pc : {"sleep", "send"}, ackno : Nat, buffer : Buffers]
  BY DEF Inv, Types
<1>3. /\ new \in [pc : {"sleep", "send"}, ackno : Nat, buffer : Buffers]
      /\ new.pc = "sleep" /\ new.ackno = snd[p].ackno /\ new.buffer = snd[p].buffer
  BY <1>2
<1> HIDE DEF new
<1>4. snd'[p] = new /\ \A q \in Peers : q # p => snd'[q] = snd[q]
  BY <1>1 DEF Inv, Types
<1>5. \A q \in Peers : snd'[q].ackno = snd[q].ackno /\ snd'[q].buffer = snd[q].buffer
  BY <1>3, <1>4
<1>6. \A q \in Peers : snd'[q].pc = "send" => snd[q].pc = "send"
  BY <1>3, <1>4
<1>7. Types'
  BY <1>1, <1>3 DEF Inv, Types, Buffers
<1>8. Numbers'
  BY <1>1, <1>5, <1>6 DEF Inv, Numbers
<1>9. Drafts'
  <2> SUFFICES ASSUME NEW q \in Peers, snd'[q].ackno > 1
               PROVE  /\ Begins(snd'[q].buffer, ACK)
                      /\ Word(snd'[q].buffer, 4) = snd'[q].ackno - 1
    BY DEF Drafts, Begins, Word, Number
  <2> QED
    BY <1>5 DEF Inv, Drafts
<1>10. Packets'
  BY <1>1 DEF Inv, Packets, IsAck, IsAnswer
<1>11. Leftovers'
  BY <1>1, LeftoversKept DEF Inv
<1> QED
  BY <1>7, <1>8, <1>9, <1>10, <1>11 DEF Inv

LEMMA OtherPeer ==
  ASSUME NEW p \in Peers, NEW q \in Peers, p # q
  PROVE  Other(p) = q /\ \A r \in Peers : r # p => r = q
<1>1. \A r \in Peers : r # p => r = q
  BY TwoPeersAssumption
<1>2. \A r : r # p /\ r \in Peers => r = q
  BY <1>1
<1>3. Other(p) = q
  BY <1>2, TwoPeersAssumption DEF Other
<1> QED
  BY <1>1, <1>3

LEMMA ReceiveAckStep ==
  ASSUME Inv, NEW p \in Peers, NEW d \in net \cup Strays, ReceiveAck(p, d)
  PROVE  LET a == Datagram(p, AnswerTo(p, Read(p, d)), ackack_length)
         IN  /\ d.from # p /\ Read(p, d) \in Buffers
             /\ rbuf' = [rbuf EXCEPT ![p] = Read(p, d)]
             /\ a.from = p /\ a.bytes \in [0 .. ackack_length - 1 -> Bytes]
             /\ Begins(a.bytes, ACKACK)
             /\ \E e \in net : /\ e.from \in Peers /\ e.from # p /\ IsAck(e)
                               /\ Word(a.bytes, 4) = Word(e.bytes, 4)
             /\ Elapsed(p, Word(a.bytes, 8)) = now
             /\ Signed(Elapsed(p, Word(a.bytes, 16))) = now + set[p]
             /\ net' = net \cup {a}
             /\ UNCHANGED <<now, set, snd, estimate, left, heard>>
<1> DEFINE pkt == Read(p, d)
           a == Datagram(p, AnswerTo(p, pkt), ackack_length)
<1>1. /\ d.from # p /\ IsTaken(ACK, p, d) /\ rbuf' = [rbuf EXCEPT ![p] = pkt]
      /\ net' = net \cup {a} /\ UNCHANGED <<now, set, snd, estimate, left, heard>>
  BY DEF ReceiveAck, Receive
<1>2. PICK e \in net : /\ e.from \in Peers /\ e.from # p /\ IsAck(e)
                       /\ Agree(ack_length, e.bytes, pkt)
  <2>1. ACK # ACKACK
    BY DEF ACK, ACKACK
  <2> QED
    BY <1>1, <2>1, Took
<1>3. pkt \in Buffers
  BY ReadBuffer
<1> HIDE DEF pkt
<1>4. /\ get_field(pkt, fld_ackno) = Word(e.bytes, 4)
      /\ Word(e.bytes, 4) \in 0 .. WORD - 1
  BY <1>2, <1>3, AckRead
<1>5. /\ a.from = p /\ a.bytes \in [0 .. ackack_length - 1 -> Bytes]
      /\ Begins(a.bytes, ACKACK) /\ Word(a.bytes, 4) = get_field(pkt, fld_ackno)
      /\ Elapsed(p, Word(a.bytes, 8)) = now
      /\ Signed(Elapsed(p, Word(a.bytes, 16))) = now + set[p]
  BY <1>4, AnswerLeaves
<1> HIDE DEF a
<1>6. \E c \in net : /\ c.from \in Peers /\ c.from # p /\ IsAck(c)
                     /\ Word(a.bytes, 4) = Word(c.bytes, 4)
  BY <1>2, <1>4, <1>5
<1> QED
  BY <1>1, <1>3, <1>5, <1>6 DEF pkt, a

LEMMA ReceiveAckInv ==
  ASSUME Inv, NEW p \in Peers, NEW d \in net \cup Strays, ReceiveAck(p, d)
  PROVE  Inv'
<1> DEFINE a == Datagram(p, AnswerTo(p, Read(p, d)), ackack_length)
           k == Word(a.bytes, 4)
           e == Elapsed(p, Word(a.bytes, 8))
<1>0. /\ d.from # p
      /\ Read(p, d) \in Buffers /\ rbuf' = [rbuf EXCEPT ![p] = Read(p, d)]
      /\ a.from = p /\ a.bytes \in [0 .. ackack_length - 1 -> Bytes]
      /\ Begins(a.bytes, ACKACK) /\ e = now
      /\ \E c \in net : c.from \in Peers /\ c.from # p /\ IsAck(c) /\ k = Word(c.bytes, 4)
      /\ net' = net \cup {a}
      /\ UNCHANGED <<now, set, snd, estimate, left, heard>>
  BY ReceiveAckStep
<1> HIDE DEF a
<1>1. PICK r \in Peers : r # p /\ k \in DOMAIN left[r]
  BY <1>0 DEF IsAck
<1>2. Types'
  BY <1>0 DEF Inv, Types, Buffers
<1>3. Numbers' /\ Drafts'
  BY <1>0 DEF Inv, Numbers, Drafts
<1>4. now \in Int
  BY WireAssumption DEF Inv, Types
<1>5. IsAnswer(a)
  <2>1. \A q \in Peers : q # p => q = r
    BY <1>1, OtherPeer
  <2>2. left[r][k] \in Int /\ left[r][k] <= now
    BY <1>1, <1>4 DEF Inv, Numbers
  <2> HIDE DEF k, e
  <2>3. \A q \in Peers : q # a.from => k \in DOMAIN left[q] /\ left[q][k] <= e /\ e <= now
    BY <1>0, <1>1, <1>4, <2>1, <2>2
  <2> QED
    BY <1>0, <2>3 DEF IsAnswer, e, k
<1>6. Packets'
  <2> SUFFICES ASSUME NEW c \in net'
               PROVE  c.from \in Peers /\ (IsAck(c) \/ IsAnswer(c))
    BY <1>0 DEF Packets, IsAck, IsAnswer
  <2>1. CASE c \in net
    BY <2>1 DEF Inv, Packets
  <2>2. CASE c = a
    BY <1>0, <1>5, <2>2
  <2> QED
    BY <1>0, <2>1, <2>2
<1>7. Leftovers'
  <2>1. net \subseteq net'
    BY <1>0
  <2> QED
    BY <1>0, <2>1, LeftoversRead
<1> QED
  BY <1>2, <1>3, <1>6, <1>7 DEF Inv

LEMMA ReceiveAckAckStep ==
  ASSUME Inv, NEW p \in Peers, NEW d \in net \cup Strays, NEW est \in Estimates,
         ReceiveAckAck(p, d, est)
  PROVE  /\ d.from # p /\ Read(p, d) \in Buffers
         /\ rbuf' = [rbuf EXCEPT ![p] = Read(p, d)]
         /\ \E e \in net : /\ e.from \in Peers /\ e.from # p /\ IsAnswer(e)
                           /\ heard' = [heard EXCEPT ![p] = [ ackno  |-> Word(e.bytes, 4),
                                                              ts     |-> Word(e.bytes, 8),
                                                              ts_sys |-> Word(e.bytes, 16) ]]
         /\ estimate' = [estimate EXCEPT ![p] = est]
         /\ UNCHANGED <<now, set, snd, net, left>>
<1> DEFINE pkt == Read(p, d)
<1>1. /\ d.from # p /\ IsTaken(ACKACK, p, d) /\ rbuf' = [rbuf EXCEPT ![p] = pkt]
      /\ heard' = [heard EXCEPT ![p] = [ ackno  |-> get_field(pkt, fld_ackno),
                                         ts     |-> get_field(pkt, fld_timestamp),
                                         ts_sys |-> get_field(pkt, fld_timestamp_sys) ]]
      /\ estimate' = [estimate EXCEPT ![p] = est]
      /\ UNCHANGED <<now, set, snd, net, left>>
  BY DEF ReceiveAckAck, Receive
<1>2. PICK e \in net : /\ e.from \in Peers /\ e.from # p /\ IsAnswer(e)
                       /\ Agree(ackack_length, e.bytes, pkt)
  <2>1. ACK # ACKACK
    BY DEF ACK, ACKACK
  <2> QED
    BY <1>1, <2>1, Took
<1>3. pkt \in Buffers
  BY ReadBuffer
<1> HIDE DEF pkt
<1>4. /\ get_field(pkt, fld_ackno) = Word(e.bytes, 4)
      /\ get_field(pkt, fld_timestamp) = Word(e.bytes, 8)
      /\ get_field(pkt, fld_timestamp_sys) = Word(e.bytes, 16)
  BY <1>2, <1>3, AnswerRead
<1>5. \E c \in net : /\ c.from \in Peers /\ c.from # p /\ IsAnswer(c)
                     /\ heard' = [heard EXCEPT ![p] = [ ackno  |-> Word(c.bytes, 4),
                                                        ts     |-> Word(c.bytes, 8),
                                                        ts_sys |-> Word(c.bytes, 16) ]]
  BY <1>1, <1>2, <1>4
<1> QED
  BY <1>1, <1>3, <1>5 DEF pkt

LEMMA ReceiveAckAckInv ==
  ASSUME Inv, NEW p \in Peers, NEW d \in net \cup Strays, NEW est \in Estimates,
         ReceiveAckAck(p, d, est)
  PROVE  Inv'
<1>1. /\ d.from # p
      /\ Read(p, d) \in Buffers /\ rbuf' = [rbuf EXCEPT ![p] = Read(p, d)]
      /\ DOMAIN heard' = DOMAIN heard /\ estimate' = [estimate EXCEPT ![p] = est]
      /\ UNCHANGED <<now, set, snd, net, left>>
  BY ReceiveAckAckStep
<1>2. est \in [rtt : Ints, var : Ints]
  BY RangeAssumption
<1>3. Types'
  BY <1>1, <1>2 DEF Inv, Types, Buffers
<1>4. Numbers' /\ Drafts' /\ Packets'
  BY <1>1 DEF Inv, Numbers, Drafts, Packets, IsAck, IsAnswer
<1>5. Leftovers'
  BY <1>1, LeftoversRead
<1> QED
  BY <1>3, <1>4, <1>5 DEF Inv

\* What is passed over is a datagram of somebody else.
LEMMA PassedOver ==
  ASSUME Inv, NEW p \in Peers, NEW d \in net
  PROVE  ~ PassOver(p, d)
<1>1. /\ Read(p, d) \in Buffers /\ 0 \in DOMAIN d.bytes
      /\ \/ IsAck(d) /\ Agree(ack_length, d.bytes, Read(p, d))
         \/ IsAnswer(d) /\ Agree(ackack_length, d.bytes, Read(p, d))
  BY PacketRead
<1>2. IsOf(ACK, Read(p, d)) \/ IsOf(ACKACK, Read(p, d))
  BY <1>1, AckRead, AnswerRead
<1> QED
  BY <1>1, <1>2 DEF PassOver, IsTaken

LEMMA PassOverInv ==
  ASSUME Inv, NEW p \in Peers, NEW d \in net \cup Strays, PassOver(p, d)
  PROVE  Inv'
<1>1. /\ d.from # p /\ rbuf' = [rbuf EXCEPT ![p] = Read(p, d)]
      /\ UNCHANGED <<now, set, snd, estimate, net, left, heard>>
  BY DEF PassOver, Receive
<1>2. Read(p, d) \in Buffers
  BY ReadBuffer
<1>3. Types'
  BY <1>1, <1>2 DEF Inv, Types, Buffers
<1>4. Numbers' /\ Drafts' /\ Packets'
  BY <1>1 DEF Inv, Numbers, Drafts, Packets, IsAck, IsAnswer
<1>5. Leftovers'
  BY <1>1, LeftoversRead
<1> QED
  BY <1>3, <1>4, <1>5 DEF Inv

LEMMA NextInv == Inv /\ [Next]_vars => Inv'
<1> SUFFICES ASSUME Inv, [Next]_vars PROVE Inv'
  OBVIOUS
<1>1. CASE Tick
  BY <1>1, TickInv
<1>2. ASSUME NEW p \in Peers, NEW c \in Corrections[p], SetClock(p, c) PROVE Inv'
  BY <1>2, SetClockInv
<1>3. ASSUME NEW p \in Peers, BuildAck(p) PROVE Inv'
  BY <1>3, BuildAckInv
<1>4. ASSUME NEW p \in Peers, SendAck(p) PROVE Inv'
  BY <1>4, SendAckInv
<1>5. ASSUME NEW p \in Peers, SendShort(p) PROVE Inv'
  BY <1>5, SendShortInv
<1>6. ASSUME NEW p \in Peers, NEW d \in net \cup Strays, ReceiveAck(p, d) PROVE Inv'
  BY <1>6, ReceiveAckInv
<1>7. ASSUME NEW p \in Peers, NEW d \in net \cup Strays, NEW est \in Estimates,
             ReceiveAckAck(p, d, est)
      PROVE  Inv'
  BY <1>7, ReceiveAckAckInv
<1>8. ASSUME NEW p \in Peers, NEW d \in net \cup Strays, PassOver(p, d) PROVE Inv'
  BY <1>8, PassOverInv
<1>9. CASE UNCHANGED vars
  BY <1>9 DEF vars, Inv, Types, Numbers, Drafts, Packets, Leftovers, IsAck, IsAnswer
<1> QED
  BY <1>1, <1>2, <1>3, <1>4, <1>5, <1>6, <1>7, <1>8, <1>9 DEF Next

LEMMA Invariant == Spec => []Inv
  BY InitInv, NextInv, PTL DEF Spec

\* Whatever is sent, lost, repeated or late: threads and buffers keep their shape, and
\* a buffer holds bytes.
THEOREM TypeCorrect == Spec => []TypeOK
<1>1. Inv => TypeOK
  <2> SUFFICES ASSUME Inv PROVE TypeOK
    OBVIOUS
  <2>1. now \in 0 .. MaxTime /\ \A p \in Peers : set[p] \in Corrections[p] \cup {0}
    BY DEF Inv, Types
  <2>2. ASSUME NEW p \in Peers
        PROVE  /\ snd[p].pc \in {"sleep", "send"} /\ snd[p].ackno \in 1 .. LastAckNo[p] + 1
               /\ snd[p].buffer \in Buffers /\ rbuf[p] \in Buffers
               /\ DOMAIN left[p] \subseteq 1 .. LastAckNo[p]
    <3>1. /\ snd[p] \in [pc : {"sleep", "send"}, ackno : Nat, buffer : Buffers]
          /\ rbuf[p] \in Buffers
      BY DEF Inv, Types
    <3>2. /\ snd[p].ackno \in 1 .. LastAckNo[p] + 1
          /\ DOMAIN left[p] \subseteq 1 .. snd[p].ackno - 1
      BY DEF Inv, Numbers
    <3>3. DOMAIN left[p] \subseteq 1 .. LastAckNo[p]
      BY <3>2, SmallNumbers
    <3> QED
      BY <3>1, <3>2, <3>3
  <2>3. \A d \in net : DOMAIN d.bytes \in {0 .. ack_length - 1, 0 .. ackack_length - 1}
    BY DEF Inv, Packets, IsAck, IsAnswer
  <2> QED
    BY <2>1, <2>2, <2>3 DEF TypeOK
<1> QED
  BY Invariant, <1>1, PTL

\* No peer passes over an ACK or an ACKACK of the other one, whatever its buffer had
\* before and however many values a byte has.
THEOREM NothingIsPassedOver == Spec => UnderstandsPeer
<1>1. Inv => \A p \in Peers : \A d \in {e \in net : e.from # p} : ~ PassOver(p, d)
  BY PassedOver
<1>2. Inv /\ [Next]_vars =>
        [\A p \in Peers : \A d \in {e \in net : e.from # p} : ~ PassOver(p, d)]_vars
  BY <1>1
<1> QED
  BY Invariant, <1>2, PTL DEF Spec, UnderstandsPeer

-----------------------------------------------------------------------------
(* The peers on the wire implement Echo.                                   *)

\* What the message of a datagram is.
LEMMA AckMeans ==
  ASSUME NEW d, IsAck(d)
  PROVE  /\ Meaning(d).kind = "ACK" /\ Meaning(d).from = d.from
         /\ Meaning(d).ackno = Word(d.bytes, 4)
  BY MeaningOfAck DEF IsAck

LEMMA AnswerMeans ==
  ASSUME NEW d, IsAnswer(d)
  PROVE  /\ Meaning(d).kind = "ACKACK" /\ Meaning(d).from = d.from
         /\ Meaning(d).ackno = Word(d.bytes, 4)
         /\ Meaning(d).ts = Elapsed(d.from, Word(d.bytes, 8))
         /\ Meaning(d).ts_sys = Signed(Elapsed(d.from, Word(d.bytes, 16)))
  BY MeaningOfAckAck DEF IsAnswer

\* Whatever is lost, repeated or late, and however the system clocks are set and the
\* fields wrap: an ACKACK names an ACK that its reader sent, and was made out between
\* that ACK's leaving and now (app/start.cpp:98-115).
THEOREM AnswersAreToAcks == Spec => []AnswersFollowAcks
<1>1. Inv => AnswersFollowAcks
  <2> SUFFICES ASSUME Inv, NEW d \in net, NEW p \in Peers,
                      Meaning(d).kind = "ACKACK", Meaning(d).from # p
               PROVE  /\ Meaning(d).ackno \in DOMAIN left[p]
                      /\ left[p][Meaning(d).ackno] <= Meaning(d).ts
                      /\ Meaning(d).ts <= now
    BY DEF AnswersFollowAcks, Talk!AnswersFollowAcks
  <2>1. IsAnswer(d)
    BY AckMeans DEF Inv, Packets
  <2>2. d.from # p
    BY <2>1, AnswerMeans
  <2> QED
    BY <2>1, <2>2, AnswerMeans DEF IsAnswer
<1> QED
  BY Invariant, <1>1, PTL

LEMMA TalkInit == Init => Talk!Init
<1> SUFFICES ASSUME Init PROVE Talk!Init
  OBVIOUS
<1>1. \A p \in Peers : Draft(p) = Talk!AckMsg(p, 0, 0, Talk!NoEstimate)
  BY DEF Init, Draft, Talk!AckMsg, Talk!NoEstimate
<1>2. \A p \in Peers : Understood(p) = Talk!Nothing
  BY DEF Init, Understood, Nothing, Talk!Nothing
<1>3. [p \in Peers |-> Draft(p)] = [p \in Peers |-> Talk!AckMsg(p, 0, 0, Talk!NoEstimate)]
  BY <1>1
<1>4. [p \in Peers |-> Understood(p)] = [p \in Peers |-> Talk!Nothing]
  BY <1>2
<1>5. {Meaning(d) : d \in net} = {}
  BY DEF Init
<1>6. estimate = [p \in Peers |-> Talk!NoEstimate]
  BY DEF Init, Talk!NoEstimate
<1> QED
  BY <1>3, <1>4, <1>5, <1>6 DEF Init, Talk!Init

\* What a step that leaves the datagrams, the buffers or what was heard alone leaves
\* alone of the talk.
LEMMA SameMsgs ==
  ASSUME net' = net
  PROVE  {Meaning(d) : d \in net}' = {Meaning(d) : d \in net}
<1>1. \A d : Meaning(d)' = Meaning(d)
  BY DEF Meaning, Row, Elapsed, Signed, WORD
<1> QED
  BY <1>1

LEMMA SameDraft ==
  ASSUME NEW p \in Peers, snd'[p].ackno = snd[p].ackno, snd'[p].buffer = snd[p].buffer
  PROVE  Draft(p)' = Draft(p)
  BY DEF Draft, Meaning, Row, Elapsed, Signed, WORD

LEMMA SameUnderstood ==
  ASSUME NEW p \in Peers, heard'[p] = heard[p]
  PROVE  Understood(p)' = Understood(p)
  BY DEF Understood, Elapsed, Signed, WORD, Other

LEMMA SameTalk ==
  ASSUME UNCHANGED <<now, set, estimate, net, left, heard>>,
         \A p \in Peers : snd'[p].ackno = snd[p].ackno /\ snd'[p].buffer = snd[p].buffer
  PROVE  UNCHANGED Talk!vars
<1>1. [p \in Peers |-> Draft(p)]' = [p \in Peers |-> Draft(p)]
  BY SameDraft
<1>2. [p \in Peers |-> Understood(p)]' = [p \in Peers |-> Understood(p)]
  BY SameUnderstood
<1> QED
  BY <1>1, <1>2, SameMsgs DEF Talk!vars

LEMMA TalkTick ==
  ASSUME Inv, Tick
  PROVE  Talk!Tick
<1>1. now' = now + 1 /\ UNCHANGED <<set, snd, estimate, net, left, heard>>
  BY DEF Tick
<1>2. [p \in Peers |-> Draft(p)]' = [p \in Peers |-> Draft(p)]
  BY <1>1, SameDraft
<1>3. [p \in Peers |-> Understood(p)]' = [p \in Peers |-> Understood(p)]
  BY <1>1, SameUnderstood
<1> QED
  BY <1>1, <1>2, <1>3, SameMsgs DEF Talk!Tick

LEMMA TalkSetClock ==
  ASSUME Inv, NEW p \in Peers, NEW c \in Corrections[p], SetClock(p, c)
  PROVE  Talk!SetClock(p, c)
<1>1. /\ set' = [set EXCEPT ![p] = c]
      /\ UNCHANGED <<now, snd, estimate, net, left, heard>>
  BY DEF SetClock
<1>2. [q \in Peers |-> Draft(q)]' = [q \in Peers |-> Draft(q)]
  BY <1>1, SameDraft
<1>3. [q \in Peers |-> Understood(q)]' = [q \in Peers |-> Understood(q)]
  BY <1>1, SameUnderstood
<1> QED
  BY <1>1, <1>2, <1>3, SameMsgs DEF Talk!SetClock

\* The draft of a peer has the number that was used last.
LEMMA DraftNumber ==
  ASSUME Inv, NEW p \in Peers
  PROVE  Draft(p).ackno = snd[p].ackno - 1 /\ snd[p].ackno \in Nat
<1>1. snd[p].ackno \in Nat /\ snd[p].ackno >= 1
  BY SmallNumbers
<1>2. CASE snd[p].ackno = 1
  BY <1>2 DEF Draft
<1>3. CASE snd[p].ackno # 1
  <2> DEFINE e == [from |-> p, bytes |-> snd[p].buffer]
  <2>1. Draft(p) = Meaning(e) /\ e.bytes = snd[p].buffer
    BY <1>3 DEF Draft
  <2>2. Begins(snd[p].buffer, ACK) /\ Word(snd[p].buffer, 4) = snd[p].ackno - 1
    BY <1>1, <1>3 DEF Inv, Drafts
  <2> HIDE DEF e
  <2> QED
    BY <1>1, <2>1, <2>2, MeaningOfAck
<1> QED
  BY <1>1, <1>2, <1>3

LEMMA DraftAfter ==
  ASSUME NEW p, NEW b, snd'[p].ackno # 1, snd'[p].buffer = b
  PROVE  Draft(p)' = Meaning([from |-> p, bytes |-> b])
  BY DEF Draft, Meaning, Row, Elapsed, Signed, WORD

LEMMA TalkMakeOut ==
  ASSUME Inv, NEW p \in Peers, BuildAck(p)
  PROVE  Talk!MakeOut(p)
<1> DEFINE k == snd[p].ackno
           est == estimate[p]
           shown == Talk!Announced(est)
           b == Made(p)
           e == [from |-> p, bytes |-> b]
           old == [q \in Peers |-> Draft(q)]
           new == Talk!AckMsg(p, old[p].ackno + 1, now, shown)
<1>1. /\ k <= LastAckNo[p]
      /\ snd' = [snd EXCEPT ![p] = [pc |-> "send", ackno |-> k + 1, buffer |-> b]]
      /\ UNCHANGED <<now, set, estimate, net, left, heard>>
  BY BuildAckStep
<1>2. /\ Begins(b, ACK) /\ Word(b, 4) = k /\ Elapsed(p, Word(b, 8)) = now
      /\ Signed(Word(b, 20)) = shown.rtt /\ Signed(Word(b, 24)) = shown.var
  BY <1>1, BufferMade
<1>3. shown = [rtt |-> shown.rtt, var |-> shown.var]
  <2>1. est \in [rtt : Ints, var : Ints]
    BY DEF Inv, Types
  <2>2. est = [rtt |-> est.rtt, var |-> est.var]
    BY <2>1
  <2> QED
    BY <2>2 DEF Talk!Announced, Talk!NoEstimate
<1>4. k \in Nat /\ k >= 1 /\ old[p].ackno + 1 = k
  BY DraftNumber, SmallNumbers
<1> HIDE DEF k, shown, b
<1>5. snd'[p].ackno = k + 1 /\ snd'[p].buffer = b /\ \A q \in Peers : q # p => snd'[q] = snd[q]
  BY <1>1 DEF Inv, Types
<1>6. Draft(p)' = Meaning(e)
  BY <1>4, <1>5, DraftAfter
<1>7. Meaning(e) = [ kind |-> "ACK", from |-> p, ackno |-> k, ts |-> now, estimate |-> shown ]
  <2>1. e.from = p /\ e.bytes = b
    OBVIOUS
  <2> HIDE DEF e
  <2> QED
    BY <1>2, <1>3, <2>1, MeaningOfAck
<1>8. Draft(p)' = new
  BY <1>4, <1>6, <1>7 DEF Talk!AckMsg
<1>9. \A q \in Peers : q # p => Draft(q)' = Draft(q)
  BY <1>5, SameDraft
<1> HIDE DEF new
<1>10. [q \in Peers |-> Draft(q)]' = [old EXCEPT ![p] = new]
  BY <1>8, <1>9
<1>11. [q \in Peers |-> Understood(q)]' = [q \in Peers |-> Understood(q)]
  BY <1>1, SameUnderstood
<1> QED
  BY <1>1, <1>10, <1>11, SameMsgs DEF Talk!MakeOut, new, old, shown

\* One more datagram is one more message.
LEMMA OneMoreMsg ==
  ASSUME NEW a, net' = net \cup {a}
  PROVE  {Meaning(d) : d \in net}' = {Meaning(d) : d \in net} \cup {Meaning(a)}
<1>1. \A d : Meaning(d)' = Meaning(d)
  BY DEF Meaning, Row, Elapsed, Signed, WORD
<1> QED
  BY <1>1

LEMMA TalkSend ==
  ASSUME Inv, NEW p \in Peers, SendAck(p)
  PROVE  Talk!Send(p)
<1> DEFINE k == snd[p].ackno - 1
           a == Datagram(p, snd[p].buffer, ack_length)
           drafts == [q \in Peers |-> Draft(q)]
<1>1. /\ k \in 1 .. LastAckNo[p] /\ k \notin DOMAIN left[p]
      /\ Meaning(a) = Draft(p) /\ net' = net \cup {a}
      /\ left' = [left EXCEPT ![p] = Extend(left[p], k, now)]
      /\ snd' = [snd EXCEPT ![p] = [snd[p] EXCEPT !.pc = "sleep"]]
      /\ UNCHANGED <<now, set, estimate, heard>>
  BY SendAckStep
<1>2. drafts[p] = Draft(p) /\ drafts[p].ackno = k
  BY DraftNumber
<1> HIDE DEF a, k
<1>3. k \in UNION {1 .. LastAckNo[q] : q \in Peers}
  BY <1>1
<1>4. {Meaning(d) : d \in net}' = {Meaning(d) : d \in net} \cup {drafts[p]}
  BY <1>1, <1>2, OneMoreMsg
<1>5. \A q \in Peers : snd'[q].ackno = snd[q].ackno /\ snd'[q].buffer = snd[q].buffer
  BY <1>1 DEF Inv, Types
<1>6. drafts' = drafts
  BY <1>5, SameDraft
<1>7. [q \in Peers |-> Understood(q)]' = [q \in Peers |-> Understood(q)]
  BY <1>1, SameUnderstood
<1>8. left' = [left EXCEPT ![p] = [m \in DOMAIN left[p] \cup {k} |->
                                     IF m = k THEN now ELSE left[p][m]]]
  BY <1>1 DEF Extend
<1> QED
  BY <1>1, <1>2, <1>3, <1>4, <1>6, <1>7, <1>8 DEF Talk!Send

LEMMA TalkAnswer ==
  ASSUME Inv, NEW p \in Peers, NEW d \in net \cup Strays, ReceiveAck(p, d)
  PROVE  \E e \in net : Talk!Answer(p, Meaning(e))
<1> DEFINE a == Datagram(p, AnswerTo(p, Read(p, d)), ackack_length)
           k == Word(a.bytes, 4)
<1>1. /\ \E c \in net : c.from # p /\ IsAck(c) /\ k = Word(c.bytes, 4)
      /\ a.from = p /\ Begins(a.bytes, ACKACK)
      /\ Elapsed(p, Word(a.bytes, 8)) = now
      /\ Signed(Elapsed(p, Word(a.bytes, 16))) = now + set[p]
      /\ net' = net \cup {a} /\ UNCHANGED <<now, set, snd, estimate, left, heard>>
  BY ReceiveAckStep
<1>2. PICK e \in net : Meaning(e).kind = "ACK" /\ Meaning(e).from # p /\ Meaning(e).ackno = k
  BY <1>1, AckMeans
<1> HIDE DEF a
<1>3. Meaning(a) = [ kind |-> "ACKACK", from |-> p, ackno |-> k,
                     ts |-> now, ts_sys |-> now + set[p] ]
  BY <1>1, MeaningOfAckAck
<1>4. Meaning(a) = Talk!AckAckMsg(p, Meaning(e).ackno, now, now + set[p])
  BY <1>2, <1>3 DEF Talk!AckAckMsg
<1>5. {Meaning(c) : c \in net}' = {Meaning(c) : c \in net} \cup {Meaning(a)}
  BY <1>1, OneMoreMsg
<1>6. [q \in Peers |-> Draft(q)]' = [q \in Peers |-> Draft(q)]
  BY <1>1, SameDraft
<1>7. [q \in Peers |-> Understood(q)]' = [q \in Peers |-> Understood(q)]
  BY <1>1, SameUnderstood
<1> QED
  BY <1>1, <1>2, <1>4, <1>5, <1>6, <1>7 DEF Talk!Answer

LEMMA TalkHear ==
  ASSUME Inv, NEW p \in Peers, NEW d \in net \cup Strays, NEW est \in Estimates,
         ReceiveAckAck(p, d, est)
  PROVE  \E e \in net : Talk!Hear(p, Meaning(e), est)
<1>0. PICK e \in net :
        /\ e.from \in Peers /\ e.from # p /\ IsAnswer(e)
        /\ heard' = [heard EXCEPT ![p] = [ ackno |-> Word(e.bytes, 4),
                                           ts |-> Word(e.bytes, 8),
                                           ts_sys |-> Word(e.bytes, 16) ]]
  BY ReceiveAckAckStep
<1> DEFINE h == [ ackno |-> Word(e.bytes, 4), ts |-> Word(e.bytes, 8),
                  ts_sys |-> Word(e.bytes, 16) ]
           m == Meaning(e)
           new == [ackno |-> m.ackno, ts |-> m.ts, ts_sys |-> m.ts_sys]
           old == [q \in Peers |-> Understood(q)]
<1>1. /\ e.from \in Peers /\ e.from # p /\ IsAnswer(e)
      /\ heard' = [heard EXCEPT ![p] = h] /\ estimate' = [estimate EXCEPT ![p] = est]
      /\ UNCHANGED <<now, set, snd, net, left>>
  BY <1>0, ReceiveAckAckStep
<1>2. /\ m.kind = "ACKACK" /\ m.from # p /\ m.ackno = h.ackno
      /\ m.ts = Elapsed(e.from, h.ts) /\ m.ts_sys = Signed(Elapsed(e.from, h.ts_sys))
  BY <1>1, AnswerMeans
<1>3. h # Nothing
  <2>1. h.ackno \in DOMAIN left[p]
    BY <1>1 DEF IsAnswer
  <2>2. h.ackno # 0
    BY <2>1, SmallNumbers DEF Inv, Numbers
  <2> QED
    BY <2>2 DEF Nothing
<1>4. Other(p) = e.from
  BY <1>1, OtherPeer
<1> HIDE DEF h, m
<1>5. heard'[p] = h /\ \A q \in Peers : q # p => heard'[q] = heard[q]
  BY <1>1 DEF Inv, Types
<1>6. Understood(p)' = [ ackno |-> h.ackno, ts |-> Elapsed(Other(p), h.ts),
                         ts_sys |-> Signed(Elapsed(Other(p), h.ts_sys)) ]
  BY <1>3, <1>5 DEF Understood, Elapsed, Signed, WORD, Other, Nothing
<1>7. Understood(p)' = new
  BY <1>2, <1>4, <1>6
<1>8. \A q \in Peers : q # p => Understood(q)' = Understood(q)
  BY <1>5, SameUnderstood
<1> HIDE DEF new
<1>9. [q \in Peers |-> Understood(q)]' = [old EXCEPT ![p] = new]
  BY <1>7, <1>8
<1>10. [q \in Peers |-> Draft(q)]' = [q \in Peers |-> Draft(q)]
  BY <1>1, SameDraft
<1> QED
  BY <1>1, <1>2, <1>9, <1>10, SameMsgs DEF Talk!Hear, m, new, old

LEMMA TalkNext == Inv /\ [Next]_vars => [Talk!Next]_Talk!vars
<1> SUFFICES ASSUME Inv, [Next]_vars PROVE Talk!Next \/ UNCHANGED Talk!vars
  OBVIOUS
<1> DEFINE msgs == {Meaning(d) : d \in net}
<1>1. CASE Tick
  BY <1>1, TalkTick DEF Talk!Next
<1>2. ASSUME NEW p \in Peers, NEW c \in Corrections[p], SetClock(p, c) PROVE Talk!Next
  <2>1. c \in UNION {Corrections[q] : q \in Peers}
    OBVIOUS
  <2> QED
    BY <1>2, <2>1, TalkSetClock DEF Talk!Next
<1>3. ASSUME NEW p \in Peers, BuildAck(p) PROVE Talk!Next
  BY <1>3, TalkMakeOut DEF Talk!Next
<1>4. ASSUME NEW p \in Peers, SendAck(p) PROVE Talk!Next
  BY <1>4, TalkSend DEF Talk!Next
<1>5. ASSUME NEW p \in Peers, SendShort(p) PROVE UNCHANGED Talk!vars
  <2>1. /\ snd' = [snd EXCEPT ![p] = [snd[p] EXCEPT !.pc = "sleep"]]
        /\ UNCHANGED <<now, set, estimate, net, left, heard>>
    BY <1>5 DEF SendShort
  <2>2. \A q \in Peers : snd'[q].ackno = snd[q].ackno /\ snd'[q].buffer = snd[q].buffer
    BY <2>1 DEF Inv, Types
  <2> QED
    BY <2>1, <2>2, SameTalk
<1>6. ASSUME NEW p \in Peers, NEW d \in net \cup Strays, ReceiveAck(p, d) PROVE Talk!Next
  <2>1. \E e \in net : Meaning(e) \in msgs /\ Talk!Answer(p, Meaning(e))
    BY <1>6, TalkAnswer
  <2> QED
    BY <2>1 DEF Talk!Next
<1>7. ASSUME NEW p \in Peers, NEW d \in net \cup Strays, NEW est \in Estimates,
             ReceiveAckAck(p, d, est)
      PROVE  Talk!Next
  <2>1. \E e \in net : Meaning(e) \in msgs /\ Talk!Hear(p, Meaning(e), est)
    BY <1>7, TalkHear
  <2> QED
    BY <2>1 DEF Talk!Next
<1>8. ASSUME NEW p \in Peers, NEW d \in net \cup Strays, PassOver(p, d)
      PROVE  UNCHANGED Talk!vars
  <2>1. UNCHANGED <<now, set, snd, estimate, net, left, heard>>
    BY <1>8 DEF PassOver
  <2> QED
    BY <2>1, SameTalk
<1>9. CASE UNCHANGED vars
  <2>1. UNCHANGED <<now, set, snd, estimate, net, left, heard>>
    BY <1>9 DEF vars
  <2> QED
    BY <2>1, SameTalk
<1> QED
  BY <1>1, <1>2, <1>3, <1>4, <1>5, <1>6, <1>7, <1>8, <1>9 DEF Next

\* What the peers read and write byte by byte is the exchange that Echo describes:
\* for every size of a byte and every clock, no ACK shows a piece of an earlier one and
\* no answer a piece of an earlier datagram, and negative estimates, clocks that wrap
\* and clocks that were set back arrive as they were (src/packet,
\* app/start.cpp:69-83,100-109,159-191).
THEOREM BytesImplementEcho == Spec => ImplementsEcho
  BY Invariant, TalkInit, TalkNext, PTL DEF Spec, ImplementsEcho, Talk!Spec

=============================================================================
