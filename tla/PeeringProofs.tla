--------------------------- MODULE PeeringProofs ---------------------------
(***************************************************************************)
(* How two processes come to talk to each other, and what they may rely on *)
(* when they do.  Endpoint: from the URL of the command line to the socket,*)
(* for any words for hosts and ports; what find and substr cut out of a    *)
(* concatenation first, then a URL taken apart as it was put together, then*)
(* the way into the socket.  Session: where the two send to, through       *)
(* restarts.  Echo, as Talk: what an answer answers.                       *)
(***************************************************************************)
EXTENDS Endpoint, Session, SequenceTheorems, FiniteSetTheorems, TLAPS

-----------------------------------------------------------------------------
(* Cutting a concatenation.                                                *)

LEMMA HasEmpty == ASSUME NEW t PROVE ~ Has(<< >>, t)
  BY DEF Has

LEMMA HasOne == ASSUME NEW w, NEW t PROVE Has(<< w >>, t) <=> w = t
  BY DEF Has

LEMMA HasConcat ==
  ASSUME NEW S, NEW a \in Seq(S), NEW b \in Seq(S), NEW t
  PROVE  Has(a \o b, t) <=> Has(a, t) \/ Has(b, t)
<1>1. /\ a \o b \in Seq(S)
      /\ Len(a \o b) = Len(a) + Len(b)
      /\ \A i \in 1 .. Len(a) + Len(b) :
           (a \o b)[i] = IF i <= Len(a) THEN a[i] ELSE b[i - Len(a)]
  BY ConcatProperties
<1>2. Len(a) \in Nat /\ Len(b) \in Nat
  BY LenProperties
<1>3. /\ DOMAIN a = 1 .. Len(a)
      /\ DOMAIN b = 1 .. Len(b)
      /\ DOMAIN (a \o b) = 1 .. Len(a) + Len(b)
  BY <1>1, LenProperties
<1>4. ASSUME NEW i \in DOMAIN (a \o b), (a \o b)[i] = t
      PROVE  Has(a, t) \/ Has(b, t)
  <2>1. CASE i <= Len(a)
    BY <1>1, <1>2, <1>3, <1>4, <2>1 DEF Has
  <2>2. CASE ~ (i <= Len(a))
    <3>1. i - Len(a) \in DOMAIN b
      BY <1>2, <1>3, <2>2
    <3>2. b[i - Len(a)] = t
      BY <1>1, <1>3, <1>4, <2>2
    <3> QED
      BY <3>1, <3>2 DEF Has
  <2> QED
    BY <2>1, <2>2
<1>5. ASSUME NEW i \in DOMAIN a, a[i] = t PROVE Has(a \o b, t)
  <2>1. i \in DOMAIN (a \o b) /\ i <= Len(a)
    BY <1>2, <1>3
  <2>2. (a \o b)[i] = t
    BY <1>1, <1>3, <1>5, <2>1
  <2> QED
    BY <2>1, <2>2 DEF Has
<1>6. ASSUME NEW i \in DOMAIN b, b[i] = t PROVE Has(a \o b, t)
  <2>1. i + Len(a) \in DOMAIN (a \o b) /\ ~ (i + Len(a) <= Len(a)) /\ i + Len(a) - Len(a) = i
    BY <1>2, <1>3
  <2>2. (a \o b)[i + Len(a)] = t
    BY <1>1, <1>3, <1>6, <2>1
  <2> QED
    BY <2>1, <2>2 DEF Has
<1> QED
  BY <1>4, <1>5, <1>6 DEF Has

\* Nothing is cut where the separator is not.
LEMMA CutNowhere ==
  ASSUME NEW s, NEW t, ~ Has(s, t)
  PROVE  Before(s, t) = s /\ After(s, t) = << >>
  BY DEF Before, After

\* The first separator cuts, whatever comes after it.
LEMMA CutAtFirst ==
  ASSUME NEW S, NEW a \in Seq(S), NEW b \in Seq(S), NEW t \in S, ~ Has(a, t)
  PROVE  /\ Has((a \o << t >>) \o b, t)
         /\ FirstAt((a \o << t >>) \o b, t) = Len(a) + 1
         /\ Before((a \o << t >>) \o b, t) = a
         /\ After((a \o << t >>) \o b, t) = b
<1> DEFINE head == a \o << t >>
           s == head \o b
           n == Len(a)
<1>1. << t >> \in Seq(S) /\ Len(<< t >>) = 1 /\ << t >>[1] = t
  OBVIOUS
<1>2. n \in Nat /\ DOMAIN a = 1 .. n /\ Len(b) \in Nat
  BY LenProperties
<1>3. /\ head \in Seq(S) /\ Len(head) = n + 1
      /\ \A i \in 1 .. n + 1 : head[i] = IF i <= n THEN a[i] ELSE << t >>[i - n]
  BY <1>1, ConcatProperties
<1>4. /\ s \in Seq(S) /\ Len(s) = n + 1 + Len(b)
      /\ \A i \in 1 .. n + 1 + Len(b) : s[i] = IF i <= n + 1 THEN head[i] ELSE b[i - (n + 1)]
  BY <1>3, ConcatProperties
<1>5. DOMAIN s = 1 .. n + 1 + Len(b)
  BY <1>4, LenProperties
<1> HIDE DEF head, s, n
<1>6. n + 1 \in 1 .. n + 1 /\ n + 1 \in DOMAIN s /\ n + 1 - n = 1 /\ ~ (n + 1 <= n)
  BY <1>2, <1>5
<1>7. s[n + 1] = t
  BY <1>1, <1>2, <1>3, <1>4, <1>5, <1>6
<1>8. \A j \in 1 .. n : s[j] = a[j] /\ a[j] # t
  <2>1. \A j \in 1 .. n : a[j] # t
    BY <1>2 DEF Has
  <2>2. \A j \in 1 .. n : /\ j \in 1 .. n + 1 /\ j \in 1 .. n + 1 + Len(b)
                          /\ j <= n /\ j <= n + 1
    BY <1>2
  <2> QED
    BY <1>3, <1>4, <2>1, <2>2
<1>9. Has(s, t)
  BY <1>6, <1>7 DEF Has
<1>10. FirstAt(s, t) = n + 1
  <2>1. s[n + 1] = t /\ \A j \in 1 .. n + 1 - 1 : s[j] # t
    BY <1>2, <1>7, <1>8
  <2>2. ASSUME NEW i \in DOMAIN s, s[i] = t, \A j \in 1 .. i - 1 : s[j] # t
        PROVE  i = n + 1
    <3>1. i \in Nat /\ i >= 1
      BY <1>2, <1>5
    <3>2. CASE i < n + 1
      BY <1>2, <1>8, <2>2, <3>1, <3>2
    <3>3. CASE i > n + 1
      BY <1>2, <1>7, <2>2, <3>1, <3>3
    <3> QED
      BY <1>2, <3>1, <3>2, <3>3
  <2> QED
    BY <1>6, <2>1, <2>2 DEF FirstAt
<1>11. SubSeq(s, 1, n) = a
  <2>1. \A i \in 1 .. n : s[i] \in S
    BY <1>2, <1>8, ElementOfSeq DEF n
  <2>2. /\ SubSeq(s, 1, n) \in Seq(S)
        /\ Len(SubSeq(s, 1, n)) = IF 1 <= n THEN n - 1 + 1 ELSE 0
        /\ \A i \in 1 .. n - 1 + 1 : SubSeq(s, 1, n)[i] = s[1 + i - 1]
    BY <1>2, <2>1, SubSeqProperties
  <2>3. Len(SubSeq(s, 1, n)) = n
    BY <1>2, <2>2
  <2>4. \A i \in 1 .. n : SubSeq(s, 1, n)[i] = a[i]
    BY <1>2, <1>8, <2>2
  <2> QED
    BY <2>2, <2>3, <2>4, SeqEqual DEF n
<1>12. SubSeq(s, n + 2, Len(s)) = b
  <2> DEFINE m == n + 1 + Len(b)
             tail == SubSeq(s, n + 2, m)
  <2>1. m \in Int /\ n + 2 \in Int /\ \A i \in n + 2 .. m : s[i] \in S
    <3>1. m \in Nat
      BY <1>2
    <3>2. \A i \in n + 2 .. m : i \in 1 .. Len(s)
      BY <1>2, <1>4
    <3> QED
      BY <1>2, <1>4, <3>1, <3>2, ElementOfSeq
  <2>2. /\ tail \in Seq(S)
        /\ Len(tail) = IF n + 2 <= m THEN m - (n + 2) + 1 ELSE 0
        /\ \A i \in 1 .. m - (n + 2) + 1 : tail[i] = s[(n + 2) + i - 1]
    BY <2>1, SubSeqProperties
  <2>3. Len(tail) = Len(b)
    BY <1>2, <2>2
  <2>4. \A i \in 1 .. Len(b) : tail[i] = b[i]
    <3> SUFFICES ASSUME NEW i \in 1 .. Len(b) PROVE tail[i] = b[i]
      OBVIOUS
    <3>1. i \in 1 .. m - (n + 2) + 1 /\ (n + 2) + i - 1 = n + 1 + i
      BY <1>2
    <3>2. tail[i] = s[n + 1 + i]
      BY <2>2, <3>1
    <3>3. n + 1 + i \in 1 .. n + 1 + Len(b) /\ ~ (n + 1 + i <= n + 1) /\ (n + 1 + i) - (n + 1) = i
      BY <1>2
    <3>4. s[n + 1 + i] = b[(n + 1 + i) - (n + 1)]
      BY <1>4, <3>3
    <3> QED
      BY <3>2, <3>3, <3>4
  <2> HIDE DEF tail, m
  <2>5. tail = b
    BY <2>2, <2>3, <2>4, SeqEqual
  <2> QED
    BY <1>4, <2>5 DEF tail, m
<1>13. FirstAt(s, t) - 1 = n /\ FirstAt(s, t) + 1 = n + 2
  BY <1>2, <1>10
<1>14. Before(s, t) = a
  BY <1>9, <1>11, <1>13 DEF Before
<1>15. After(s, t) = b
  BY <1>9, <1>12, <1>13 DEF After
<1> QED
  BY <1>9, <1>10, <1>14, <1>15 DEF s, head, n

\* A separator at the end cuts off nothing but itself.
LEMMA CutAtEnd ==
  ASSUME NEW S, NEW a \in Seq(S), NEW t \in S, ~ Has(a, t)
  PROVE  /\ Has(a \o << t >>, t)
         /\ Before(a \o << t >>, t) = a
         /\ After(a \o << t >>, t) = << >>
<1>1. << >> \in Seq(S) /\ a \o << t >> \in Seq(S)
  BY ConcatProperties
<1>2. (a \o << t >>) \o << >> = a \o << t >>
  BY <1>1, ConcatEmptySeq
<1>3. \A b \in Seq(S) : /\ Has((a \o << t >>) \o b, t)
                         /\ Before((a \o << t >>) \o b, t) = a
                         /\ After((a \o << t >>) \o b, t) = b
  BY CutAtFirst
<1> QED
  BY <1>1, <1>2, <1>3

-----------------------------------------------------------------------------
(* The pairs of a query.                                                   *)

IsBind(pair) == Has(pair, "=") /\ Before(pair, "=") = << "bind" >>

LEMMA BindsByPair ==
  ASSUME NEW q
  PROVE  Binds(q) = {i \in PairStarts(q) : IsBind(PairAt(q, i))}
  BY DEF Binds, IsBind

LEMMA NoPair == BindOption(<< >>) = {}
  BY DEF BindOption, Binds, PairStarts

LEMMA OnePair ==
  ASSUME NEW S, NEW q \in Seq(S), q # << >>, ~ Has(q, "&")
  PROVE  BindOption(q) = IF IsBind(q) THEN {After(q, "=")} ELSE {}
<1>1. Len(q) \in Nat /\ Len(q) # 0 /\ DOMAIN q = 1 .. Len(q)
  BY EmptySeq, LenProperties
<1>2. PairStarts(q) = {1}
  <2>1. 1 \in DOMAIN q
    BY <1>1
  <2>2. ASSUME NEW i \in DOMAIN q, i # 1 PROVE q[i - 1] # "&"
    <3>1. i - 1 \in DOMAIN q
      BY <1>1, <2>2
    <3> QED
      BY <3>1 DEF Has
  <2> QED
    BY <2>1, <2>2 DEF PairStarts
<1>3. PairAt(q, 1) = q
  BY SubSeqFull, CutNowhere DEF PairAt
<1>4. CASE IsBind(q)
  <2>1. Binds(q) = {1}
    BY <1>2, <1>3, <1>4, BindsByPair
  <2>2. {j \in Binds(q) : \A k \in Binds(q) : k <= j} = {1}
    BY <2>1
  <2>3. BindOption(q) = {After(PairAt(q, i), "=") : i \in {1}}
    BY <2>2 DEF BindOption
  <2> QED
    BY <1>3, <1>4, <2>3
<1>5. CASE ~ IsBind(q)
  <2>1. Binds(q) = {}
    BY <1>2, <1>3, <1>5, BindsByPair
  <2> QED
    BY <1>5, <2>1 DEF BindOption
<1> QED
  BY <1>4, <1>5

\* Of two pairs, of which at most one is `bind', that one is found.
LEMMA TwoPairs ==
  ASSUME NEW S, "&" \in S, NEW a \in Seq(S), NEW b \in Seq(S),
         b # << >>, ~ Has(a, "&"), ~ Has(b, "&"), ~ (IsBind(a) /\ IsBind(b))
  PROVE  BindOption((a \o << "&" >>) \o b) =
           IF IsBind(a) THEN {After(a, "=")} ELSE IF IsBind(b) THEN {After(b, "=")} ELSE {}
<1> DEFINE head == a \o << "&" >>
           q == head \o b
           n == Len(a)
<1>1. << "&" >> \in Seq(S) /\ Len(<< "&" >>) = 1 /\ << "&" >>[1] = "&"
  OBVIOUS
<1>2. /\ n \in Nat /\ DOMAIN a = 1 .. n
      /\ Len(b) \in Nat /\ Len(b) # 0 /\ DOMAIN b = 1 .. Len(b)
  BY EmptySeq, LenProperties
<1>3. /\ head \in Seq(S) /\ Len(head) = n + 1
      /\ \A i \in 1 .. n + 1 : head[i] = IF i <= n THEN a[i] ELSE << "&" >>[i - n]
  BY <1>1, ConcatProperties
<1>4. /\ q \in Seq(S) /\ Len(q) = n + 1 + Len(b)
      /\ \A i \in 1 .. n + 1 + Len(b) : q[i] = IF i <= n + 1 THEN head[i] ELSE b[i - (n + 1)]
  BY <1>3, ConcatProperties
<1>5. DOMAIN q = 1 .. n + 1 + Len(b)
  BY <1>4, LenProperties
<1>6. /\ Has(q, "&") /\ FirstAt(q, "&") = n + 1
      /\ Before(q, "&") = a /\ After(q, "&") = b
  BY CutAtFirst
<1> HIDE DEF head, q, n
<1>7. \A i \in DOMAIN q : q[i] = "&" <=> i = n + 1
  <2> SUFFICES ASSUME NEW i \in DOMAIN q PROVE q[i] = "&" <=> i = n + 1
    OBVIOUS
  <2>1. CASE i <= n
    BY <1>2, <1>3, <1>4, <1>5, <2>1 DEF Has
  <2>2. CASE i = n + 1
    <3>1. i \in 1 .. n + 1 /\ ~ (i <= n) /\ i - n = 1 /\ i <= n + 1
      BY <1>2, <2>2
    <3> QED
      BY <1>1, <1>3, <1>4, <1>5, <2>2, <3>1
  <2>3. CASE i > n + 1
    <3>1. i - (n + 1) \in DOMAIN b /\ ~ (i <= n + 1)
      BY <1>2, <1>5, <2>3
    <3>2. q[i] = b[i - (n + 1)]
      BY <1>4, <1>5, <3>1
    <3> QED
      BY <3>1, <3>2, <2>3, <1>2 DEF Has
  <2> QED
    BY <1>2, <1>5, <2>1, <2>2, <2>3
<1>8. PairStarts(q) = {1, n + 2}
  <2>1. 1 \in DOMAIN q /\ n + 2 \in DOMAIN q /\ n + 1 \in DOMAIN q /\ (n + 2) - 1 = n + 1
    BY <1>2, <1>5
  <2>2. ASSUME NEW i \in DOMAIN q, i # 1, i # n + 2 PROVE q[i - 1] # "&"
    <3>1. i - 1 \in DOMAIN q /\ i - 1 # n + 1
      BY <1>2, <1>5, <2>2
    <3> QED
      BY <3>1, <1>7
  <2>3. q[(n + 2) - 1] = "&"
    BY <2>1, <1>7
  <2> QED
    BY <2>1, <2>2, <2>3 DEF PairStarts
<1>9. PairAt(q, 1) = a
  BY <1>4, <1>6, SubSeqFull DEF PairAt
<1>10. PairAt(q, n + 2) = b
  <2>1. FirstAt(q, "&") + 1 = n + 2
    BY <1>2, <1>6
  <2>2. SubSeq(q, n + 2, Len(q)) = b
    BY <1>6, <2>1 DEF After
  <2> QED
    BY <2>2, CutNowhere DEF PairAt
<1>11. 1 \in Nat /\ n + 2 \in Nat /\ n + 2 # 1
  BY <1>2
<1>12. ASSUME NEW k \in Nat, Binds(q) = {k}
       PROVE  BindOption(q) = {After(PairAt(q, k), "=")}
  <2>1. {j \in Binds(q) : \A l \in Binds(q) : l <= j} = {k}
    BY <1>12
  <2> QED
    BY <2>1 DEF BindOption
<1>13. CASE IsBind(a)
  <2>1. Binds(q) = {1}
    BY <1>8, <1>9, <1>10, <1>11, <1>13, BindsByPair
  <2>2. BindOption(q) = {After(PairAt(q, 1), "=")}
    BY <1>12, <2>1
  <2> QED
    BY <1>9, <1>13, <2>2 DEF q, head
<1>14. CASE ~ IsBind(a) /\ IsBind(b)
  <2>1. Binds(q) = {n + 2}
    BY <1>8, <1>9, <1>10, <1>11, <1>14, BindsByPair
  <2>2. BindOption(q) = {After(PairAt(q, n + 2), "=")}
    BY <1>11, <1>12, <2>1
  <2> QED
    BY <1>10, <1>14, <2>2 DEF q, head
<1>15. CASE ~ IsBind(a) /\ ~ IsBind(b)
  <2>1. Binds(q) = {}
    BY <1>8, <1>9, <1>10, <1>15, BindsByPair
  <2> QED
    BY <1>15, <2>1 DEF BindOption, q, head
<1> QED
  BY <1>13, <1>14, <1>15

-----------------------------------------------------------------------------
(* The parts of a URL.                                                     *)

Words == Literals \cup Names \cup DOMAIN Value
Tokens == Words \cup Separators \cup {"udp", "UDP", "rtp", "bind", "mode", "x"}

\* A sequence without separators: a part that nothing cuts.
Plain(s) == \A t \in Separators : ~ Has(s, t)

LEMMA MaybePlain ==
  ASSUME NEW T, T \subseteq Tokens, T \cap Separators = {}, NEW s \in Maybe(T)
  PROVE  s \in Seq(Tokens) /\ Plain(s)
<1>1. CASE s = << >>
  BY <1>1, HasEmpty DEF Plain
<1>2. ASSUME NEW w \in T, s = << w >> PROVE s \in Seq(Tokens) /\ Plain(s)
  <2>1. w \in Tokens /\ w \notin Separators
    OBVIOUS
  <2>2. s \in Seq(Tokens)
    BY <1>2, <2>1
  <2>3. Plain(s)
    BY <1>2, <2>1, HasOne DEF Plain
  <2> QED
    BY <2>2, <2>3
<1> QED
  BY <1>1, <1>2 DEF Maybe

LEMMA MaybeWords ==
  ASSUME NEW s \in Maybe(Words)
  PROVE  s \in Seq(Tokens) /\ Plain(s)
<1>1. Words \subseteq Tokens /\ Words \cap Separators = {}
  BY EndpointAssumption DEF Words, Tokens
<1> QED
  BY <1>1, MaybePlain

LEMMA SeparatorsAreTokens == Separators \subseteq Tokens
  BY DEF Tokens

\* A host and a port come apart at the colon, and nothing else cuts them.
LEMMA HostPortParts ==
  ASSUME NEW b, b.host \in Maybe(Words), b.port \in Maybe(Words)
  PROVE  /\ HostPort(b) \in Seq(Tokens)
         /\ \A t \in Separators \ {":"} : ~ Has(HostPort(b), t)
         /\ Has(HostPort(b), ":") <=> b.port # << >>
         /\ Before(HostPort(b), ":") = b.host
         /\ After(HostPort(b), ":") = b.port
<1> DEFINE h == b.host
           p == b.port
<1>1. /\ h \in Seq(Tokens) /\ p \in Seq(Tokens) /\ Plain(h) /\ Plain(p)
      /\ << ":" >> \in Seq(Tokens) /\ ":" \in Separators /\ ":" \in Tokens
  BY MaybeWords, SeparatorsAreTokens DEF Separators
<1> DEFINE colon == << ":" >>
<1>1a. colon \in Seq(Tokens) /\ \A t : Has(colon, t) <=> t = ":"
  BY <1>1, HasOne
<1>2. CASE p = << >>
  <2>1. HostPort(b) = h
    BY <1>1, <1>2, ConcatEmptySeq DEF HostPort
  <2>2. ~ Has(h, ":")
    BY <1>1 DEF Plain
  <2> QED
    BY <1>1, <1>2, <2>1, <2>2, CutNowhere DEF Plain
<1>3. CASE p # << >>
  <2>1. HostPort(b) = h \o (<< ":" >> \o p)
    BY <1>3 DEF HostPort
  <2>1a. \A s, t, u \in Seq(Tokens) : (s \o t) \o u = s \o (t \o u)
    BY ConcatAssociative
  <2>2. HostPort(b) = (h \o colon) \o p
    BY <1>1, <1>1a, <2>1, <2>1a
  <2>3. ~ Has(h, ":")
    BY <1>1 DEF Plain
  <2>4. /\ Has(HostPort(b), ":")
        /\ Before(HostPort(b), ":") = h
        /\ After(HostPort(b), ":") = p
    BY <1>1, <2>2, <2>3, CutAtFirst
  <2> HIDE DEF colon
  <2>5. h \o colon \in Seq(Tokens) /\ HostPort(b) \in Seq(Tokens)
    BY <1>1, <1>1a, <2>2, ConcatProperties
  <2>6. ASSUME NEW t \in Separators \ {":"} PROVE ~ Has(HostPort(b), t)
    <3>1. ~ Has(h, t) /\ ~ Has(p, t) /\ ~ Has(colon, t)
      BY <1>1, <1>1a DEF Plain
    <3>2. ~ Has(h \o colon, t)
      BY <1>1, <1>1a, <3>1, HasConcat
    <3>3. Has((h \o colon) \o p, t) <=> Has(h \o colon, t) \/ Has(p, t)
      BY <1>1, <2>5, HasConcat
    <3> QED
      BY <2>2, <3>1, <3>2, <3>3
  <2> QED
    BY <1>3, <2>4, <2>5, <2>6
<1> QED
  BY <1>2, <1>3

-----------------------------------------------------------------------------
(* The URL, as Url puts it together.                                       *)

Place(u) == IF u.bare /\ u.host = << >> THEN u.port ELSE HostPort(u)
Path(u) == IF u.path THEN << "/" >> ELSE << >>
Scheme(u) == IF u.proto = << >> THEN << >> ELSE u.proto \o << "://" >>
Front(u) == (Scheme(u) \o Place(u)) \o Path(u)

Extra == << "mode", "=", "x" >>
BindText(u) == IF u.bind = {} THEN << >>
               ELSE << "bind", "=" >> \o HostPort(CHOOSE b \in u.bind : TRUE)
Query(u) ==
  CASE u.extra = "none"   -> BindText(u)
    [] u.extra = "before" -> Extra \o (IF BindText(u) = << >> THEN BindText(u)
                                       ELSE << "&" >> \o BindText(u))
    [] u.extra = "after"  -> (IF BindText(u) = << >> THEN BindText(u)
                              ELSE BindText(u) \o << "&" >>) \o Extra

LEMMA UrlParts ==
  ASSUME NEW u
  PROVE  Url(u) = Front(u) \o (IF Query(u) = << >> THEN << >> ELSE << "?" >> \o Query(u))
  BY DEF Url, Front, Scheme, Place, Path, Query, Extra, BindText

LEMMA UsageParts ==
  ASSUME NEW u \in Usages
  PROVE  /\ u.host \in Maybe(Literals \cup Names) /\ u.port \in Maybe(Ports)
         /\ u.host \in Maybe(Words) /\ u.port \in Maybe(Words)
         /\ u.proto \in Maybe({"udp", "UDP", "rtp"})
         /\ u.bare \in BOOLEAN /\ u.path \in BOOLEAN
         /\ u.extra \in {"none", "before", "after"}
         /\ u.bind = {} \/ \E b : /\ u.bind = {b}
                                  /\ b.host \in Maybe(Literals \cup Names)
                                  /\ b.port \in Maybe(DOMAIN Value)
                                  /\ b.host \in Maybe(Words) /\ b.port \in Maybe(Words)
<1>1. /\ Maybe(Literals \cup Names) \subseteq Maybe(Words)
      /\ Maybe(DOMAIN Value) \subseteq Maybe(Words)
      /\ Maybe(Ports) \subseteq Maybe(Words)
  BY EndpointAssumption DEF Maybe, Words
<1>2. /\ u.host \in Maybe(Literals \cup Names) /\ u.port \in Maybe(Ports)
      /\ u.proto \in Maybe({"udp", "UDP", "rtp"})
      /\ u.bare \in BOOLEAN /\ u.path \in BOOLEAN
      /\ u.extra \in {"none", "before", "after"}
      /\ u.bind \in {{}} \cup {{b} : b \in [host : Maybe(Literals \cup Names), port : Maybe(DOMAIN Value)]}
  BY DEF Usages
<1>3. ASSUME NEW b \in [host : Maybe(Literals \cup Names), port : Maybe(DOMAIN Value)]
      PROVE  b.host \in Maybe(Literals \cup Names) /\ b.port \in Maybe(DOMAIN Value)
  OBVIOUS
<1> QED
  BY <1>1, <1>2, <1>3

\* Only the colon may be in the place.
LEMMA PlaceParts ==
  ASSUME NEW u \in Usages
  PROVE  /\ Place(u) \in Seq(Tokens)
         /\ \A t \in Separators \ {":"} : ~ Has(Place(u), t)
<1>1. u.host \in Maybe(Words) /\ u.port \in Maybe(Words)
  BY UsageParts
<1>2. CASE u.bare /\ u.host = << >>
  BY <1>1, <1>2, MaybeWords DEF Place, Plain
<1>3. CASE ~ (u.bare /\ u.host = << >>)
  BY <1>1, <1>3, HostPortParts DEF Place
<1> QED
  BY <1>2, <1>3

LEMMA SchemeParts ==
  ASSUME NEW u \in Usages
  PROVE  /\ u.proto \in Seq(Tokens) /\ Plain(u.proto)
         /\ Scheme(u) \in Seq(Tokens)
         /\ ~ Has(Scheme(u), "?")
<1>1. {"udp", "UDP", "rtp"} \subseteq Tokens /\ {"udp", "UDP", "rtp"} \cap Separators = {}
  BY DEF Tokens, Separators
<1>2. u.proto \in Maybe({"udp", "UDP", "rtp"})
  BY UsageParts
<1>3. u.proto \in Seq(Tokens) /\ Plain(u.proto)
  BY <1>1, <1>2, MaybePlain
<1>4. << "://" >> \in Seq(Tokens) /\ ~ Has(<< "://" >>, "?") /\ ~ Has(u.proto, "?")
  BY <1>3, SeparatorsAreTokens, HasOne DEF Separators, Plain
<1>5. u.proto \o << "://" >> \in Seq(Tokens) /\ ~ Has(u.proto \o << "://" >>, "?")
  BY <1>3, <1>4, ConcatProperties, HasConcat
<1> QED
  BY <1>3, <1>5, HasEmpty DEF Scheme

LEMMA PathParts ==
  ASSUME NEW u \in Usages
  PROVE  /\ Path(u) \in Seq(Tokens)
         /\ \A t \in Separators \ {"/"} : ~ Has(Path(u), t)
  BY HasEmpty, HasOne, SeparatorsAreTokens DEF Path, Separators

LEMMA FrontParts ==
  ASSUME NEW u \in Usages
  PROVE  Front(u) \in Seq(Tokens) /\ ~ Has(Front(u), "?")
<1>1. /\ Scheme(u) \in Seq(Tokens) /\ ~ Has(Scheme(u), "?")
      /\ Place(u) \in Seq(Tokens) /\ ~ Has(Place(u), "?")
      /\ Path(u) \in Seq(Tokens) /\ ~ Has(Path(u), "?")
  BY SchemeParts, PlaceParts, PathParts DEF Separators
<1>2. Scheme(u) \o Place(u) \in Seq(Tokens) /\ ~ Has(Scheme(u) \o Place(u), "?")
  BY <1>1, ConcatProperties, HasConcat
<1> QED
  BY <1>1, <1>2, ConcatProperties, HasConcat DEF Front

\* A pair is known by what is in front of its "=".
LEMMA PairParts ==
  ASSUME NEW key, key \in {"bind", "mode"}, NEW v \in Seq(Tokens), ~ Has(v, "&")
  PROVE  /\ << key, "=" >> \o v \in Seq(Tokens)
         /\ << key, "=" >> \o v # << >>
         /\ ~ Has(<< key, "=" >> \o v, "&")
         /\ IsBind(<< key, "=" >> \o v) <=> key = "bind"
         /\ After(<< key, "=" >> \o v, "=") = v
<1> DEFINE pair == << key, "=" >> \o v
<1>1. /\ key \in Tokens /\ "=" \in Tokens /\ key # "=" /\ key # "&"
      /\ << key >> \in Seq(Tokens) /\ << "=" >> \in Seq(Tokens)
  BY DEF Tokens, Separators
<1>2. << key, "=" >> = << key >> \o << "=" >>
  OBVIOUS
<1>3. ~ Has(<< key >>, "=")
  BY <1>1, HasOne
<1>3a. \A a, b \in Seq(Tokens) : ~ Has(a, "=") =>
         /\ Has((a \o << "=" >>) \o b, "=")
         /\ Before((a \o << "=" >>) \o b, "=") = a
         /\ After((a \o << "=" >>) \o b, "=") = b
  BY <1>1, CutAtFirst
<1>4. /\ Has((<< key >> \o << "=" >>) \o v, "=")
      /\ Before((<< key >> \o << "=" >>) \o v, "=") = << key >>
      /\ After((<< key >> \o << "=" >>) \o v, "=") = v
  BY <1>1, <1>3, <1>3a
<1>5. IsBind(pair) <=> << key >> = << "bind" >>
  BY <1>2, <1>4 DEF IsBind
<1>6. << key >> = << "bind" >> <=> key = "bind"
  OBVIOUS
<1>7. << key, "=" >> \in Seq(Tokens) /\ ~ Has(<< key, "=" >>, "&")
  BY <1>1 DEF Has
<1>8. pair \in Seq(Tokens) /\ ~ Has(pair, "&")
  BY <1>7, ConcatProperties, HasConcat
<1>9. pair # << >>
  BY <1>2, <1>4, HasEmpty
<1> QED
  BY <1>2, <1>4, <1>5, <1>6, <1>8, <1>9

LEMMA ExtraParts ==
  Extra \in Seq(Tokens) /\ Extra # << >> /\ ~ Has(Extra, "&") /\ ~ IsBind(Extra)
<1>1. << "x" >> \in Seq(Tokens) /\ ~ Has(<< "x" >>, "&")
  BY HasOne DEF Tokens
<1>2. Extra = << "mode", "=" >> \o << "x" >>
  BY DEF Extra
<1>3. "mode" \in {"bind", "mode"} /\ "mode" # "bind"
  OBVIOUS
<1> QED
  BY <1>1, <1>2, <1>3, PairParts

LEMMA BindParts ==
  ASSUME NEW u \in Usages, NEW b, u.bind = {b}, b.host \in Maybe(Words), b.port \in Maybe(Words)
  PROVE  /\ BindText(u) \in Seq(Tokens) /\ BindText(u) # << >>
         /\ ~ Has(BindText(u), "&") /\ IsBind(BindText(u))
         /\ After(BindText(u), "=") = HostPort(b)
<1>1. HostPort(b) \in Seq(Tokens) /\ ~ Has(HostPort(b), "&")
  BY HostPortParts DEF Separators
<1>2. (CHOOSE c \in u.bind : TRUE) = b
  OBVIOUS
<1>3. BindText(u) = << "bind", "=" >> \o HostPort(b)
  BY <1>2 DEF BindText
<1> QED
  BY <1>1, <1>3, PairParts

\* The option is found wherever it stands.
LEMMA QueryParts ==
  ASSUME NEW u \in Usages
  PROVE  /\ Query(u) \in Seq(Tokens)
         /\ BindOption(Query(u)) = {HostPort(b) : b \in u.bind}
<1>1. u.extra \in {"none", "before", "after"}
  BY UsageParts
<1>2. << >> \in Seq(Tokens) /\ << "&" >> \in Seq(Tokens) /\ "&" \in Tokens
  BY SeparatorsAreTokens DEF Separators
<1>3. CASE u.bind = {}
  <2>1. BindText(u) = << >> /\ {HostPort(b) : b \in u.bind} = {}
    BY <1>3 DEF BindText
  <2>2. Extra \o << >> = Extra /\ << >> \o Extra = Extra
    BY ExtraParts, ConcatEmptySeq
  <2>3. Query(u) \in {<< >>, Extra}
    BY <1>1, <2>1, <2>2 DEF Query
  <2>4. BindOption(Extra) = {}
    BY ExtraParts, OnePair
  <2> QED
    BY <1>2, <2>1, <2>3, <2>4, NoPair, ExtraParts
<1>4. ASSUME NEW b, u.bind = {b}, b.host \in Maybe(Words), b.port \in Maybe(Words)
      PROVE  /\ Query(u) \in Seq(Tokens)
             /\ BindOption(Query(u)) = {HostPort(c) : c \in u.bind}
  <2> DEFINE text == BindText(u)
             and == << "&" >>
  <2>1. /\ text \in Seq(Tokens) /\ text # << >> /\ ~ Has(text, "&") /\ IsBind(text)
        /\ After(text, "=") = HostPort(b)
    BY <1>4, BindParts
  <2>2. {HostPort(c) : c \in u.bind} = {HostPort(b)}
    BY <1>4
  <2>3. CASE u.extra = "none"
    <3>1. Query(u) = text
      BY <2>3 DEF Query
    <3>2. BindOption(text) = {After(text, "=")}
      BY <2>1, OnePair
    <3> QED
      BY <2>1, <2>2, <3>1, <3>2
  <2>4. CASE u.extra = "before"
    <3>1. Query(u) = Extra \o (and \o text)
      BY <2>1, <2>4 DEF Query
    <3>2. Query(u) = (Extra \o and) \o text
      BY <1>2, <2>1, <3>1, ExtraParts, ConcatAssociative
    <3>3. BindOption((Extra \o and) \o text) = {After(text, "=")}
      BY <1>2, <2>1, ExtraParts, TwoPairs
    <3>4. Extra \o and \in Seq(Tokens) /\ Query(u) \in Seq(Tokens)
      BY <1>2, <2>1, <3>2, ExtraParts, ConcatProperties
    <3> QED
      BY <2>1, <2>2, <3>2, <3>3, <3>4
  <2>5. CASE u.extra = "after"
    <3>1. Query(u) = (text \o and) \o Extra
      BY <2>1, <2>5 DEF Query
    <3>2. BindOption((text \o and) \o Extra) = {After(text, "=")}
      BY <1>2, <2>1, ExtraParts, TwoPairs
    <3>3. text \o and \in Seq(Tokens) /\ Query(u) \in Seq(Tokens)
      BY <1>2, <2>1, <3>1, ExtraParts, ConcatProperties
    <3> QED
      BY <2>1, <2>2, <3>1, <3>2, <3>3
  <2> QED
    BY <1>1, <2>3, <2>4, <2>5
<1> QED
  BY <1>3, <1>4, UsageParts

\* The question mark parts the query from the rest.
LEMMA FrontAndQuery ==
  ASSUME NEW u \in Usages
  PROVE  Before(Url(u), "?") = Front(u) /\ After(Url(u), "?") = Query(u)
<1>1. /\ Front(u) \in Seq(Tokens) /\ ~ Has(Front(u), "?")
      /\ Query(u) \in Seq(Tokens)
      /\ "?" \in Tokens /\ << "?" >> \in Seq(Tokens)
  BY FrontParts, QueryParts, SeparatorsAreTokens DEF Separators
<1>2. CASE Query(u) = << >>
  <2>1. Url(u) = Front(u)
    BY <1>1, <1>2, UrlParts, ConcatEmptySeq
  <2> QED
    BY <1>1, <1>2, <2>1, CutNowhere
<1>3. CASE Query(u) # << >>
  <2>1. Url(u) = Front(u) \o (<< "?" >> \o Query(u))
    BY <1>3, UrlParts
  <2>2. Url(u) = (Front(u) \o << "?" >>) \o Query(u)
    BY <1>1, <2>1, ConcatAssociative
  <2> QED
    BY <1>1, <2>2, CutAtFirst
<1> QED
  BY <1>2, <1>3

\* The place is what is left without scheme and path.
LEMMA ProtoAndPlace ==
  ASSUME NEW u \in Usages
  PROVE  /\ Proto(Url(u)) = IF u.proto = << >> THEN << >> ELSE Lower(u.proto)
         /\ Authority(Url(u)) = Place(u)
<1> DEFINE rest == Place(u) \o Path(u)
<1>1. /\ Place(u) \in Seq(Tokens) /\ Path(u) \in Seq(Tokens) /\ u.proto \in Seq(Tokens)
      /\ << >> \in Seq(Tokens) /\ << "://" >> \in Seq(Tokens) /\ "://" \in Tokens /\ "/" \in Tokens
  BY PlaceParts, PathParts, SchemeParts, SeparatorsAreTokens DEF Separators
<1>2. /\ ~ Has(Place(u), "://") /\ ~ Has(Place(u), "/") /\ ~ Has(Place(u), "@")
      /\ ~ Has(Path(u), "://") /\ ~ Has(u.proto, "://")
  BY PlaceParts, PathParts, SchemeParts DEF Separators, Plain
<1>3. rest \in Seq(Tokens) /\ ~ Has(rest, "://")
  BY <1>1, <1>2, ConcatProperties, HasConcat
<1>4. Before(Url(u), "?") = Front(u)
  BY FrontAndQuery
<1>5. Before(rest, "/") = Place(u)
  <2>1. CASE u.path
    <3>1. rest = Place(u) \o << "/" >>
      BY <2>1 DEF Path
    <3>2. Before(Place(u) \o << "/" >>, "/") = Place(u)
      BY <1>1, <1>2, CutAtEnd
    <3> QED
      BY <3>1, <3>2
  <2>2. CASE ~ u.path
    <3>1. rest = Place(u)
      BY <1>1, <2>2, ConcatEmptySeq DEF Path
    <3> QED
      BY <1>2, <3>1, CutNowhere
  <2> QED
    BY <2>1, <2>2
<1>6. CASE u.proto = << >>
  <2>1. Front(u) = rest
    BY <1>1, <1>6, ConcatEmptySeq DEF Front, Scheme
  <2> HIDE DEF rest
  <2> QED
    BY <1>2, <1>3, <1>4, <1>5, <1>6, <2>1 DEF Proto, Authority
<1>7. CASE u.proto # << >>
  <2>1. Front(u) = ((u.proto \o << "://" >>) \o Place(u)) \o Path(u)
    BY <1>7 DEF Front, Scheme
  <2>2. u.proto \o << "://" >> \in Seq(Tokens)
    BY <1>1, ConcatProperties
  <2>2a. \A s, t, v \in Seq(Tokens) : (s \o t) \o v = s \o (t \o v)
    BY ConcatAssociative
  <2>3. Front(u) = (u.proto \o << "://" >>) \o rest
    BY <1>1, <2>1, <2>2, <2>2a
  <2> HIDE DEF rest
  <2>4. /\ Has(Front(u), "://") /\ Before(Front(u), "://") = u.proto
        /\ After(Front(u), "://") = rest
    BY <1>1, <1>2, <1>3, <2>3, CutAtFirst
  <2> QED
    BY <1>2, <1>4, <1>5, <1>7, <2>4 DEF Proto, Authority
<1> QED
  BY <1>6, <1>7

-----------------------------------------------------------------------------
(* What the parser makes of a URL.                                         *)

\* With a scheme, every part is found again: a host that is no number is no
\* port, and a number that stands alone is.
LEMMA ParseOfUrl ==
  ASSUME NEW u \in Usages, u.proto # << >>
  PROVE  Parse(Url(u)) = [ proto |-> Lower(u.proto), host |-> u.host, port |-> u.port,
                           bind  |-> {HostPort(b) : b \in u.bind} ]
<1> DEFINE place == Place(u)
<1>1. Proto(Url(u)) = Lower(u.proto) /\ Authority(Url(u)) = place
  BY ProtoAndPlace
<1>2. Lower(u.proto) # << >>
  <2>1. PICK w : u.proto = << w >>
    BY UsageParts DEF Maybe
  <2>2. 1 \in DOMAIN Lower(u.proto)
    BY <2>1 DEF Lower
  <2> QED
    BY <2>2
<1>3. BindOption(After(Url(u), "?")) = {HostPort(b) : b \in u.bind}
  BY FrontAndQuery, QueryParts
<1>4. /\ u.host \in Maybe(Literals \cup Names) /\ u.port \in Maybe(Ports)
      /\ u.host \in Maybe(Words) /\ u.port \in Maybe(Words)
  BY UsageParts
<1> HIDE DEF place
<1>5. /\ (IF IsPortOnly(place) THEN << >> ELSE Before(place, ":")) = u.host
      /\ (IF IsPortOnly(place) THEN Before(place, ":") ELSE After(place, ":")) = u.port
  <2>1. CASE u.bare /\ u.host = << >>
    <3>1. place = u.port /\ ~ Has(u.port, ":")
      BY <1>4, <2>1, MaybeWords DEF place, Place, Plain, Separators
    <3>2. Before(place, ":") = u.port /\ After(place, ":") = << >>
      BY <3>1, CutNowhere
    <3>3. ASSUME u.port # << >> PROVE IsPortOnly(place)
      <4>1. PICK w \in Ports : u.port = << w >>
        BY <1>4, <3>3 DEF Maybe
      <4>2. w \in DOMAIN Value /\ Value[w] > 0
        BY EndpointAssumption
      <4> QED
        BY <3>2, <4>1, <4>2 DEF IsPortOnly, IsNumber
    <3> QED
      BY <2>1, <3>2, <3>3
  <2>2. CASE ~ (u.bare /\ u.host = << >>)
    <3>1. Before(place, ":") = u.host /\ After(place, ":") = u.port
      BY <1>4, <2>2, HostPortParts DEF place, Place
    <3>2. ~ IsNumber(u.host)
      <4>1. ASSUME NEW w \in Literals \cup Names PROVE w \notin DOMAIN Value
        BY EndpointAssumption
      <4> QED
        BY <1>4, <4>1 DEF IsNumber, Maybe
    <3>3. ~ IsPortOnly(place)
      BY <3>1, <3>2 DEF IsPortOnly
    <3> QED
      BY <3>1, <3>3
  <2> QED
    BY <2>1, <2>2
<1> QED
  BY <1>1, <1>2, <1>3, <1>5 DEF Parse

\* Without a scheme, nothing is taken for one.
LEMMA ParseWithoutScheme ==
  ASSUME NEW u \in Usages, u.proto = << >>
  PROVE  Parse(Url(u)).proto # << "udp" >>
<1>1. Proto(Url(u)) = << >>
  BY ProtoAndPlace
<1>2. << "file" >> # << "udp" >> /\ << >> # << "udp" >>
  OBVIOUS
<1> QED
  BY <1>1, <1>2 DEF Parse

\* The URL of a program that goes on says what is meant.
LEMMA UdpUrl ==
  ASSUME NEW u \in Usages, Parse(Url(u)).proto = << "udp" >>
  PROVE  Parse(Url(u)) = [ proto |-> Lower(u.proto), host |-> u.host, port |-> u.port,
                           bind  |-> {HostPort(b) : b \in u.bind} ]
  BY ParseOfUrl, ParseWithoutScheme

LEMMA MaxPortType == MaxPort \in Nat
  BY DEF MaxPort

LEMMA PortIsMeant ==
  ASSUME NEW port \in Maybe(Ports), NEW r, r.port = port
  PROVE  portno(r) = Meant(port) /\ Meant(port) \in 0 .. MaxPort
<1>1. ASSUME port = << >>
      PROVE  portno(r) = Meant(port) /\ Meant(port) \in 0 .. MaxPort
  <2>1. portno(r) = 0 /\ Meant(port) = 0
    BY <1>1 DEF portno, IsNumber, Meant
  <2> QED
    BY <2>1, MaxPortType
<1>2. ASSUME NEW w \in Ports, port = << w >>
      PROVE  portno(r) = Meant(port) /\ Meant(port) \in 0 .. MaxPort
  <2>1. w \in DOMAIN Value /\ Value[w] \in Nat /\ Value[w] > 0
    BY EndpointAssumption
  <2>2. port # << >> /\ Head(port) = w
    BY <1>2
  <2>3. IsNumber(r.port) /\ Value[Head(r.port)] = Value[w]
    BY <2>1, <2>2 DEF IsNumber
  <2>4. CASE Value[w] > MaxPort
    <3>1. Value[w] \notin 1 .. MaxPort
      BY <2>1, <2>4, MaxPortType
    <3>2. portno(r) = 0
      BY <2>3, <3>1 DEF portno
    <3>3. Meant(port) = 0
      BY <2>2, <2>4 DEF Meant
    <3> QED
      BY <3>2, <3>3, MaxPortType
  <2>5. CASE ~ (Value[w] > MaxPort)
    <3>1. Value[w] \in 1 .. MaxPort
      BY <2>1, <2>5, MaxPortType
    <3>2. portno(r) = Value[w]
      BY <2>3, <3>1 DEF portno
    <3>3. Meant(port) = Value[w]
      BY <2>2, <2>5 DEF Meant
    <3> QED
      BY <3>1, <3>2, <3>3, MaxPortType
  <2> QED
    BY <2>4, <2>5
<1>3. port = << >> \/ \E w \in Ports : port = << w >>
  BY DEF Maybe
<1> QED
  BY <1>1, <1>2, <1>3

LEMMA PortFits == \A n \in 0 .. MaxPort : n % (MaxPort + 1) = n
<1>1. \A n \in Nat : n <= 65535 => n % 65536 = n
  OBVIOUS
<1>2. MaxPort = 65535 /\ MaxPort + 1 = 65536
  BY DEF MaxPort
<1> QED
  BY <1>1, <1>2

LEMMA PortIsCut == \A n \in Nat : n % (MaxPort + 1) \in 0 .. MaxPort
<1> SUFFICES ASSUME NEW n \in Nat PROVE n % (MaxPort + 1) \in 0 .. MaxPort
  OBVIOUS
<1>1. MaxPort \in Nat /\ MaxPort + 1 > 0
  BY MaxPortType
<1>2. PICK m \in Nat : m = MaxPort
  BY <1>1
<1>3. n % (m + 1) \in Nat /\ n % (m + 1) <= m
  OBVIOUS
<1> QED
  BY <1>2, <1>3

-----------------------------------------------------------------------------
(* The socket.                                                             *)

PortToBind(b) == IF b.port = << >> THEN Meant(given.port) ELSE Value[Head(b.port)]

\* An open socket, told from what the user means alone.
OpenedAsMeant ==
  /\ asked \in CreateAddr(given.host, Meant(given.port))
  /\ socket.dst = IF given.host # Any \/ given.bind # {} THEN asked ELSE Unspec
  /\ given.bind = {} => socket.bound = IF given.host = Any THEN {asked} ELSE {}
  /\ \A b \in given.bind : socket.bound = {Inet(b.host, PortToBind(b) % (MaxPort + 1))}

Opened == stage \in {"open", "running", "sending"}

Inv ==
  /\ given \in Usages
  /\ stage \in {"given", "parsed", "open", "running", "sending", "refused", "threw"}
  /\ uri = NoUri \/ uri = Parse(Url(given))
  /\ stage = "parsed" => uri = Parse(Url(given)) /\ uri.proto = << "udp" >>
  /\ Opened => Lower(given.proto) = << "udp" >> /\ OpenedAsMeant
  /\ ~ Opened => socket = NoSocket
  /\ stage = "sending" => socket.dst.family = "inet" /\ socket.dst.port # 0
  /\ asked = Unspec \/ asked \in CreateAddr(given.host, Meant(given.port))

LEMMA InitInv == Init => Inv
  BY DEF Init, Inv, Opened

LEMMA OpenInv == Inv /\ Open => Inv'
<1> SUFFICES ASSUME Inv, Open PROVE Inv'
  OBVIOUS
<1>1. /\ given \in Usages /\ uri = Parse(Url(given)) /\ uri.proto = << "udp" >>
      /\ given' = given /\ uri' = uri /\ stage' = "open"
  BY DEF Inv, Open
<1>2. uri = [ proto |-> Lower(given.proto), host |-> given.host, port |-> given.port,
              bind  |-> {HostPort(b) : b \in given.bind} ]
  BY <1>1, UdpUrl
<1>3. /\ Lower(given.proto) = << "udp" >> /\ uri.host = given.host /\ uri.port = given.port
      /\ uri.bind = {HostPort(b) : b \in given.bind}
  BY <1>1, <1>2
<1>4. portno(uri) = Meant(given.port)
  <2>1. given.port \in Maybe(Ports)
    BY <1>1, UsageParts
  <2> QED
    BY <1>3, <2>1, PortIsMeant
<1>5. PICK requested \in CreateAddr(uri.host, portno(uri)) :
        \E at \in BindTo(requested) :
          /\ asked' = requested
          /\ CanBind(at)
          /\ socket' = [ bound |-> at,
                         dst   |-> IF uri.host # Any \/ uri.bind # {} THEN requested ELSE Unspec ]
  BY DEF Open
<1>5a. /\ asked' = requested /\ socket'.bound \in BindTo(asked') /\ CanBind(socket'.bound)
       /\ socket'.dst = IF uri.host # Any \/ uri.bind # {} THEN asked' ELSE Unspec
  BY <1>5
<1>6. asked' \in CreateAddr(given.host, Meant(given.port))
  BY <1>3, <1>4, <1>5a
<1>7. uri.bind = {} <=> given.bind = {}
  BY <1>3
<1>8. socket'.dst = IF given.host # Any \/ given.bind # {} THEN asked' ELSE Unspec
  BY <1>3, <1>5a, <1>7
<1>9. given.bind = {} => socket'.bound = IF given.host = Any THEN {asked'} ELSE {}
  BY <1>3, <1>5a, <1>7 DEF BindTo
<1>10. ASSUME NEW b \in given.bind
       PROVE  socket'.bound = {Inet(b.host, PortToBind(b) % (MaxPort + 1))}
  <2>1. /\ given.bind = {b}
        /\ b.host \in Maybe(Words) /\ b.port \in Maybe(Words)
    BY <1>1, <1>10, UsageParts
  <2>2. uri.bind = {HostPort(b)}
    BY <1>3, <2>1
  <2>3. bindip(HostPort(b)) = b.host
    BY <2>1, HostPortParts DEF bindip
  <2>4. bindport(HostPort(b)) = PortToBind(b)
    BY <1>4, <2>1, HostPortParts DEF bindport, PortToBind
  <2>5. PICK a \in CreateAddr(b.host, PortToBind(b)) : socket'.bound = {a}
    BY <1>5a, <2>2, <2>3, <2>4 DEF BindTo
  <2>6. a.family = "inet"
    BY <1>5a, <2>5 DEF CanBind
  <2>7. a = Inet(b.host, PortToBind(b) % (MaxPort + 1))
    BY <2>5, <2>6 DEF CreateAddr, Inet, Unspec
  <2> QED
    BY <2>5, <2>7
<1>11. \A b \in given.bind : PortToBind(b)' = PortToBind(b)
  BY <1>1 DEF PortToBind
<1>12. OpenedAsMeant'
  BY <1>1, <1>6, <1>8, <1>9, <1>10, <1>11 DEF OpenedAsMeant
<1> QED
  BY <1>1, <1>3, <1>6, <1>12 DEF Inv, Opened

LEMMA NextInv == Inv /\ [Next]_vars => Inv'
<1> SUFFICES ASSUME Inv, [Next]_vars PROVE Inv'
  OBVIOUS
<1>1. given' = given
  BY DEF Next, NoUrl, ParseUrl, Open, OpenThrows, StartLoops, NoTraceFile, FirstAck,
         FirstAckThrows, vars
<1>2. ASSUME asked' = asked, socket' = socket
      PROVE  OpenedAsMeant => OpenedAsMeant'
  BY <1>1, <1>2 DEF OpenedAsMeant, PortToBind
<1>3. CASE NoUrl
  BY <1>3 DEF Inv, Opened, NoUrl
<1>4. CASE ParseUrl
  BY <1>4 DEF Inv, Opened, ParseUrl
<1>5. CASE Open
  BY <1>5, OpenInv
<1>6. CASE OpenThrows
  BY <1>6 DEF Inv, Opened, OpenThrows
<1>7. CASE StartLoops
  BY <1>2, <1>7 DEF Inv, Opened, StartLoops
<1>8. CASE NoTraceFile
  BY <1>8 DEF Inv, Opened, NoTraceFile
<1>9. CASE FirstAck
  BY <1>2, <1>9 DEF Inv, Opened, FirstAck
<1>10. CASE FirstAckThrows
  BY <1>10 DEF Inv, Opened, FirstAckThrows
<1>11. CASE UNCHANGED vars
  BY <1>2, <1>11 DEF Inv, Opened, vars
<1> QED
  BY <1>3, <1>4, <1>5, <1>6, <1>7, <1>8, <1>9, <1>10, <1>11 DEF Next

LEMMA Invariant == Spec => []Inv
  BY InitInv, NextInv, PTL DEF Spec

-----------------------------------------------------------------------------
\* An address that was made of a host and a port has both, if it has a family.
LEMMA AddrParts ==
  ASSUME NEW host, NEW port \in 0 .. MaxPort, NEW a \in CreateAddr(host, port)
  PROVE  /\ a.family \in {"unspec", "inet", "inet6"} /\ a.port \in 0 .. MaxPort
         /\ a.family # "unspec" => a.host = host /\ a.port = port
         /\ host = Any => a = Inet(host, port)
<1>1. port % (MaxPort + 1) = port /\ 0 \in 0 .. MaxPort
  BY PortFits, MaxPortType
<1>2. \/ a = Inet(host, port)
      \/ a = [Inet(host, port) EXCEPT !.family = "inet6"] /\ host # Any
      \/ a = Unspec /\ host # Any
  BY <1>1 DEF CreateAddr
<1> QED
  BY <1>1, <1>2 DEF Inet, Unspec

LEMMA PortToBindType ==
  ASSUME given \in Usages, NEW b \in given.bind
  PROVE  PortToBind(b) \in Nat
<1>1. b.port \in Maybe(DOMAIN Value) /\ given.port \in Maybe(Ports)
  BY UsageParts
<1>2. Meant(given.port) \in 0 .. MaxPort
  <2>1. [port |-> given.port].port = given.port
    OBVIOUS
  <2> QED
    BY <1>1, <2>1, PortIsMeant
<1>3. CASE b.port = << >>
  BY <1>2, <1>3, MaxPortType DEF PortToBind
<1>4. ASSUME NEW w \in DOMAIN Value, b.port = << w >>
      PROVE  PortToBind(b) \in Nat
  BY <1>4, EndpointAssumption DEF PortToBind
<1> QED
  BY <1>1, <1>3, <1>4 DEF Maybe

\* The socket has one address at most, and ports are ports (app/udp_socket.cpp:92-150).
THEOREM TypeCorrect == Spec => []TypeOK
<1>1. ASSUME Inv PROVE TypeOK
  <2> USE <1>1
  <2>1. Meant(given.port) \in 0 .. MaxPort
    <3>1. [port |-> given.port].port = given.port /\ given.port \in Maybe(Ports)
      BY UsageParts DEF Inv
    <3> QED
      BY <3>1, PortIsMeant
  <2>2. Unspec.family = "unspec" /\ Unspec.port \in 0 .. MaxPort
    BY MaxPortType DEF Unspec
  <2>3. asked.family \in {"unspec", "inet", "inet6"} /\ asked.port \in 0 .. MaxPort
    BY <2>1, <2>2, AddrParts DEF Inv
  <2>4. Cardinality({}) = 0
    BY FS_EmptySet
  <2>5. CASE Opened
    <3>1. socket.dst \in {asked, Unspec}
      BY <2>5 DEF Inv, OpenedAsMeant
    <3>2. CASE given.bind = {}
      <4>1. socket.bound \in {{asked}, {}}
        BY <2>5, <3>2 DEF Inv, OpenedAsMeant
      <4>2. Cardinality(socket.bound) <= 1
        <5>1. Cardinality({asked}) = 1 /\ Cardinality({}) = 0
          BY FS_EmptySet, FS_Singleton
        <5>2. Cardinality({asked}) <= 1 /\ Cardinality({}) <= 1
          BY <5>1
        <5> QED
          BY <4>1, <5>2, Zenon
      <4>3. socket.bound \cup {socket.dst, asked} \subseteq {asked, Unspec}
        BY <3>1, <4>1
      <4> QED
        BY <2>2, <2>3, <4>2, <4>3 DEF TypeOK, Inv
    <3>3. ASSUME NEW b \in given.bind PROVE TypeOK
      <4> DEFINE a == Inet(b.host, PortToBind(b) % (MaxPort + 1))
      <4>1. socket.bound = {a}
        BY <2>5 DEF Inv, OpenedAsMeant
      <4>2. PortToBind(b) \in Nat
        BY PortToBindType DEF Inv
      <4>3. a.family = "inet" /\ a.port \in 0 .. MaxPort
        BY <4>2, PortIsCut DEF Inet
      <4> HIDE DEF a
      <4>4. Cardinality(socket.bound) <= 1
        <5>1. Cardinality({a}) = 1
          BY FS_Singleton
        <5>2. Cardinality({a}) <= 1
          BY <5>1
        <5> QED
          BY <4>1, <5>2
      <4>5. socket.bound \cup {socket.dst, asked} \subseteq {a, asked, Unspec}
        BY <3>1, <4>1
      <4> QED
        BY <2>2, <2>3, <4>3, <4>4, <4>5 DEF TypeOK, Inv
    <3> QED
      BY <3>2, <3>3
  <2>6. CASE ~ Opened
    <3>1. socket.bound = {} /\ socket.dst = Unspec
      BY <2>6 DEF Inv, NoSocket
    <3> QED
      BY <2>2, <2>3, <2>4, <3>1 DEF TypeOK, Inv
  <2> QED
    BY <2>5, <2>6
<1> QED
  BY Invariant, <1>1, PTL

\* Whatever the words, and whichever parts of a URL there are: the parser finds
\* them again (app/uri_parser.cpp:78-201).
THEOREM ParsesEveryUrl == Spec => []ParsesAsWritten
<1>1. Inv => ParsesAsWritten
  <2> SUFFICES ASSUME Inv, uri # NoUri, given.proto # << >>
               PROVE  /\ uri.proto = Lower(given.proto)
                      /\ uri.host = given.host /\ uri.port = given.port
                      /\ uri.bind = {HostPort(b) : b \in given.bind}
    BY DEF ParsesAsWritten
  <2>1. uri = [ proto |-> Lower(given.proto), host |-> given.host, port |-> given.port,
                bind  |-> {HostPort(b) : b \in given.bind} ]
    BY ParseOfUrl DEF Inv
  <2> QED
    BY <2>1
<1> QED
  BY Invariant, <1>1, PTL

LEMMA OpenedParts ==
  ASSUME Inv, Opened
  PROVE  /\ OpenedAsMeant /\ Lower(given.proto) = << "udp" >>
         /\ Meant(given.port) \in 0 .. MaxPort
         /\ asked.family # "unspec" => asked.host = given.host /\ asked.port = Meant(given.port)
         /\ given.host = Any => asked = Inet(Any, Meant(given.port))
<1>1. OpenedAsMeant /\ Lower(given.proto) = << "udp" >> /\ given \in Usages
  BY DEF Inv
<1>2. Meant(given.port) \in 0 .. MaxPort
  <2>1. [port |-> given.port].port = given.port /\ given.port \in Maybe(Ports)
    BY <1>1, UsageParts
  <2> QED
    BY <2>1, PortIsMeant
<1>3. asked \in CreateAddr(given.host, Meant(given.port))
  BY <1>1 DEF OpenedAsMeant
<1> QED
  BY <1>1, <1>2, <1>3, AddrParts

\* The socket is what the URL says, for every URL with a scheme (README.md:97-107).
THEOREM OpensEveryUrl == Spec => []OpensAsWritten
<1>1. ASSUME Inv, Opened PROVE OpensAsWritten
  <2> USE <1>1
  <2>1. given.host # Any /\ asked.family # "unspec" =>
          socket.dst.host = given.host /\ socket.dst.port = Meant(given.port)
    BY OpenedParts DEF OpenedAsMeant
  <2>2. given.host # Any /\ given.bind = {} => socket.bound = {}
    BY OpenedParts DEF OpenedAsMeant
  <2>3. ASSUME NEW b \in given.bind, b.port = << >>
        PROVE  socket.bound = {Inet(b.host, Meant(given.port))}
    <3>1. PortToBind(b) = Meant(given.port)
      BY <2>3 DEF PortToBind
    <3>2. Meant(given.port) % (MaxPort + 1) = Meant(given.port)
      BY OpenedParts, PortFits
    <3> QED
      BY <3>1, <3>2, OpenedParts DEF OpenedAsMeant
  <2>4. ASSUME NEW b \in given.bind, b.port # << >>
        PROVE  socket.bound = {Inet(b.host, Value[Head(b.port)] % (MaxPort + 1))}
    <3>1. PortToBind(b) = Value[Head(b.port)]
      BY <2>4 DEF PortToBind
    <3> QED
      BY <3>1, OpenedParts DEF OpenedAsMeant
  <2>5. given.host = Any /\ given.bind = {} =>
          socket.bound = {Inet(Any, Meant(given.port))} /\ Empty(socket.dst)
    BY OpenedParts DEF OpenedAsMeant, Empty, Unspec
  <2>6. ASSUME stage = "sending"
        PROVE  socket.dst = Inet(given.host, Meant(given.port)) /\ Meant(given.port) > 0
    <3>1. socket.dst.family = "inet" /\ socket.dst.port # 0
      BY <2>6 DEF Inv
    <3>2. socket.dst = asked
      BY <3>1, OpenedParts DEF OpenedAsMeant, Unspec
    <3>3. /\ asked \in CreateAddr(given.host, Meant(given.port))
          /\ Meant(given.port) \in 0 .. MaxPort
          /\ Meant(given.port) % (MaxPort + 1) = Meant(given.port)
      BY OpenedParts, PortFits DEF OpenedAsMeant
    <3>4. asked = Inet(given.host, Meant(given.port))
      BY <3>1, <3>2, <3>3 DEF CreateAddr, Inet, Unspec
    <3>5. asked.port = Meant(given.port)
      BY <3>4 DEF Inet
    <3> QED
      BY <3>1, <3>2, <3>3, <3>4, <3>5, MaxPortType
  <2> QED
    BY <2>1, <2>2, <2>3, <2>4, <2>5, <2>6, OpenedParts DEF OpensAsWritten
<1>2. Inv => OpensAsWritten
  BY <1>1 DEF OpensAsWritten, Opened
<1> QED
  BY Invariant, <1>2, PTL

\* Who waits for an ACK before it sends, for every URL: the one that was told of
\* no remote, unless `bind' and a port make a destination of nothing
\* (app/netinet_any.hpp:214-230, app/start.cpp:58,181).
THEOREM WaitsIfToldOfNone == Spec => []WaitsForRemote
<1>1. ASSUME Inv, stage = "running", asked.family # "unspec"
      PROVE  Empty(socket.dst) <=> given.host = Any /\ (given.bind = {} \/ Meant(given.port) = 0)
  <2> USE <1>1
  <2>1. Opened
    BY DEF Opened
  <2>2. /\ asked.host = given.host /\ asked.port = Meant(given.port)
        /\ given.host = Any => asked = Inet(Any, Meant(given.port))
        /\ socket.dst = IF given.host # Any \/ given.bind # {} THEN asked ELSE Unspec
    BY <2>1, OpenedParts DEF OpenedAsMeant
  <2>3. CASE given.host # Any
    BY <2>2, <2>3 DEF Empty
  <2>4. CASE given.host = Any /\ given.bind = {}
    BY <2>2, <2>4 DEF Empty, Unspec
  <2>5. CASE given.host = Any /\ given.bind # {}
    BY <2>2, <2>5 DEF Empty, Inet
  <2> QED
    BY <2>3, <2>4, <2>5
<1>2. Inv => WaitsForRemote
  BY <1>1 DEF WaitsForRemote
<1> QED
  BY Invariant, <1>2, PTL

\* A host that is not found is the only thing that leaves a process running that
\* neither knows its remote nor can be reached; so a listener of Session is bound
\* (app/udp_socket.cpp:117-152).
THEOREM LostOnlyIfNotFound == Spec => [](asked.family # "unspec" => KnowsOrListens)
<1>1. ASSUME Inv, asked.family # "unspec", stage = "running"
      PROVE  ~ Empty(socket.dst) \/ socket.bound # {}
  <2>1. Opened
    BY <1>1 DEF Opened
  <2>2. asked.host = given.host /\ OpenedAsMeant
    BY <1>1, <2>1, OpenedParts
  <2>3. CASE given.host # Any
    BY <1>1, <2>2, <2>3 DEF OpenedAsMeant, Empty
  <2>4. CASE given.host = Any /\ given.bind = {}
    BY <2>2, <2>4 DEF OpenedAsMeant
  <2>5. ASSUME NEW b \in given.bind PROVE socket.bound # {}
    BY <2>2, <2>5 DEF OpenedAsMeant
  <2> QED
    BY <2>3, <2>4, <2>5
<1>2. Inv => (asked.family # "unspec" => KnowsOrListens)
  BY <1>1 DEF KnowsOrListens
<1> QED
  BY Invariant, <1>2, PTL

-----------------------------------------------------------------------------
(* Two processes that were told of each other.                             *)

LEMMA OtherPeer ==
  \A p \in Peers : /\ Other(p) \in Peers
                   /\ Other(p) # p
                   /\ Other(Other(p)) = p
<1>1. PICK p, q \in Peers : p # q /\ Peers = {p, q}
  BY TwoPeersAssumption
<1>2. Other(p) = q
  <2>1. \A x \in Peers : x # p <=> x = q
    BY <1>1
  <2> QED
    BY <2>1 DEF Other
<1>3. Other(q) = p
  <2>1. \A x \in Peers : x # q <=> x = p
    BY <1>1
  <2> QED
    BY <2>1 DEF Other
<1> QED
  BY <1>1, <1>2, <1>3

LEMMA StartAddress ==
  \A p \in Peers : GivenDst(p) \in Addresses \cup {None}
BY OtherPeer, SessionAssumption DEF GivenDst, Addresses

\* Who listens is bound, and so is who is called; no address of a peer is none.
LEMMA BoundPeers ==
  ASSUME bound \in Bindings, NEW p \in Peers
  PROVE  /\ p \in Callers => Other(p) \in bound /\ GivenDst(p) = Addr(Other(p))
         /\ p \in Callers => GivenDst(p) # None
         /\ None \notin Addresses /\ None \notin Strangers
<1>1. p \in Callers => Other(p) \in bound
  BY OtherPeer, SessionAssumption
<1>2. None \notin Addresses /\ None \notin Strangers
  BY AddressAssumption DEF Addresses
<1>3. <<Other(p), 0>> \in Addresses
  BY OtherPeer, SessionAssumption DEF Addresses
<1> QED
  BY <1>1, <1>2, <1>3 DEF GivenDst, Addr

LEMMA AddrIsAddress ==
  ASSUME SessionTypeOK, NEW p \in Peers
  PROVE  Addr(p) \in Addresses
<1>1. incarnation[p] \in 0 .. MaxRestarts /\ 0 \in 0 .. MaxRestarts
  BY SessionAssumption DEF SessionTypeOK
<1> QED
  BY <1>1 DEF Addr, Addresses

\* A packet that is sent to somewhere is one from an address to an address.
LEMMA SentType ==
  ASSUME SessionTypeOK, NEW p \in Peers, NEW kind \in {"ACK", "ACKACK"},
         NEW to \in Addresses \cup Strangers
  PROVE  Sent(p, kind, to) \subseteq Packets
<1>1. Addr(p) \in Addresses
  BY AddrIsAddress
<1>2. {to} \ (Strangers \cup Left(Other(p))) \subseteq Addresses
  OBVIOUS
<1> QED
  BY <1>1, <1>2 DEF Sent, Packets

Destinations == Addresses \cup Strangers \cup {None}

LEMMA SessionTypeInit == SessionInit => SessionTypeOK
<1> SUFFICES ASSUME SessionInit PROVE SessionTypeOK
  OBVIOUS
<1>1. incarnation \in [Peers -> 0 .. MaxRestarts]
  BY SessionAssumption DEF SessionInit
<1>2. dst \in [Peers -> Destinations]
  BY StartAddress DEF SessionInit, Destinations
<1> QED
  BY <1>1, <1>2 DEF SessionInit, SessionTypeOK, Destinations

\* The steps of the sending thread.
LEMMA SenderType ==
  ASSUME SessionTypeOK, NEW p \in Peers, Sender(p)
  PROVE  SessionTypeOK'
<1> USE DEF SessionTypeOK
<1>1. /\ UNCHANGED <<bound, proc, incarnation, dst, force_break, rcv>>
      /\ snd' \in [Peers -> {"start", "sleep", "returned"}]
  BY DEF Sender, SndStart, SndSkip, SndAck, SndLost, SndTest
<1>2. CASE SndAck(p)
  <2>1. dst[p] \in Addresses \cup Strangers
    BY <1>2 DEF SndAck
  <2>2. Sent(p, "ACK", dst[p]) \subseteq Packets
    BY <2>1, SentType
  <2>3. net' = net \cup Sent(p, "ACK", dst[p])
    BY <1>2 DEF SndAck
  <2> QED
    BY <1>1, <2>2, <2>3
<1>3. CASE SndStart(p) \/ SndSkip(p) \/ SndLost(p)
  BY <1>1, <1>3 DEF SndStart, SndSkip, SndLost
<1> QED
  BY <1>2, <1>3 DEF Sender

\* What a peer makes of an ACK: it learns where to send, and may answer there.
LEMMA AckType ==
  ASSUME SessionTypeOK, NEW p \in Peers, NEW source \in Addresses \cup Strangers,
         NEW rest \in SUBSET Packets, Answers(p, source, rest) \/ LosesAnswer(p, source, rest)
  PROVE  SessionTypeOK'
<1> USE DEF SessionTypeOK
<1>1. /\ UNCHANGED <<bound, proc, incarnation, force_break, snd>>
      /\ rcv' \in [Peers -> {"start", "recvfrom", "returned", "threw"}]
  BY DEF Answers, LosesAnswer, RcvTest
<1>2. Learn(p, source)
  BY DEF Answers, LosesAnswer
<1>3. dst' \in [Peers -> Destinations] /\ dst'[p] \in Addresses \cup Strangers
  BY <1>2 DEF Learn, Destinations
<1>4. Sent(p, "ACKACK", dst'[p]) \subseteq Packets
  BY <1>3, SentType
<1>5. net' \subseteq Packets
  BY <1>4 DEF Answers, LosesAnswer
<1> QED
  BY <1>1, <1>3, <1>5 DEF Destinations

\* An ACK is answered by one of these, and by no other step.
LEMMA AckSteps ==
  ASSUME NEW p \in Peers, RcvAck(p) \/ RcvAckLost(p) \/ RcvStray(p)
  PROVE  \/ \E pkt \in Incoming(p, "ACK") : \E rest \in Remaining(pkt) :
               Answers(p, pkt.from, rest) \/ LosesAnswer(p, pkt.from, rest)
         \/ \E source \in Strangers : Answers(p, source, net) \/ LosesAnswer(p, source, net)
  BY DEF RcvAck, RcvAckLost, RcvStray

\* The steps of the receiving thread.
LEMMA ReceiverType ==
  ASSUME SessionTypeOK, NEW p \in Peers, Receiver(p)
  PROVE  SessionTypeOK'
<1>1. CASE RcvAck(p) \/ RcvAckLost(p) \/ RcvStray(p)
  <2>1. ASSUME NEW pkt \in Incoming(p, "ACK"), NEW rest \in Remaining(pkt)
        PROVE  pkt.from \in Addresses \cup Strangers /\ rest \in SUBSET Packets
    BY DEF Incoming, Remaining, SessionTypeOK, Packets
  <2>2. net \in SUBSET Packets
    BY DEF SessionTypeOK
  <2> QED
    BY <1>1, <2>1, <2>2, AckSteps, AckType
<1>2. CASE RcvAckAck(p) \/ RcvStart(p) \/ RcvNothing(p) \/ RcvThrow(p)
  <2>1. /\ UNCHANGED <<bound, proc, incarnation, dst, force_break, snd>>
        /\ rcv' \in [Peers -> {"start", "recvfrom", "returned", "threw"}]
    BY <1>2 DEF SessionTypeOK, RcvStart, RcvNothing, RcvThrow, RcvAckAck, RcvTest
  <2>2. net' \subseteq net
    BY <1>2 DEF RcvStart, RcvNothing, RcvThrow, RcvAckAck, Remaining
  <2> QED
    BY <2>1, <2>2 DEF SessionTypeOK
<1> QED
  BY <1>1, <1>2 DEF Receiver

\* Signals, the end of a process and its next start.
LEMMA ProcessType ==
  ASSUME SessionTypeOK, NEW p \in Peers,
         Interrupt(p) \/ Exit(p) \/ Crash(p) \/ Restart(p)
  PROVE  SessionTypeOK'
<1> USE DEF SessionTypeOK
<1>1. CASE Interrupt(p)
  BY <1>1 DEF Interrupt
<1>2. CASE Ends(p)
  <2>1. dst' \in [Peers -> Destinations]
    BY <1>2, StartAddress DEF Ends, Destinations
  <2> QED
    BY <1>2, <2>1 DEF Ends, Destinations
<1>3. CASE Restart(p)
  <2>1. incarnation' \in [Peers -> 0 .. MaxRestarts]
    BY <1>3, SessionAssumption DEF Restart
  <2> QED
    BY <1>3, <2>1 DEF Restart
<1> QED
  BY <1>1, <1>2, <1>3 DEF Exit, Crash

LEMMA SessionTypeNext == SessionTypeOK /\ [SessionNext]_sessionVars => SessionTypeOK'
<1> SUFFICES ASSUME SessionTypeOK, [SessionNext]_sessionVars PROVE SessionTypeOK'
  OBVIOUS
<1>1. CASE SessionNext
  BY <1>1, SenderType, ReceiverType, ProcessType DEF SessionNext
<1>2. CASE UNCHANGED sessionVars
  BY <1>2 DEF sessionVars, SessionTypeOK
<1> QED
  BY <1>1, <1>2

\* Every packet is addressed to an address, and every destination is one, through
\* all crashes, restarts and losses (app/start.cpp:86-245).
THEOREM SessionTypeCorrect == SessionSpec => []SessionTypeOK
BY SessionTypeInit, SessionTypeNext, PTL DEF SessionSpec

\* The addresses that a peer has had so far.
AddressesOf(q) == {q} \X (IF q \in bound THEN {0} ELSE 0 .. incarnation[q])

\* A caller keeps the destination it was given.  A listener has one of the other
\* peer or of a stranger, and a packet on its way is from a peer to the other: so
\* what is learned from such a packet is right however late it comes.
RemotesInv ==
  \A p \in Peers : /\ p \in Callers => dst[p] = GivenDst(p)
                   /\ dst[p] \in AddressesOf(Other(p)) \cup Strangers \cup {None}

BetweenPeers(pkt) == \E p \in Peers : /\ pkt.from \in AddressesOf(p)
                                      /\ pkt.to \in AddressesOf(Other(p))

SessionInv == SessionTypeOK /\ RemotesInv /\ \A pkt \in net : BetweenPeers(pkt)

LEMMA OwnAddress ==
  ASSUME SessionTypeOK, NEW p \in Peers
  PROVE  Addr(p) \in AddressesOf(p)
<1>1. incarnation[p] \in Nat
  BY SessionAssumption DEF SessionTypeOK
<1> QED
  BY <1>1 DEF Addr, AddressesOf

LEMMA StartRemote ==
  ASSUME SessionTypeOK, NEW p \in Peers
  PROVE  GivenDst(p) \in AddressesOf(Other(p)) \cup {None}
<1>1. CASE p \in Callers
  <2>1. Other(p) \in bound
    BY <1>1, BoundPeers DEF SessionTypeOK
  <2> QED
    BY <1>1, <2>1 DEF GivenDst, AddressesOf
<1>2. CASE p \notin Callers
  BY <1>2 DEF GivenDst
<1> QED
  BY <1>1, <1>2

\* The source of a packet that a peer reads is its remote.
LEMMA SourceIsRemote ==
  ASSUME NEW pkt, BetweenPeers(pkt), NEW p \in Peers, pkt.to = Addr(p)
  PROVE  pkt.from \in AddressesOf(Other(p))
<1>1. PICK q \in Peers : pkt.from \in AddressesOf(q) /\ pkt.to \in AddressesOf(Other(q))
  BY DEF BetweenPeers
<1>2. Other(q) = p
  BY <1>1 DEF AddressesOf, Addr
<1>3. q = Other(p)
  BY <1>2, OtherPeer
<1> QED
  BY <1>1, <1>3

\* Only a restart changes an address, and only its number.
LEMMA OnlyRestarts ==
  ASSUME SessionTypeOK, SessionNext
  PROVE  /\ bound' = bound
         /\ \A q \in Peers : \/ incarnation'[q] = incarnation[q]
                             \/ incarnation'[q] = incarnation[q] + 1
<1>1. PICK p \in Peers : \/ Sender(p) \/ Receiver(p) \/ Interrupt(p)
                         \/ Exit(p) \/ Crash(p) \/ Restart(p)
  BY DEF SessionNext
<1>2. CASE Restart(p)
  BY <1>2 DEF Restart, SessionTypeOK
<1>3. CASE ~ Restart(p)
  <2>1. CASE Sender(p)
    BY <2>1 DEF Sender, SndStart, SndSkip, SndAck, SndLost
  <2>2. CASE Receiver(p)
    BY <2>2 DEF Receiver, RcvStart, RcvNothing, RcvThrow, RcvAck, RcvAckLost,
                RcvAckAck, RcvStray, Answers, LosesAnswer
  <2>3. CASE Interrupt(p) \/ Exit(p) \/ Crash(p)
    BY <2>3 DEF Interrupt, Exit, Crash, Ends
  <2> QED
    BY <1>1, <1>3, <2>1, <2>2, <2>3
<1> QED
  BY <1>2, <1>3

\* No address is forgotten.
LEMMA AddressesGrow ==
  ASSUME SessionTypeOK, SessionNext, NEW q \in Peers
  PROVE  AddressesOf(q) \subseteq AddressesOf(q)'
<1>1. incarnation[q] \in Nat
  BY SessionAssumption DEF SessionTypeOK
<1>2. /\ bound' = bound
      /\ incarnation'[q] = incarnation[q] \/ incarnation'[q] = incarnation[q] + 1
  BY OnlyRestarts
<1>3. \A i \in 0 .. incarnation[q] : i \in 0 .. incarnation'[q]
  BY <1>1, <1>2
<1>4. ASSUME NEW a \in AddressesOf(q) PROVE a \in AddressesOf(q)'
  BY <1>2, <1>3, <1>4 DEF AddressesOf
<1> QED
  BY <1>4

\* What was between the peers still is.
LEMMA StillBetween ==
  ASSUME SessionTypeOK, SessionNext, NEW pkt, BetweenPeers(pkt)
  PROVE  BetweenPeers(pkt)'
<1>1. PICK p \in Peers : pkt.from \in AddressesOf(p) /\ pkt.to \in AddressesOf(Other(p))
  BY DEF BetweenPeers
<1>2. Other(p) \in Peers /\ Other(p)' = Other(p)
  BY OtherPeer DEF Other
<1>3. pkt.from \in AddressesOf(p)' /\ pkt.to \in AddressesOf(Other(p))'
  BY <1>1, <1>2, AddressesGrow
<1> QED
  BY <1>3 DEF BetweenPeers

LEMMA SessionInvInit == SessionInit => SessionInv
<1> SUFFICES ASSUME SessionInit PROVE SessionInv
  OBVIOUS
<1>1. SessionTypeOK
  BY SessionTypeInit
<1>2. RemotesInv
  BY <1>1, StartRemote DEF SessionInit, RemotesInv
<1> QED
  BY <1>1, <1>2 DEF SessionInit, SessionInv

\* A peer that reads an ACK keeps its destination, or takes the source if it had
\* none.
LEMMA LearnRemote ==
  ASSUME SessionInv, NEW p \in Peers,
         NEW source \in AddressesOf(Other(p)) \cup Strangers, Learn(p, source)
  PROVE  \A q \in Peers :
           /\ q \in Callers => dst'[q] = GivenDst(q)
           /\ dst'[q] \in AddressesOf(Other(q)) \cup Strangers \cup {None}
<1>1. dst \in [Peers -> Addresses \cup Strangers \cup {None}] /\ bound \in Bindings
  BY DEF SessionInv, SessionTypeOK
<1>2. \A q \in Peers : dst'[q] = IF q = p /\ dst[q] = None THEN source ELSE dst[q]
  BY <1>1 DEF Learn
<1>3. \A q \in Peers : /\ q \in Callers => dst[q] = GivenDst(q) /\ dst[q] # None
                       /\ dst[q] \in AddressesOf(Other(q)) \cup Strangers \cup {None}
  BY <1>1, BoundPeers DEF SessionInv, RemotesInv
<1> QED
  BY <1>2, <1>3

\* What a peer learns from a step that reads an ACK.
LEMMA AckLearns ==
  ASSUME SessionInv, NEW p \in Peers, RcvAck(p) \/ RcvAckLost(p) \/ RcvStray(p)
  PROVE  \E source \in AddressesOf(Other(p)) \cup Strangers : Learn(p, source)
<1>1. \A pkt \in Incoming(p, "ACK") : pkt.from \in AddressesOf(Other(p))
  BY SourceIsRemote DEF SessionInv, Incoming
<1> QED
  BY <1>1, AckSteps DEF Answers, LosesAnswer

\* Every other step leaves a peer the destination it had, or gives it the one of
\* the command line.
LEMMA NextRemotes == SessionInv /\ SessionNext => RemotesInv'
<1> SUFFICES ASSUME SessionInv, SessionNext, NEW p \in Peers
             PROVE  /\ p \in Callers => dst'[p] = GivenDst(p)
                    /\ dst'[p] \in AddressesOf(Other(p))' \cup Strangers \cup {None}
  BY DEF RemotesInv, Other, GivenDst
<1>0. dst \in [Peers -> Addresses \cup Strangers \cup {None}] /\ SessionTypeOK
  BY DEF SessionInv, SessionTypeOK
<1>1. PICK r \in Peers : \/ Sender(r) \/ Receiver(r) \/ Interrupt(r)
                         \/ Exit(r) \/ Crash(r) \/ Restart(r)
  BY DEF SessionNext
<1>2. /\ p \in Callers => dst[p] = GivenDst(p)
      /\ dst[p] \in AddressesOf(Other(p)) \cup Strangers \cup {None}
  BY DEF SessionInv, RemotesInv
<1>3. /\ p \in Callers => dst'[p] = GivenDst(p)
      /\ dst'[p] \in AddressesOf(Other(p)) \cup Strangers \cup {None}
  <2>1. CASE RcvAck(r) \/ RcvAckLost(r) \/ RcvStray(r)
    BY <2>1, AckLearns, LearnRemote
  <2>2. CASE Exit(r) \/ Crash(r)
    <3>1. dst' = [dst EXCEPT ![r] = GivenDst(r)]
      BY <2>2 DEF Exit, Crash, Ends
    <3> QED
      BY <1>0, <1>2, <3>1, StartRemote
  <2>3. CASE \/ Sender(r) \/ Interrupt(r) \/ Restart(r)
             \/ RcvStart(r) \/ RcvNothing(r) \/ RcvThrow(r) \/ RcvAckAck(r)
    <3>1. dst' = dst
      BY <2>3 DEF Sender, SndStart, SndSkip, SndAck, SndLost, Interrupt, Restart,
                  RcvStart, RcvNothing, RcvThrow, RcvAckAck
    <3> QED
      BY <1>2, <3>1
  <2> QED
    BY <1>1, <2>1, <2>2, <2>3 DEF Receiver
<1>4. AddressesOf(Other(p)) \subseteq AddressesOf(Other(p))'
  BY <1>0, OtherPeer, AddressesGrow DEF Other
<1> QED
  BY <1>3, <1>4

\* What is sent to a destination of a peer goes to its remote or leaves the model.
LEMMA SentBetween ==
  ASSUME SessionInv, NEW p \in Peers, NEW kind,
         NEW to \in AddressesOf(Other(p)) \cup Strangers,
         NEW pkt \in Sent(p, kind, to)
  PROVE  BetweenPeers(pkt)
<1>1. pkt.from = Addr(p) /\ pkt.to = to /\ to \notin Strangers
  BY DEF Sent
<1> QED
  BY <1>1, OwnAddress DEF BetweenPeers, SessionInv

\* A packet that a step adds goes from a peer to its remote.
LEMMA NewPacket ==
  ASSUME SessionInv, SessionNext, NEW pkt \in net', pkt \notin net
  PROVE  BetweenPeers(pkt)
<1>1. PICK p \in Peers : \/ Sender(p) \/ Receiver(p) \/ Interrupt(p)
                         \/ Exit(p) \/ Crash(p) \/ Restart(p)
  BY DEF SessionNext
<1>2. CASE SndAck(p)
  <2>1. pkt \in Sent(p, "ACK", dst[p])
    BY <1>2 DEF SndAck
  <2>2. dst[p] \in AddressesOf(Other(p)) \cup Strangers
    BY <1>2 DEF SndAck, SessionInv, RemotesInv
  <2> QED
    BY <2>1, <2>2, SentBetween
<1>3. CASE RcvAck(p) \/ RcvAckLost(p) \/ RcvStray(p)
  <2>1. PICK source \in AddressesOf(Other(p)) \cup Strangers : Learn(p, source)
    BY <1>3, AckLearns
  <2>2. dst'[p] \in AddressesOf(Other(p)) \cup Strangers
    <3>1. dst'[p] = IF dst[p] = None THEN source ELSE dst[p]
      BY <2>1 DEF Learn, SessionInv, SessionTypeOK
    <3> QED
      BY <2>1, <3>1 DEF SessionInv, RemotesInv
  <2>3. \A ack : \A rest \in Remaining(ack) : rest \subseteq net
    BY DEF Remaining
  <2>4. pkt \in Sent(p, "ACKACK", dst'[p])
    BY <1>3, <2>3, AckSteps DEF Answers, LosesAnswer
  <2> QED
    BY <2>2, <2>4, SentBetween
<1>4. CASE ~ (SndAck(p) \/ RcvAck(p) \/ RcvAckLost(p) \/ RcvStray(p))
  <2>1. CASE Sender(p)
    BY <1>4, <2>1 DEF Sender, SndStart, SndSkip, SndLost
  <2>2. CASE Receiver(p)
    BY <1>4, <2>2 DEF Receiver, RcvStart, RcvNothing, RcvThrow, RcvAckAck, Remaining
  <2>3. CASE Interrupt(p) \/ Exit(p) \/ Crash(p) \/ Restart(p)
    BY <2>3 DEF Interrupt, Exit, Crash, Ends, Restart
  <2> QED
    BY <1>1, <2>1, <2>2, <2>3
<1> QED
  BY <1>2, <1>3, <1>4

LEMMA SessionInvNext == SessionInv /\ [SessionNext]_sessionVars => SessionInv'
<1> SUFFICES ASSUME SessionInv, [SessionNext]_sessionVars PROVE SessionInv'
  OBVIOUS
<1>1. SessionTypeOK'
  BY SessionTypeNext DEF SessionInv
<1>2. CASE SessionNext
  <2>1. RemotesInv'
    BY <1>2, NextRemotes
  <2>2. ASSUME NEW pkt \in net' PROVE BetweenPeers(pkt)'
    <3>1. BetweenPeers(pkt)
      BY <1>2, <2>2, NewPacket DEF SessionInv
    <3> QED
      BY <1>2, <3>1, StillBetween DEF SessionInv
  <2> QED
    BY <1>1, <2>1, <2>2 DEF SessionInv
<1>3. CASE UNCHANGED sessionVars
  <2>1. /\ bound' = bound /\ incarnation' = incarnation /\ dst' = dst /\ net' = net
        /\ \A p : Other(p)' = Other(p) /\ GivenDst(p)' = GivenDst(p)
    BY <1>3 DEF sessionVars, Other, GivenDst
  <2>2. \A p : AddressesOf(p)' = AddressesOf(p) /\ AddressesOf(Other(p))' = AddressesOf(Other(p))
    BY <2>1 DEF AddressesOf, Other
  <2>3. RemotesInv'
    BY <2>1, <2>2 DEF RemotesInv, SessionInv
  <2>4. \A pkt \in net' : BetweenPeers(pkt)'
    BY <2>1, <2>2 DEF BetweenPeers, SessionInv
  <2> QED
    BY <1>1, <2>3, <2>4 DEF SessionInv
<1> QED
  BY <1>2, <1>3

LEMMA IsOrWasThere ==
  ASSUME SessionTypeOK, NEW q \in Peers, NEW a \in AddressesOf(q)
  PROVE  a = Addr(q) \/ a \in Left(q)
<1>1. CASE q \in bound
  BY <1>1 DEF AddressesOf, Addr
<1>2. CASE q \notin bound
  <2>1. incarnation[q] \in 0 .. MaxRestarts /\ MaxRestarts \in Nat
    BY SessionAssumption DEF SessionTypeOK
  <2>2. PICK i \in 0 .. incarnation[q] : a = <<q, i>>
    BY <1>2 DEF AddressesOf
  <2>3. i \in 0 .. MaxRestarts /\ (i = incarnation[q] \/ i < incarnation[q])
    BY <2>1, <2>2
  <2>4. Addr(q) = <<q, incarnation[q]>>
    BY <1>2 DEF Addr
  <2> QED
    BY <1>2, <2>2, <2>3, <2>4 DEF Left
<1> QED
  BY <1>1, <1>2

\* However often peers crash and start again, whoever else sends to them and
\* however late a packet comes: a caller sends to where its remote is, and a
\* listener is misled only by the ACK of a stranger, or by one from where a remote
\* that is not bound was before (app/start.cpp:181-184, app/udp_socket.cpp:143-145).
THEOREM SendsOnlyToTheRemote == SessionSpec => []SendsToTheRemote
<1>1. SessionInv => SendsToTheRemote
  <2> SUFFICES ASSUME SessionInv, NEW p \in Peers, Misled(p)
               PROVE  p \notin Callers /\ dst[p] \in Strangers \cup Left(Other(p))
    BY DEF SendsToTheRemote
  <2>1. /\ p \in Callers => dst[p] = GivenDst(p)
        /\ dst[p] \in AddressesOf(Other(p)) \cup Strangers \cup {None}
        /\ SessionTypeOK /\ bound \in Bindings
    BY DEF SessionInv, RemotesInv, SessionTypeOK
  <2>2. dst[p] # None /\ dst[p] # Addr(Other(p))
    BY DEF Misled
  <2>3. p \notin Callers
    BY <2>1, <2>2, BoundPeers
  <2> QED
    BY <2>1, <2>2, <2>3, OtherPeer, IsOrWasThere
<1> QED
  BY SessionInvInit, SessionInvNext, <1>1, PTL DEF SessionSpec

-----------------------------------------------------------------------------
(* What the answers of a remote may be relied on for, for any numbers,     *)
(* estimates and corrections of the system clocks.  The invariant adds what*)
(* is true of the ACKs: each is one that its sender has put down in `left'.*)

CONSTANTS AckNos, Estimates, Corrections

VARIABLES now, set, msgs, estimate, draft, left, heard

Talk == INSTANCE Echo

LeftInv ==
  /\ now \in Nat
  /\ left \in [Peers -> UNION {[D -> Nat] : D \in SUBSET AckNos}]
  /\ \A p \in Peers : \A n \in DOMAIN left[p] : left[p][n] <= now

AcksInv ==
  \A m \in msgs : m.kind = "ACK" => m.from \in Peers /\ m.ackno \in DOMAIN left[m.from]

AnswersInv ==
  \A m \in msgs : \A p \in Peers :
     m.kind = "ACKACK" /\ m.from # p =>
       /\ m.ackno \in DOMAIN left[p]
       /\ left[p][m.ackno] <= m.ts /\ m.ts <= now
       /\ m.ts \in Nat

DraftInv ==
  DOMAIN draft = Peers /\ \A p \in Peers : draft[p].kind = "ACK" /\ draft[p].from = p

TalkInv == LeftInv /\ AcksInv /\ AnswersInv /\ DraftInv

LEMMA TalkInit == Talk!Init => TalkInv
<1> SUFFICES ASSUME Talk!Init PROVE TalkInv
  OBVIOUS
<1>1. LeftInv
  <2>1. [n \in {} |-> 0] \in [{} -> Nat]
    OBVIOUS
  <2>2. {} \in SUBSET AckNos
    OBVIOUS
  <2>3. [n \in {} |-> 0] \in UNION {[D -> Nat] : D \in SUBSET AckNos}
    BY <2>1, <2>2
  <2> QED
    BY <2>3 DEF Talk!Init, LeftInv
<1>2. AcksInv /\ AnswersInv
  BY DEF Talk!Init, AcksInv, AnswersInv
<1>3. DraftInv
  BY DEF Talk!Init, DraftInv, Talk!AckMsg
<1> QED
  BY <1>1, <1>2, <1>3 DEF TalkInv

\* A clock that ticks, or is set, leaves the messages as they are.
LEMMA TickInv == TalkInv /\ Talk!Tick => TalkInv'
<1> SUFFICES ASSUME TalkInv, Talk!Tick PROVE TalkInv'
  OBVIOUS
<1>1. /\ now \in Nat /\ now' = now + 1
      /\ msgs' = msgs /\ left' = left /\ draft' = draft
  BY DEF TalkInv, LeftInv, Talk!Tick
<1>2. \A t \in Nat : t <= now => t <= now'
  BY <1>1
<1>3. \A p \in Peers : \A n \in DOMAIN left[p] : left[p][n] \in Nat
  BY DEF TalkInv, LeftInv
<1>4. LeftInv'
  BY <1>1, <1>2, <1>3 DEF TalkInv, LeftInv
<1>5. AcksInv'
  BY <1>1 DEF TalkInv, AcksInv
<1>6. AnswersInv'
  BY <1>1, <1>2 DEF TalkInv, AnswersInv
<1>7. DraftInv'
  BY <1>1 DEF TalkInv, DraftInv
<1> QED
  BY <1>4, <1>5, <1>6, <1>7 DEF TalkInv

\* A new draft is one of its own peer.
LEMMA MakeOutInv ==
  ASSUME TalkInv, NEW p \in Peers, Talk!MakeOut(p)
  PROVE  TalkInv'
<1> DEFINE new == Talk!AckMsg(p, draft[p].ackno + 1, now, Talk!Announced(estimate[p]))
<1>1. /\ now' = now /\ msgs' = msgs /\ left' = left
      /\ draft' = [draft EXCEPT ![p] = new]
  BY DEF Talk!MakeOut
<1>2. new.kind = "ACK" /\ new.from = p
  BY DEF Talk!AckMsg
<1> HIDE DEF new
<1>3. DraftInv'
  BY <1>1, <1>2 DEF TalkInv, DraftInv
<1>4. LeftInv' /\ AcksInv' /\ AnswersInv'
  BY <1>1 DEF TalkInv, LeftInv, AcksInv, AnswersInv
<1> QED
  BY <1>3, <1>4 DEF TalkInv

LEMMA SendInv ==
  ASSUME TalkInv, NEW p \in Peers, Talk!Send(p)
  PROVE  TalkInv'
<1> DEFINE n == draft[p].ackno
           longer == [m \in DOMAIN left[p] \cup {n} |-> IF m = n THEN now ELSE left[p][m]]
<1>0. n \in AckNos /\ n \notin DOMAIN left[p]
  BY DEF Talk!Send
<1>1. now \in Nat /\ now' = now /\ msgs' = msgs \cup {draft[p]} /\ draft' = draft
  BY DEF TalkInv, LeftInv, Talk!Send
<1>2. left' = [left EXCEPT ![p] = longer]
  BY DEF Talk!Send
<1>2a. draft[p].kind = "ACK" /\ draft[p].from = p
  BY DEF TalkInv, DraftInv
<1> HIDE DEF n
<1>3. PICK D \in SUBSET AckNos : left[p] \in [D -> Nat]
  BY DEF TalkInv, LeftInv
<1>4. longer \in [D \cup {n} -> Nat]
  BY <1>1, <1>3
<1>5. D \cup {n} \in SUBSET AckNos
  BY <1>0, <1>3
<1>6. longer \in UNION {[A -> Nat] : A \in SUBSET AckNos}
  BY <1>4, <1>5
<1>7. left'[p] = longer /\ \A q \in Peers : q # p => left'[q] = left[q]
  BY <1>2 DEF TalkInv, LeftInv
<1> HIDE DEF longer
<1>8. \A q \in Peers : \A m \in DOMAIN left[q] :
         m \in DOMAIN left'[q] /\ (left'[q][m] = left[q][m])
  <2>1. \A m \in DOMAIN left[p] : m \in DOMAIN longer /\ longer[m] = left[p][m]
    BY <1>0 DEF longer
  <2> QED
    BY <1>7, <2>1
<1>9. LeftInv'
  <2>1. left' \in [Peers -> UNION {[A -> Nat] : A \in SUBSET AckNos}]
    BY <1>2, <1>6 DEF TalkInv, LeftInv
  <2>2. \A m \in DOMAIN longer : longer[m] <= now
    BY <1>1 DEF longer, TalkInv, LeftInv
  <2>3. \A q \in Peers : \A m \in DOMAIN left'[q] : left'[q][m] <= now'
    BY <1>1, <1>7, <2>2 DEF TalkInv, LeftInv
  <2> QED
    BY <1>1, <2>1, <2>3 DEF LeftInv
<1>10. n \in DOMAIN left'[p]
  BY <1>7 DEF longer
<1>11. AcksInv'
  <2> SUFFICES ASSUME NEW m \in msgs', m.kind = "ACK"
               PROVE  m.from \in Peers /\ m.ackno \in DOMAIN left'[m.from]
    BY DEF AcksInv
  <2>1. CASE m \in msgs
    BY <2>1, <1>8 DEF TalkInv, AcksInv
  <2>2. CASE m = draft[p]
    BY <2>2, <1>10, <1>2a DEF n
  <2> QED
    BY <1>1, <2>1, <2>2
<1>12. AnswersInv'
  <2> SUFFICES ASSUME NEW m \in msgs', NEW q \in Peers, m.kind = "ACKACK", m.from # q
               PROVE  /\ m.ackno \in DOMAIN left'[q]
                      /\ left'[q][m.ackno] <= m.ts /\ m.ts <= now'
                      /\ m.ts \in Nat
    BY DEF AnswersInv
  <2>1. m \in msgs
    BY <1>1, <1>2a
  <2> QED
    BY <2>1, <1>1, <1>8 DEF TalkInv, AnswersInv
<1>13. DraftInv'
  BY <1>1 DEF TalkInv, DraftInv
<1> QED
  BY <1>9, <1>11, <1>12, <1>13 DEF TalkInv

\* The answer goes to the one peer that is not its sender: the one whose ACK it
\* answers.
LEMMA AnswerInv ==
  ASSUME TalkInv, NEW p \in Peers, NEW a \in msgs, Talk!Answer(p, a)
  PROVE  TalkInv'
<1>1. /\ now \in Nat /\ now' = now /\ left' = left /\ draft' = draft
      /\ msgs' = msgs \cup {Talk!AckAckMsg(p, a.ackno, now, now + set[p])}
  BY DEF TalkInv, LeftInv, Talk!Answer
<1>2. a.kind = "ACK" /\ a.from # p /\ a.from \in Peers /\ a.ackno \in DOMAIN left[a.from]
  BY DEF TalkInv, AcksInv, Talk!Answer
<1>3. \A q \in Peers : q # p => q = a.from
  BY <1>2, TwoPeersAssumption
<1>4. LeftInv'
  BY <1>1 DEF TalkInv, LeftInv
<1>5. AcksInv'
  BY <1>1 DEF TalkInv, AcksInv, Talk!AckAckMsg
<1>6. AnswersInv'
  <2> SUFFICES ASSUME NEW m \in msgs', NEW q \in Peers, m.kind = "ACKACK", m.from # q
               PROVE  /\ m.ackno \in DOMAIN left[q]
                      /\ left[q][m.ackno] <= m.ts /\ m.ts <= now
                      /\ m.ts \in Nat
    BY <1>1 DEF AnswersInv
  <2>1. CASE m \in msgs
    BY <2>1 DEF TalkInv, AnswersInv
  <2>2. CASE m = Talk!AckAckMsg(p, a.ackno, now, now + set[p])
    <3>1. m.from = p /\ m.ackno = a.ackno /\ m.ts = now
      BY <2>2 DEF Talk!AckAckMsg
    <3>2. q = a.from
      BY <3>1, <1>3
    <3>3. left[q][a.ackno] <= now
      BY <3>2, <1>2 DEF TalkInv, LeftInv
    <3> QED
      BY <3>1, <3>2, <3>3, <1>1, <1>2
  <2> QED
    BY <1>1, <2>1, <2>2
<1>7. DraftInv'
  BY <1>1 DEF TalkInv, DraftInv
<1> QED
  BY <1>4, <1>5, <1>6, <1>7 DEF TalkInv

LEMMA TalkNext == TalkInv /\ [Talk!Next]_Talk!vars => TalkInv'
<1> SUFFICES ASSUME TalkInv, [Talk!Next]_Talk!vars PROVE TalkInv'
  OBVIOUS
<1> USE DEF TalkInv, LeftInv, AcksInv, AnswersInv, DraftInv
<1>1. CASE Talk!Tick
  BY <1>1, TickInv
<1>2. ASSUME NEW p \in Peers, NEW d \in Corrections, Talk!SetClock(p, d) PROVE TalkInv'
  BY <1>2 DEF Talk!SetClock
<1>3. ASSUME NEW p \in Peers, Talk!MakeOut(p) \/ Talk!Send(p) PROVE TalkInv'
  BY <1>3, MakeOutInv, SendInv
<1>4. ASSUME NEW p \in Peers, NEW m \in msgs, Talk!Answer(p, m) PROVE TalkInv'
  BY <1>4, AnswerInv
<1>5. ASSUME NEW p \in Peers, NEW m \in msgs, NEW est \in Estimates, Talk!Hear(p, m, est) PROVE TalkInv'
  BY <1>5 DEF Talk!Hear
<1>6. CASE UNCHANGED Talk!vars
  BY <1>6 DEF Talk!vars
<1> QED
  BY <1>1, <1>2, <1>3, <1>4, <1>5, <1>6 DEF Talk!Next

\* Whatever is lost, repeated or late, and however the system clocks are set: an
\* ACKACK names an ACK that its reader sent, and was made out between that ACK's
\* leaving and now (app/start.cpp:98-115).
THEOREM AnswersAreToAcks == Talk!Spec => []Talk!AnswersFollowAcks
<1>1. TalkInv => Talk!AnswersFollowAcks
  BY DEF TalkInv, AnswersInv, Talk!AnswersFollowAcks
<1> QED
  BY TalkInit, TalkNext, <1>1, PTL DEF Talk!Spec

=============================================================================
