------------------------------- MODULE UriOps -------------------------------
(***************************************************************************)
(* UriParser::Parse of app/uri_parser.cpp over tokens: a URL is a sequence *)
(* of words and of the separators "://", "?", "/", "@", ":", "&" and "=".  *)
(* "://" occurs once at most.  Of the query only `bind' is kept, the one   *)
(* key that is read; the path and the credentials are cut off.             *)
(***************************************************************************)
EXTENDS Integers, Sequences, FiniteSets

CONSTANTS Value,     \* the number a word of digits stands for
          LowerCase  \* the lower case of the words that have upper case letters

Separators == {"://", "?", "/", "@", ":", "&", "="}

Lower(words) == [i \in DOMAIN words |-> IF words[i] \in DOMAIN LowerCase
                                        THEN LowerCase[words[i]] ELSE words[i]]

Has(s, t) == \E i \in DOMAIN s : s[i] = t

FirstAt(s, t) == CHOOSE i \in DOMAIN s : s[i] = t /\ \A j \in 1 .. i - 1 : s[j] # t

\* What is in front of the first t, or all of s; what comes after it, or nothing.
Before(s, t) == IF Has(s, t) THEN SubSeq(s, 1, FirstAt(s, t) - 1) ELSE s
After(s, t) == IF Has(s, t) THEN SubSeq(s, FirstAt(s, t) + 1, Len(s)) ELSE << >>

IsNumber(s) == s # << >> /\ Head(s) \in DOMAIN Value

-----------------------------------------------------------------------------
\* The pairs of the query; a later one overrides an earlier one.
PairStarts(query) == {i \in DOMAIN query : i = 1 \/ query[i - 1] = "&"}

PairAt(query, i) == Before(SubSeq(query, i, Len(query)), "&")

Binds(query) == {i \in PairStarts(query) : /\ Has(PairAt(query, i), "=")
                                           /\ Before(PairAt(query, i), "=") = << "bind" >>}

\* Mutant: only the first pair is read.
BindOptionFirst(query) ==
  IF 1 \in Binds(query) THEN {After(PairAt(query, 1), "=")} ELSE {}

\* The values of `bind': one or none.
BindOption(query) ==
  {After(PairAt(query, i), "=") : i \in {j \in Binds(query) : \A k \in Binds(query) : k <= j}}

Authority(url) ==
  LET front  == Before(url, "?")
      rest   == IF Has(front, "://") THEN After(front, "://") ELSE front
      noPath == Before(rest, "/")
  IN  IF Has(noPath, "@") THEN After(noPath, "@") ELSE noPath

Proto(url) ==
  LET front == Before(url, "?")
  IN  IF Has(front, "://") THEN Lower(Before(front, "://")) ELSE << >>

\* A host that is a number is a port.
IsPortOnly(authority) ==
  /\ After(authority, ":") = << >>
  /\ LET host == Before(authority, ":")
     IN  IsNumber(host) /\ Len(host) = 1 /\ Value[Head(host)] > 0

Parse(url) ==
  LET authority == Authority(url)
      alone == IsPortOnly(authority)
      host  == IF alone THEN << >> ELSE Before(authority, ":")
      port  == IF alone THEN Before(authority, ":") ELSE After(authority, ":")
      file  == Proto(url) = << >> /\ port = << >>
  IN  [ proto |-> IF file THEN << "file" >> ELSE Proto(url),
        host  |-> IF file THEN << >> ELSE host,
        port  |-> port,
        bind  |-> BindOption(After(url, "?")) ]

MaxPort == 65535

\* 0 stands for a port that is missing or out of range.
portno(uri) ==
  IF IsNumber(uri.port) /\ Value[Head(uri.port)] \in 1 .. MaxPort
  THEN Value[Head(uri.port)] ELSE 0

=============================================================================
