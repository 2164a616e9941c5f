------------------------------ MODULE Endpoint ------------------------------
(***************************************************************************)
(* How the URL of the command line becomes the socket of a process:        *)
(* run and create_socket of app/start.cpp up to the first ACK that leaves, *)
(* UriParser, the constructor of socket_udp, CreateAddr and sendto.        *)
(*                                                                         *)
(* `given' is what the user means, `Url' the URL that says so in the form  *)
(* of README.md:97-107.  A word for a host is an IPv4 literal or a name; a *)
(* name is looked up, and may be found with either family or not at all.   *)
(***************************************************************************)
EXTENDS UriOps

CONSTANTS Literals, Names,   \* the words for hosts
          Ports              \* the words for ports of a remote; one may also bind to "0"

ASSUME EndpointAssumption ==
  /\ Ports \subseteq DOMAIN Value
  /\ \A w \in DOMAIN Value : Value[w] \in Nat
  /\ \A w \in Ports : Value[w] > 0
  /\ (Literals \cup Names) \cap DOMAIN Value = {}
  /\ (Literals \cup Names \cup DOMAIN Value) \cap Separators = {}

VARIABLES given,    \* what the user means
          stage,    \* "given", "parsed", "open", "running" (the loops start),
                    \* "sending" (an ACK has left), "refused" (run returns),
                    \* "threw" (nobody catches it)
          uri,      \* the UriParser object
          asked,    \* sa_requested
          socket    \* what the socket is bound to, and m_dst_addr

vars == <<given, stage, uri, asked, socket>>

Any == << >>
Unspec == [family |-> "unspec", host |-> Any, port |-> 0]
Inet(host, port) == [family |-> "inet", host |-> host, port |-> port]

\* Mutant: an address without a host is no address.
EmptyWithoutHost(addr) == addr.family = "unspec" \/ addr.host = Any

\* sockaddr_any::empty.
Empty(addr) ==
  \/ addr.family = "unspec"
  \/ addr.host = Any /\ addr.port = 0

NoUri == [proto |-> << >>, host |-> << >>, port |-> << >>, bind |-> {}]
NoSocket == [bound |-> {}, dst |-> Unspec]

-----------------------------------------------------------------------------
\* A word, or none.
Maybe(words) == {<< >>} \cup {<< w >> : w \in words}

Usages == [ proto : Maybe({"udp", "UDP", "rtp"}),
            host  : Maybe(Literals \cup Names),
            port  : Maybe(Ports),
            bare  : BOOLEAN,   \* without host, the port stands alone
            path  : BOOLEAN,   \* a slash ends the place
            extra : {"none", "before", "after"},   \* another option
            bind  : {{}} \cup {{b} : b \in [host : Maybe(Literals \cup Names), port : Maybe(DOMAIN Value)]} ]

HostPort(u) == u.host \o IF u.port = << >> THEN << >> ELSE << ":" >> \o u.port

Url(u) ==
  LET extra == << "mode", "=", "x" >>
      bind  == IF u.bind = {} THEN << >>
               ELSE << "bind", "=" >> \o HostPort(CHOOSE b \in u.bind : TRUE)
      query == CASE u.extra = "none"   -> bind
                 [] u.extra = "before" -> extra \o (IF bind = << >> THEN bind ELSE << "&" >> \o bind)
                 [] u.extra = "after"  -> (IF bind = << >> THEN bind ELSE bind \o << "&" >>) \o extra
      place == IF u.bare /\ u.host = << >> THEN u.port ELSE HostPort(u)
  IN  (IF u.proto = << >> THEN << >> ELSE u.proto \o << "://" >>)
        \o place
        \o (IF u.path THEN << "/" >> ELSE << >>)
        \o IF query = << >> THEN << >> ELSE << "?" >> \o query

Init == /\ given \in Usages
        /\ stage = "given"
        /\ uri = NoUri /\ asked = Unspec /\ socket = NoSocket

\* The command line may come without a URL.
NoUrl ==
  /\ stage = "given" /\ Url(given) = << >>
  /\ stage' = "refused"
  /\ UNCHANGED <<given, uri, asked, socket>>

ParseUrl ==
  /\ stage = "given" /\ Url(given) # << >>
  /\ uri' = Parse(Url(given))
  /\ stage' = IF uri'.proto = << "udp" >> THEN "parsed" ELSE "refused"
  /\ UNCHANGED <<given, asked, socket>>

-----------------------------------------------------------------------------
(* The constructor of socket_udp.                                          *)

\* Mutant: the port keeps all its bits.
CreateAddrWide(host, port) ==
  IF host = Any \/ Head(host) \in Literals
  THEN {Inet(host, port)}
  ELSE {Inet(host, port), [Inet(host, port) EXCEPT !.family = "inet6"], Unspec}

\* The addresses CreateAddr may make of a host.  htons keeps 16 bits of a port.
CreateAddr(host, port) ==
  IF host = Any \/ Head(host) \in Literals
  THEN {Inet(host, port % (MaxPort + 1))}
  ELSE {Inet(host, port % (MaxPort + 1)), [Inet(host, port % (MaxPort + 1)) EXCEPT !.family = "inet6"], Unspec}

bindip(option) == Before(option, ":")

\* stoi does not take an empty text.
bindportThrows(option) == Has(option, ":") /\ ~ IsNumber(After(option, ":"))

bindport(option) ==
  IF Has(option, ":") THEN Value[Head(After(option, ":"))] ELSE portno(uri)

\* What bind() may be called with: each is the set of one address, or of none.
BindTo(requested) ==
  IF uri.bind # {}
  THEN UNION {{{a} : a \in CreateAddr(bindip(o), bindport(o))} : o \in uri.bind}
  ELSE IF uri.host = Any THEN {{requested}} ELSE {{}}

\* Mutant: nobody looks at what bind() returns.
CanBindAnything(bound) == TRUE

\* bind() takes an address of the family of the socket, AF_INET, and no other.
CanBind(bound) == \A a \in bound : a.family = "inet"

Open ==
  /\ stage = "parsed"
  /\ \A o \in uri.bind : ~ bindportThrows(o)
  /\ \E requested \in CreateAddr(uri.host, portno(uri)) : \E bound \in BindTo(requested) :
       /\ asked' = requested
       /\ CanBind(bound)
       /\ socket' = [ bound |-> bound,
                      dst   |-> IF uri.host # Any \/ uri.bind # {} THEN requested ELSE Unspec ]
  /\ stage' = "open"
  /\ UNCHANGED <<given, uri>>

\* The system gives no socket, stoi throws, or bind() fails: for an address of
\* another family, or of none, as for one that is taken.
OpenThrows ==
  /\ stage = "parsed"
  /\ stage' = "threw"
  /\ UNCHANGED <<given, uri, asked, socket>>

-----------------------------------------------------------------------------
\* There is a trace file, or none is asked for.
StartLoops ==
  /\ stage = "open"
  /\ stage' = "running"
  /\ UNCHANGED <<given, uri, asked, socket>>

\* The trace file can not be opened: run returns and the socket is closed.
NoTraceFile ==
  /\ stage = "open"
  /\ stage' = "refused"
  /\ socket' = NoSocket
  /\ UNCHANGED <<given, uri, asked>>

\* The first ACK, if it has somewhere to go.  The system sends from an AF_INET
\* socket to no other family, and to no port 0.
FirstAck ==
  /\ stage = "running" /\ ~ Empty(socket.dst)
  /\ socket.dst.family = "inet" /\ socket.dst.port # 0
  /\ stage' = "sending"
  /\ UNCHANGED <<given, uri, asked, socket>>

\* sendto() fails, for that or another reason; the main thread throws.
FirstAckThrows ==
  /\ stage = "running" /\ ~ Empty(socket.dst)
  /\ stage' = "threw"
  /\ socket' = NoSocket
  /\ UNCHANGED <<given, uri, asked>>

Next == \/ NoUrl \/ ParseUrl \/ Open \/ OpenThrows \/ StartLoops \/ NoTraceFile
        \/ FirstAck \/ FirstAckThrows

Spec == Init /\ [][Next]_vars

-----------------------------------------------------------------------------
\* The number the user means by a port, 0 for none or for one out of range.
Meant(port) == IF port = << >> \/ Value[Head(port)] > MaxPort THEN 0 ELSE Value[Head(port)]

\* The socket has at most one address, and a destination of a known family.
TypeOK ==
  /\ stage \in {"given", "parsed", "open", "running", "sending", "refused", "threw"}
  /\ Cardinality(socket.bound) <= 1
  /\ \A a \in socket.bound \cup {socket.dst, asked} :
       a.family \in {"unspec", "inet", "inet6"} /\ a.port \in 0 .. MaxPort

\* The parser finds in the URL what the user put into it, whichever parts there
\* are and in whatever order the options come (app/uri_parser.cpp:78-201).
ParsesAsWritten ==
  uri # NoUri /\ given.proto # << >> =>
    /\ uri.proto = Lower(given.proto) /\ uri.host = given.host /\ uri.port = given.port
    /\ uri.bind = {HostPort(b) : b \in given.bind}

\* The socket is what the URL says (README.md:97-107): with a remote it sends to
\* that host and port, and is bound if and only if `bind' is there; without
\* remote and `bind' it is bound to the port and waits for the first ACK.  A port
\* out of range is not refused: that of the place becomes 0, that of `bind' loses
\* its high bits.  A name counts if it is found as an IPv4 address, for `bind' at
\* once and for the remote when the first ACK is sent.
OpensAsWritten ==
  stage \in {"open", "running", "sending"} =>
    /\ Lower(given.proto) = << "udp" >>
    /\ given.host # Any /\ asked.family # "unspec" =>
         socket.dst.host = given.host /\ socket.dst.port = Meant(given.port)
    /\ stage = "sending" =>
         socket.dst = Inet(given.host, Meant(given.port)) /\ Meant(given.port) > 0
    /\ given.host # Any /\ given.bind = {} => socket.bound = {}
    /\ \A b \in given.bind : b.port = << >> =>
         socket.bound = {Inet(b.host, Meant(given.port))}
    /\ \A b \in given.bind : b.port # << >> =>
         socket.bound = {Inet(b.host, Value[Head(b.port)] % (MaxPort + 1))}
    /\ given.host = Any /\ given.bind = {} =>
         socket.bound = {Inet(Any, Meant(given.port))} /\ Empty(socket.dst)

\* A process that was told of no remote sends nothing until it gets an ACK, with
\* one exception: `bind' and a port, and no host, make a destination that is not
\* empty, and the process never learns another (app/udp_socket.cpp:143-145,
\* app/netinet_any.hpp:214-230, app/start.cpp:58,181).  One that was told of a
\* remote never waits, if the name was found.
WaitsForRemote ==
  stage = "running" /\ asked.family # "unspec" =>
    (Empty(socket.dst) <=> given.host = Any /\ (given.bind = {} \/ Meant(given.port) = 0))

-----------------------------------------------------------------------------
\* app/udp_socket.cpp:104-107 has an error for a host that gives no address:
\* throw runtime_error("create_addr_inet failed").  A process would never run
\* that neither knows its remote nor can be reached.
KnowsOrListens == stage = "running" => ~ Empty(socket.dst) \/ socket.bound # {}

=============================================================================
