# Verification of drift-tracer

`drift-tracer` measures the round trip time and the drift between the clocks of
two hosts the way SRT does. Two processes exchange ACK and ACKACK packets over
UDP every 10 ms; each one logs, per ACKACK, a sample of the RTT, the smoothed RTT,
a drift sample, and the time base of the remote's clock with the corrections
("overdrift") made to it.

This directory holds TLA+ models of that program, TLC configurations that check
them on small instances, and proofs checked by TLAPS. `PROJECT.json` maps every
definition to the lines it models. Paths below are relative to the repository.

## 1. The system

### Components, state and operations

| Component | Source | State | Operations |
|---|---|---|---|
| ACK window | `app/ack_window.hpp` | a ring of records (number, send time), `latest_idx`, `oldest_idx` | `store`, `acknowledge` |
| RTT estimator | `app/path.hpp`, `app/utils.hpp`, `app/start.cpp:118-127` | `g_path.rtt`, `g_path.rtt_var` | one update per ACKACK, with `avg_rma` |
| Drift tracer | `app/drift_tracer.hpp` | sum and number of the samples of a span, last drift, overdrift | `update`, `drift`, `overdrift` |
| TSBPD time base | `app/tsbpd.hpp`, `app/tsbpd.cpp` | time base, `m_bTsbPdWrapCheck`, first RTT, a drift tracer | `on_ackack`, `updateTsbPdTimeBase`, `get_pkt_time_base` |
| ACK threads of a peer | `app/start.cpp` | `g_path`, `g_tsbpd`, and what each thread has in hand | `ack_sending_loop`, `ack_reply_loop`, `on_ctrl_ack`, `on_ctrl_ackack` |
| Session | `app/start.cpp`, `app/udp_socket.*`, `app/drift_tracer_app.cpp` | `m_dst_addr`, `force_break`, life of threads and processes | `run`, `main`, signal handler, `send`, `recvfrom`, `set_dst_addr` |
| Endpoint | `app/start.cpp:196-240`, `app/udp_socket.cpp`, `app/netinet_any.hpp` | the bound address, `m_dst_addr` | `run` up to its loops, `create_socket`, constructor of `socket_udp`, `CreateAddr` |
| URI parser | `app/uri_parser.cpp` | the parts of a URL | `Parse`, `portno`, `queryValue` |
| Packets | `src/packet/*.hpp`, `src/bits.hpp`, `src/buf_view.hpp` | bytes of a buffer | get and set a field, flag and type |
| Trace file | `app/stats_logger.hpp` | an open file | `trace` |
| Command line | `app/drift_tracer_app.cpp` | options | `main` |
| Offline scripts | `scripts/*.py` | a trace; `drift_tracer` of `plot-drift-model.py` | a time base and a drift per line; plots |

### How they interact

    main --> run --> create_socket --> UriParser, socket_udp
              |
              +-- ack_sending_loop (this thread)      every 10 ms: ACK ------> remote
              |       reads g_path.rtt, stores into g_path.ack_records
              |
              +-- ack_reply_loop (std::async)         ACK    -> on_ctrl_ack: ACKACK -> remote
                      ACKACK -> on_ctrl_ackack: acknowledge, estimator, g_tsbpd, trace line

The two threads share `g_path` (under `g_path_mut`), the destination address (an
atomic) and `force_break` (an atomic). `g_tsbpd` belongs to the receiving thread. A
process whose URL has no host takes the source of the first ACK for its
destination.

### What is hard

* *Two threads and a clock.* The ACK leaves, the clock is read and the record is
  stored in three steps (`app/start.cpp:83-94`); the ACKACK is received, the clock is
  read and the number looked up in three others (`:159-161,114`). Every order occurs.
* *UDP.* Packets are lost, repeated, delayed and reordered, and so are the numbers
  that reach `acknowledge` and the timestamps that reach `on_ackack`.
* *A ring that is reset.* The window wraps, overwrites its oldest record when it is
  full, forgets all records up to the one found, and jumps back to slot 0 when that was
  the last one, on one of two paths.
* *Buffers that are used again.* All ACKs are made in one buffer and all datagrams read
  into another; fields are 32 bits wide whatever goes into them.
* *Arithmetic.* `avg_rma` mixes `int` and `size_t`; the drift is a truncated mean; the
  remote's clock wraps round every 71 minutes.
* *Life and death.* Threads that throw, a blocking `recvfrom`, outages, restarts of one
  side whose numbers and timestamps begin anew.

Section 5 lists what goes wrong; `PROJECT.json` has every hazard at its line with
the properties that would notice it.

### What makes each part correct

* ACK window: a look-up finds a number if and only if it is among the `SIZE - 1` newest
  stored and neither it nor a newer one was found before, and it returns the send
  time of that very number.
* Estimator: the estimate lies within its samples and settles on a steady path.
* Drift tracer: applied to the base, its corrections keep the base within the
  tolerance and never push it further away.
* Time base: base plus timestamp is the remote's true clock, over wraps, reordering
  and corrections; drift samples are measured against it.
* Trace and scripts: the base that the scripts work out from the trace is that of the program,
  and so is the drift, if the program compensates the RTT as the scripts do.
* Threads: the window sees only steps of its own specification; a round trip is that of the
  very ACK, short of it only by what passed before the clock was read; a look-up fails only
  for a good reason.
* Packets: what arrives is what was said, and an answer is never older than its question.
* Session: a process that was given its remote sends to it and to nobody else, one that listens
  to whom its first ACK was from; peers that run and know each other get ACKACKs for ever; a
  process asked to stop stops.
* Endpoint: the socket is the one that the URL describes.

## 2. Modules

| Module | Models | Extends |
|---|---|---|
| `AckWindowOps` | the class `ack_window` as operators on a record | Integers |
| `AckWindow` | the calls made on it, as a state machine | `AckWindowOps` |
| `AckQueue` | what the window promises: a bounded queue | Integers, Sequences |
| `AckWindowLemmas` | what one call does to the records, for any caller | `AckWindowOps`, TLAPS |
| `AckWindowProofs` | theorems on `AckWindow` | `AckWindow`, `AckWindowLemmas` |
| `CInt` | C++ division and `abs` | Integers |
| `RttOps`, `RttEstimator` | `avg_rma` and the estimator of `on_ctrl_ackack` | `CInt` |
| `RttEstimatorProofs` | theorems on `RttEstimator` | `RttEstimator`, TLAPS |
| `DriftTracerOps`, `DriftTracer` | `DriftTracer::update`, and the loop it is used in | `CInt` |
| `DriftTracerProofs` | theorems on `DriftTracer` | `DriftTracer`, TLAPS |
| `Timestamps` | the constants of a wrapping 32-bit clock | Integers |
| `TsbpdOps` | the class `tsbpd` | `DriftTracerOps`, `Timestamps` |
| `TraceOps` | lines of the trace, and the scripts that read them | `Timestamps`, Sequences |
| `Tsbpd` | `g_tsbpd` under the ACKACKs of a remote, its trace, the scripts on it | `TsbpdOps`, `TraceOps` |
| `TsbpdProofs` | theorems on `Tsbpd` | `Tsbpd`, TLAPS |
| `Peer` | both threads of one process over window, estimator and time base | the three `...Ops` |
| `PeerProofs` | theorems on `Peer` | `Peer`, `AckWindowLemmas` |
| `TwoPeers` | the two processes of an exchange | |
| `PacketOps` | fields, flag, type and length of the packets | Integers |
| `Echo` | what two peers tell each other, free of bytes | `TwoPeers` |
| `Wire` | two peers that talk through buffers and datagrams | `PacketOps`, `TwoPeers` |
| `WireProofs` | theorems on `Wire` | `Wire`, TLAPS |
| `Session` | two processes, the network, signals, crashes, restarts | `TwoPeers` |
| `UriOps`, `Endpoint` | `UriParser::Parse`, and how a URL becomes a socket, or `run` refuses it | Sequences |
| `PeeringProofs` | theorems on `Endpoint`, `Session` and `Echo` | `Endpoint`, `Session`, TLAPS |
| `MC...` | values of the constants for TLC | the module of that name |

The pattern is the same throughout: an `...Ops` module has the class as a record and its
methods as operators that return the new record, and the state machine has one action
per call or per step of a thread. `Peer` composes the components by the same
operators the single machines use, so what is shown of them there is about the same
definitions.

### AckWindow

`window` is the object: `records_` (a function on `Slots`), `latest_idx`, `oldest_idx`.
`Store` is `store`, `AfterAcknowledge` and `MeasuredRtt` are the effect and the result of
`acknowledge`. The two scan loops of `acknowledge` (not wrapped, wrapped) are one set
`Scan` of positions that run past the end of the array when the ring is wrapped;
`EmptiesWindow` says in which of the loops the reset to slot 0 happens. In the wrapped
loop the test compares a position that never equals `latest_idx`, so that loop never
resets: the model says so too. The steady and the system time of an entry are always
treated alike and are one field; `pktseqno` is never used.

`AckWindow` makes the three calls the program makes: store, use up a number without a
store (a short send), and look up a number; and `Restart`, a new process with a new window
that counts from 1. A look-up may ask for any number, as an ACKACK that was meant for a
former run may bring one that this run has not given out, or has given to another ACK.
`sent` and `answered` are history variables for the properties.

`AckQueue` is the abstract specification: a sequence of pending records; storing
appends and drops the oldest beyond `Capacity = SIZE - 1`; looking up a number that is
there drops everything up to it and gives the time since it was sent; looking up any
other number gives `NotFound` and changes nothing. `ImplementsQueue` is the refinement
(`PendingOf` reads the queue out of the ring).

### RttEstimator

`NextRtt` and `NextRttVar` are `app/start.cpp:118-127`. `avg_rma` adds an `int` to a
`size_t` product and cuts the quotient to an `int`: the model wraps at `SizeMod` and
`IntMod` where C++ does, so a negative estimate goes through a huge unsigned number as
it does in the program. A sample may be negative (a miss gives -1, and see 5.2).
`steady` says that the path has settled; `lo`, `hi`, `first` are history.

### DriftTracer

`Update` is one call of `update`: count, add, clear the overdrift; at the end of a span
take the mean (rounded towards zero), and when it exceeds the maximum, move that much
from the drift into the overdrift. The state machine closes the loop: the offset of the
time base is sampled with jitter, and the overdrift is taken off it as
`app/tsbpd.hpp:23-31` does. The clocks wander by at most `Rate` per span until,
possibly, they settle. `RemoteRestarts` moves the offset by a jump in the middle of a span:
the timestamps of a remote that starts again begin at 0 (`app/start.cpp:24,31-34`) and
nothing tells the peer that stayed up. The sum of the span then has samples of both runs,
which may cost one wrong correction; `Settles` says that it is still worked off.

### Tsbpd

`OnAckAck` is the whole of `on_ackack` in its order: sample first, then tracer,
correction, wrap check. The module feeds it a remote clock that is kept without
wrapping (`newest`), so that the properties can compare with the truth, and writes the
line of the trace (`LineOf`). `offline` is the object of `plot-drift-model.py` that reads that
line: `ReadLine` and `get_time_base` are its method, `TwiceDrift` what it plots, and
`Plotted` what `plot-drift.py` plots. The model keeps of a line only by how much it is off
(`off`): from the true clock, from a sample against the first base, and from the two
scripts. `Header` and `Line` are two definitions as in the program, where names and values
are written by different functions. `compensate_rtt` is the option of that name, off by default:
`on_ackack` is given the RTT or 0 (`Compensated`), the line has the RTT in either mode, and the
script, which does not know the option, always takes half of its rise off. So `PlotsAgree` says
for each mode by how much the two plots are apart.

`FirstAckAck` may come at any of `FirstTimes`, the end of a turn included. A later ACKACK
comes up to `Gap` later than the newest one, up to `Reorder` earlier, or after an outage.
`turned` and `strayed` remember whether the first ACKACK was from the start of a turn and one
from the turn before it came afterwards (section 5), `regular` whether that, an outage, or a
start at the end of a turn could make the base lose or gain a turn of the clock.

### Peer

`BuildAck`, `SendAck`, `StampAck`, `StoreAck` (or `SendShort`) are the steps of
`ack_sending_loop` between which the other thread can run; `ReceiveAckAck`,
`StampAckAck`, `HandleAckAck` are those of `ack_reply_loop`. Each block under
`g_path_mut` is one step. `Tick` is the clock. The network is not a variable: any ACK that
has left may be answered at any time, any number of times, or never. `Restart` is the end
of the process, at any step of both threads, and a new one on the same port: the numbers
that left before (`former`) are still answered, and come again.

### Wire and Echo

`Wire` has both peers of an exchange as they write and read bytes: the sending thread
with the buffer it fills for every ACK (`Fill`, then the fields), the receiving thread with
the buffer that each datagram overwrites in part (`Read`), and `AnswerTo`, the buffer of
`on_ctrl_ack`. `set_field` and `get_field` go through `bswap` and a host integer as in
`pkt_view.hpp`; a clock is cut to 32 bits where the program does, `timestamp_sys` also when
the system clock was set back to before the start. `BYTE` is 256 in the program and smaller
in the runs, so that a field of four bytes stays within TLC's integers; the proofs hold for
every even size from 16 on, 256 among them.

`Strays` are datagrams of others, of any length, that do not have the type of an ACK or ACKACK. The
program tests the length for 0 only: a datagram of one byte leaves the type, and all the rest,
of the one before it in the buffer, and is taken for that one (`IsTaken`). So a stray may make a
peer answer an ACK or measure an ACKACK once more; `ImplementsEcho` says that this is all it does,
as the exchange may repeat a datagram anyway.

`Echo` is the abstract specification: peers number their ACKs, announce their estimate,
answer with both clocks, and hear what was answered; there are no bytes. The refinement
reads the datagrams by the diagrams in `src/packet` (`Meaning`): rows of four bytes, most
significant first, not by the program's own getters. That an ACKACK names a number its reader
sent, and a time after it left, is proved of both.

### Session

One step per iteration of a loop; the destination address, learnt from the first ACK;
`force_break`; a receiving thread that throws (the exception stays in the future, the
process goes on sending); a process that is killed or aborts; restarts with an empty
state. `net` is a set of packets; a packet that is read may stay and come again. `bound` are the
peers with a `bind` in their URL: a peer that is not has a new address after every restart.
`Strangers` are other processes, whose ACKs come at any time (`RcvStray`): the program takes the
source of any ACK for its remote if it has none, and answers every ACK to the remote it has.
`Misled` says of a peer that it sends to where its remote is not. `SendsToTheRemote` ties
`dst`, which a process has from its command line or from a packet of any sender and any age, to
where the remote is now: they differ only for a listener, whose first ACK was a stranger's or came
from where a remote that is not bound was before it started again.
Its names are spelled `SessionInit`, `SessionTypeOK` and so on, so that one module can extend both
`Session` and `Endpoint`.

### Endpoint

A URL is a sequence of words and separators. `Url` writes the URL for what a user means
(`given`), in the forms of the README and in others: without scheme, with a path, with
options in any order, with nothing at all. `NoUrl` and `ParseUrl` are the first returns of
`run`, `Open` and `OpenThrows` the constructor of the socket, `StartLoops` and `NoTraceFile`
the rest of `run` up to its two loops, `FirstAck` and `FirstAckThrows` the first datagram it sends.
`CreateAddr` gives the set of addresses a host may have: a literal has one, a name, of the remote or
in `bind`, may be found in either family or not at all. The socket is one of IPv4, so `bind()`
fails for an address of another family or of none (`CanBind`), and so does the first send, also
to port 0, which is what a port out of range becomes.

## 3. What is checked

| Run | Bounds | Shows |
|---|---|---|
| `ack_window` | 4 slots, numbers to 6, two clock readings | `LiveRecordsFresh`, `HoldsTheNewest`, `ImplementsQueue` |
| `rtt_estimator` | int of 10 bits, size_t of 14, samples from -9 to 30 | `RttWithinSamples`, `VarWithinSpread`, `Tracks` |
| `drift_tracer` | span of 3, maximum of 3, drift 2 per span, jitter 1, offsets 0 and -7, a restart that jumps by 16 | `OffsetBounded`, `NoOvershoot`, `Settles` |
| `tsbpd` | clock of 9 ticks, wrap period 2, 20 ticks, gaps of 2, reordering by 1, outages of 10, three first times, RTTs -1 and 2, with and without compensation | `BaseFollowsClock`, `NeverAhead`, `SampleExact`, `OfflineAgrees`, `PlotsAgree` |
| `peer` | 3 slots, 3 ACKs per run of the process, two clock readings, any number of restarts | `ImplementsWindow`, `RttOfTheAck`, `MissExplained` |
| `wire` | bytes of 16 values, three ACKs and one, 3 datagrams, strays of one byte and of none, a clock that wraps, one set back | `ImplementsEcho`, `AnswersFollowAcks`, `UnderstandsPeer` |
| `session` | one listener, one caller that is bound or not, one stranger, one restart each | `SendsToTheRemote`, `KeepsMeasuring`, `StopsWhenServed`, `StopsWhenThrew` |
| `endpoint` | 2 literals and a name for each host, ports 4200, 4201, 70000 (and 0 in `bind`), schemes udp, UDP, rtp and none | `ParsesAsWritten`, `OpensAsWritten`, `WaitsForRemote` |

Each also has a type invariant. Four further runs show where the program and what is
said of it part (section 5).

Why the bounds are enough:

* *AckWindow.* Nothing in the code depends on `SIZE` but the modulus (1024 in the
  program). With four slots and six numbers the ring wraps, fills, overwrites, is
  emptied on both paths, and is used again after each. The proofs hold for every `SIZE`.
* *RttEstimator.* The widths keep the relations that matter: `size_t` is wide enough that
  the cut to `int` gives back the true quotient modulo the divisor of the wrap, and
  negative values have the high bits set. The samples include 0 (which starts the
  estimator anew), negative ones, and distances both under and over the weights 4 and 8.
* *DriftTracer.* A span of 3 has a rounded mean; the maximum of 3 is under and over the
  offsets used (0, -7, and the jump of 16); the drift of 2 per span is within one correction.
* *Tsbpd.* The relations of the program are kept: four wrap periods fit into a turn of the
  clock, a gap is at most one period. 20 ticks see two wraps, with the second wrap period
  opened, used and closed. The first ACKACK is from the start of the second turn, from just
  before the last moments of the first, or from the very last of it. An outage of 10 is a tick
  longer than a turn: it hides one wrap or two, and may begin and end with a wrap period open;
  outages of all other lengths are in the proofs. The program's numbers are 2^32 µs and 30 s.
* *Peer.* With three numbers over two places the third pushes one out, and after a restart
  it all happens again with ACKACKs of the run before. Two clock readings put a thread one
  reading behind the other; the proofs hold for every clock.
* *Wire.* Three ACKs in one buffer, with and without an estimate (and a negative one), an ACK
  and an ACKACK in one receive buffer in both orders, three datagrams that repeat, and two
  stray ones: the first byte of a control packet alone, and one of no bytes, each after every
  datagram that may be in the buffer, or none; in the last case it is a packet of a type that
  neither peer answers. Strays of any other length are in the proofs. Sixteen values of a byte leave the flag, the types and the
  order of bytes what they are.
* *Session.* One restart of each side meets the other side in every phase, before and
  after it has learnt the address, which may be that of a stranger, or one that a caller without
  `bind` has left. What a caller without `bind` may not rely on is in `session_unbound`.
* *Endpoint.* All combinations of parts of a URL, 13104 of them; 70000 does not fit 16 bits.

### Assumptions on the environment, and fairness

* `Tsbpd`: ACKACKs are reordered by less than one wrap period (30 s); there is one every 10
  ms while both peers run. `BaseFollowsClock` and `SampleExact` are about exchanges in which no
  outage, and no start, hides a turn of the clock (`regular`: gaps of up to 30 s never do);
  `NeverAhead`, `OfflineAgrees` and `PlotsAgree` hold through outages of any length. The two
  on the scripts ask that the first ACKACK is not from the last 30 s of a turn (`early`),
  where only the script takes notice. `NeverAhead` and `regular` leave out the exchanges in
  which a first ACKACK from the start of a turn is followed by one from the turn before it
  (`strayed`). `ClockAssumption`: in the program a base of 0 stands for none, and no base is 0
  as long as the local clock is past its zero, by half the difference of two RTTs, when the
  remote's clock starts.
* `DriftTracer.OffsetBounded`: the clocks drift by at most one correction (5 ms) per span
  (1000 samples, 10 s): 500 ppm, an order above real clocks. A restart of the remote adds
  at most one correction and the drift of a span. `NoOvershoot` is about spans without a restart
  in them.
* `DriftTracer`, `RttEstimator`: weak fairness of the next sample. ACKACKs keep coming while
  both peers run (`README.md:113`, `app/start.cpp:52`).
* `Session`: weak fairness of each thread's own step (threads are scheduled, sleeping 10 ms
  ends), of reading a packet that is there, and of the return of `run`; strong fairness of
  *answering* an ACK, as packets that are sent every 10 ms are not lost for ever. There is
  none for restarts, signals, crashes, failing calls or packets of strangers. `KeepsMeasuring`
  assumes that from some time on both processes work and neither is misled; it does not assume a
  history without trouble. `MeasuresWhileRunning`, the same without the second condition, is what
  `session_unbound` refutes.

* `Wire`: hosts are little-endian, as all the builds of `README.md` are (`src/bits.hpp` swaps
  without asking). `RangeAssumption` names what 32 bits can tell apart: estimates that are
  `int`s, fewer than 2^32 ACKs, and a run and corrections of the system clock of less than half
  a turn, 35 minutes. The steady clocks may wrap at any time. It has no fairness.
* `Session.StopsWhenThrew` rests on the same fairness as the other two; it needs no packet.
* `SessionAssumption`: a listener is bound, and so is whoever a caller calls (`README.md:97-111`).
  That a process without a remote is bound is what `LostOnlyIfNotFound` proves of `Endpoint`.
* `EndpointAssumption`: no word for a host is a number, no word is a separator, and the port of a
  remote is above 0 (`Parse` takes a number alone for a port only then; `bind` may have the port 0).

## 4. What is proved

`AckWindowProofs` proves for every `SIZE > 0`, every bound on the numbers and every set of
clock readings:

* `TypeCorrect`: `Spec => []TypeOK`. The indices stay inside the array.
* `RecordsFresh`: `Spec => []LiveRecordsFresh`. No order of stores, short sends and
  look-ups lets a look-up find an answered number or the send time of another number.
* `NothingLostEarly`: `Spec => []HoldsTheNewest`. The window holds exactly the `SIZE - 1`
  newest numbers stored, less those an answer made obsolete.
* `RingImplementsQueue`: `Spec => ImplementsQueue`. The ring is the bounded queue.

`PeerProofs` proves for the two threads, for every `SIZE`, `MaxAckNo`, clock and width of
the integers, and across any number of restarts:

* `PeerTypeCorrect`: `Spec => []TypeOK`.
* `RttIsOfTheAck`: `Spec => []RttOfTheAck`.
* `MissesExplained`: `Spec => MissExplained`.
* `PeerImplementsWindow`: `Spec => ImplementsWindow`. What is proved of `AckWindow` holds of
  the window the threads share.

`RttEstimatorProofs` proves for all widths of `int` and `size_t` that satisfy
`WidthAssumption` and all samples:

* `TypeCorrect`: `Spec => []TypeOK`. Both estimates are `int`s.
* `SmoothedWithinSamples`: `Spec => []RttWithinSamples`.
* `VarianceWithinSpread`: `Spec => []VarWithinSpread`.

`DriftTracerProofs` proves for every span, maximum, jitter, drift and set of jumps:

* `TypeCorrect`: `Spec => []TypeOK`.
* `OffsetStaysBounded`: `Spec => []OffsetBounded`.
* `CorrectionsDoNotOvershoot`: `Spec => NoOvershoot`, an action property.

`TsbpdProofs` proves for every length of the clock that holds four wrap periods, every span
and maximum of the tracer, and every delay, RTT, outage and first time:

* `TypeCorrect`: `Spec => []TypeOK`.
* `FollowsClock`: `Spec => []BaseFollowsClock`.
* `NotAhead`: `Spec => []NeverAhead`.
* `SamplesExact`: `Spec => []SampleExact`.
* `ScriptAgrees`: `Spec => []OfflineAgrees`.
* `PlotsApartByRtt`: `Spec => []PlotsAgree`, with `--compensate-rtt` and without.

`WireProofs` proves for every size of a byte and of the buffers, and every number of ACKs,
datagrams and corrections that fields of four bytes can tell apart:

* `TypeCorrect`: `Spec => []TypeOK`.
* `NothingIsPassedOver`: `Spec => UnderstandsPeer`, an action property.
* `AnswersAreToAcks`: `Spec => []AnswersFollowAcks`.
* `BytesImplementEcho`: `Spec => ImplementsEcho`. The bytes implement the messages.

`PeeringProofs` has what two processes may rely on from the command line to the exchange. Of
`Endpoint`, for any words for hosts and ports:

* `TypeCorrect`: `Spec => []TypeOK`.
* `ParsesEveryUrl`: `Spec => []ParsesAsWritten`.
* `OpensEveryUrl`: `Spec => []OpensAsWritten`.
* `WaitsIfToldOfNone`: `Spec => []WaitsForRemote`.
* `LostOnlyIfNotFound`: `KnowsOrListens`, which `endpoint_name` shows violated, holds whenever
  the host is found.

Of `Session`, for any two peers, any strangers, any number of restarts, callers that are bound
or not:

* `SessionTypeCorrect`: `SessionSpec => []SessionTypeOK`.
* `SendsOnlyToTheRemote`: `SessionSpec => []SendsToTheRemote`.

Of `Echo` (as `Talk`), for any set of ACK numbers, estimates and corrections of the clocks, with
no bound on the time:

* `AnswersAreToAcks`: `Talk!Spec => []Talk!AnswersFollowAcks`. An ACKACK names an ACK that its
  reader sent, and a time between that ACK's leaving and now. Its invariant adds that every ACK
  on the way is in `left` of its sender, and that drafts are ACKs of their peers.

The assumptions are the `ASSUME`s of the modules: `SizeAssumption`, `BoundsAssumption` and
`PeerAssumption` for the window and the threads, `WidthAssumption` and `SamplesAssumption` for
the estimator, `SpanAssumption`, `MaxDriftAssumption` and `EnvironmentAssumption` for the tracer,
`WrapAssumption`, `EnvironmentAssumption` and `ClockAssumption` for the time base,
`ByteAssumption`, `WireAssumption`, `RangeAssumption` and `TwoPeersAssumption` for the packets,
`EndpointAssumption` for the words of a URL, `SessionAssumption` and `AddressAssumption` for who is
called and bound, and that no stranger has an address of a peer.
TLC evaluates each of them in the runs.

*The argument for the window.* `LiveRecordsFresh` is not inductive with types alone:
overwriting a slot must not disturb the order of the others. `AckWindowLemmas` speaks of
records by position in the ring, the k-th after `oldest_idx`: `ScanIsInterval` (the scan is
an interval of `Count` positions), `StoreContents` and `ForgetContents` (where each record is
after a call), `EmptiesOnlyAtTheEnd` (the reset to slot 0 happens only when nothing is
left). On them rest two facts that each call keeps: `FreshRecords`, which is
`LiveRecordsFresh` by position, and `HoldsNewer`: a number that was stored and is not
answered is held, or the ring is full and all it holds is newer. `HoldsNewer` has no
cardinality in it and is what makes `HoldsTheNewest` inductive; `HeldIsNewest` counts,
with an injection and a surjection between positions and newer numbers. `WindowInv` is
`TypeOK`, `LiveRecordsFresh` and `HoldsNewer`.

*The refinement to the queue* maps `Init` and each action to a step of the queue, or to a
stutter for `SkipNumber`; `StorePending` and `ForgetPending` carry the contents over to
sequences.

*The argument for the threads.* `PeerInv` adds to the two facts what ties the program
counters to the history: a number is in `left` from `SendAck` on and in `sent` only once it
is stored, so the number in hand is newer than all stored ones when `StoreAck` comes, however
long the thread was held up; `left[n] <= sent[n]`, because the clock is read after the
send; and `answered` is below the number to be stored next. A round trip is then a clock
reading less `sent[n]` of the very number `n`, and at most the reading less `left[n]`, which is
`RttOfTheAck`.
`StoreAck`, `SendShort` and `HandleAckAck` map to `StoreRecord`, `SkipNumber` and `LookUp`,
`Restart` to `Restart`, all other steps to stutters. A restart establishes the initial
predicate of the window and of the two threads anew, so the lemmas about `Init` serve it
(`RestartIsInit`, `FreshPeerInv`); what survives it, the numbers in `former`, only widens the
set of numbers a look-up may ask for, and no fact about a look-up depends on where its
number came from.

*The argument for the estimator.* The sum of `avg_rma` wraps around, as it does with a
negative estimate. `AvgIsMean` shows that it does not matter: `size_t` has a multiple of as many
values as `int` has, times the weight (`SizeIsMultiple`), so the quotient of the
wrapped sum is the true one plus a multiple of the modulus of `int` (`ToIntOfShifted`), and what
`avg_rma` returns is the mean of its arguments rounded down. A mean lies between its arguments
(`MeanBetween`). The variance needs in addition that a sample is no further from an estimate
than the spread (`DistanceWithin`) and that the first half of a sample is kept in the bounds
(`VarLow`, `VarHigh`); the two properties and the types are inductive together.

*The argument for the tracer.* `IInv` has the types and two facts. `SumFollows`: the sum
is the number of its samples times the offset of now, up to the jitter and to what the clocks
have drifted in the span; or it has samples of two runs of the remote, and the offset is where
the restart left it, up to that drift. `Near`: if the clocks drift by at most one correction
per span, the offset is within its bound, less the drift that the rest of the span may still
bring.
`MeanWithin` carries the sum over to the truncated mean (`SpanMean`), `CorrectionHelps` shows
what one correction does to the offset when the mean exceeds the maximum. Proving `NoOvershoot`
for every constant narrowed it: with spans of one sample, a step of the clocks between two
samples was counted as one that completes a span.

*The argument for the time base.* `Held` is the base less the first difference of the clocks and
the corrections made: what has been counted of the turns of the clock; `TurnOf` of a time is the
start of its turn. `Behind` says that `Held` is a multiple of a turn, that it is never above
the turn of the newest packet, and that when it is that turn no packet still to come can be
taken for its end too early; `OnTime` says for a regular exchange that it is that turn, or the
one before while its first 30 s last, and that a wrap period is open exactly in the last and the
first 30 s of a turn; `Alike` that `plot-drift-model.py` has the same wrap period and the same
base up to the corrections; `BaseSet` that the base is positive, as 0 stands for none
(`SampleAtLeast` and `MeanAtLeast` show that no correction brings it there). `NextHandled` reduces `on_ackack` to the
parts of a turn a timestamp may be from (`Ends`, `Carry`, `Lasts`), and `ScriptReads` does the
same for the script; `TurnHolds`, `TurnsApart` and `TurnsAdd` are what is needed of `%`.
The properties are about the line of the trace that the step wrote (`LineOK`), which follows
from the invariant before the step. `NeverAhead` was not true as first stated, and the attempt
to prove it found the case: number 9 of the second list in section 5.

*The argument for the packets.* `DigitsOfNumber` and `NumberInWord` are about four digits and the
number they stand for; on them rest `SetWord` (a field holds what was put there modulo 2^32, and
no other byte changes), `GetWord` (what the getter makes of four bytes), `SetType` and `GetType`
(the flag is written as the top of 16 bits and read as that of a byte). `AckMade` and
`AnswerMade` compose them in the order of the program; `SignedOfInt` and `TakenOff` undo two's
complement and the wrap of a clock. The invariant says that a draft has the number before the
next one (`Drafts`), that a number in hand has not left (`Numbers`), and that each datagram is
an ACK whose number is in `left`, or an answer to one with a time since (`Packets`). `ReadIn`
shows that what is read of a peer's datagram lies before anything an earlier one left in the buffer.
A stray may be shorter than what is read of it. `Leftovers`, the last part of the invariant,
says of every receive buffer that its second byte is no type of these, or that all but its first
byte are those of a datagram of the other peer (`LeftoversRead`; a stray of more than one byte
brings a type of its own, `StrayRead`). So what a
peer takes, whoever sent it, is a datagram of the other one (`Took`), come once more perhaps. Each
step then maps to a step of `Echo` (`BuildAck` to `MakeOut`, `SendAck` to `Send`, `ReceiveAck` to
`Answer`, `ReceiveAckAck` to `Hear`) or to a stutter (`SendShort`, `PassOver`).

*The argument for the endpoint.* `Parse` looks for the first separator of a kind and takes what
is in front of it and behind it. `HasConcat`, `CutNowhere`, `CutAtFirst` and `CutAtEnd` say what
that gives on a concatenation, for sequences of any words. With them a URL is taken apart as it was
put together: `OnePair` and `TwoPairs` find `bind` in a query of one or two options in either
order, `FrontAndQuery` and `ProtoAndPlace` the parts before it, and `ParseOfUrl` is all of a URL
with a scheme. One without a scheme is taken for a file or for nothing (`ParseWithoutScheme`), so a
socket comes only from a URL that says `udp` (`UdpUrl`). The invariant says of an open socket what it
is from what the user means alone (`OpenedAsMeant`; `PortIsMeant` and `PortIsCut` are what becomes of
a port out of range); the URL does not occur in it any more, and the
properties follow without a word on parsing. Proving `TypeOK` asked for the ports of `bind` to
include 0, which the program allows.

*The argument for the session.* A listener learns its destination from any ACK that reaches its
address, of whatever age and from whomever. `AddressesOf` are the addresses that a peer has had so
far, its present one included (`OwnAddress`); a restart only adds to them (`OnlyRestarts`,
`AddressesGrow`). `SessionInv` says that the
destination of a caller is the address on its command line, to which the other one is bound
(`BoundPeers`), that the destination of a listener is a stranger or one of the addresses of the
other peer (`RemotesInv`), and that every packet on its way goes from an address of one peer to an
address of the other (`BetweenPeers`, `StillBetween`), though either may have been left since. So what
reaches a peer over `net` comes from the other one (`SourceIsRemote`, as the two have no
address in common), what it learns is of the other one or of a stranger (`LearnRemote`,
`AckLearns`), and what it then sends is again between the two, or to a stranger and out of the model
(`SentBetween`, `NewPacket`). An address of a peer is the one it has or one it left, and a bound
peer leaves none (`IsOrWasThere`). The types alone are inductive, `SendsToTheRemote` is not
without the packets.

Only model-checked: liveness (`Tracks`, `Settles`, `KeepsMeasuring`, `StopsWhenServed`,
`StopsWhenThrew`), which is out of the prover's reach, like `ENABLED`. Every invariant and every
action property that a run shows is a theorem too.

## 5. Where the program and what is said of it part

Checked by a run (`expect: violation`):

1. `tsbpd_exit_sample`: the packet that ends a wrap period is measured before the base is
   moved on, against neither the old base plus carry nor the new base. Its sample is 2^32 µs
   too high, and is fed to the drift tracer. `scripts/plot-drift-model.py` moves the base first.
2. `session_stops`: `recvfrom` with timeout -1 does not look at `force_break`; with a silent
   remote, or as a listener nobody calls, the process does not stop.
3. `session_unbound`: a caller that is not bound and starts again is answered at its old
   port, for ever (`MeasuresWhileRunning`). `README.md:109` calls binding optional.
4. `endpoint_name`: a host that is not found gives no error; the process runs and neither
   sends nor can be reached.

Met while modelling, without a run:

1. A miss in the window gives -1, which is averaged into the RTT, used by
   `--compensate-rtt` and written to the trace; if the first look-up misses, the estimate is -1 and
   the next ACK announces 4294967295 µs (`app/start.cpp:78,115-129`; the TODO at `:117` knows).
2. The send time is read after `send` returns (`app/start.cpp:84`): a thread held up there is
   overtaken by the ACKACK, and the measured RTT is too short or negative. `RttOfTheAck` says that
   it is short by exactly the time the thread was held up; no property forbids it.
3. `overdrift()` is cleared by the next sample and not, as the comment at
   `app/drift_tracer.hpp:78-80` says, by the next `update` that returns true.
4. `scripts/plot-drift.py:19` adds the overdrift of a line to the sample of the same line,
   which was measured before it. `PlotsAgree` states what it shows all the same: those lines,
   and the ones that end a wrap period, are off by just that.
5. A first ACKACK from the last moments of a turn of the remote's clock sets the base and
   returns (`app/tsbpd.hpp:13-18`) before the wrap check; if the next one comes after the wrap,
   the turn is missed. The same goes for an outage around the wrap. `NeverAhead` states how far
   the base can then be off, and `regular` which exchanges are safe.
6. A URL with `bind` and a port but no host makes `0.0.0.0:port` the destination, which counts as
   known: such a process is bound but never learns its remote (`WaitsForRemote` has the
   exception).
7. An ACKACK meant for a former run of a process is taken for one of this run if its number
   was given out again, and measured as the answer to the new ACK. Nothing in a packet tells
   the runs apart, and no property forbids it.
8. `README.md:122` has `--compensatertt`; the option is `--compensate-rtt`.
9. If the first ACKACK is from the first 30 s of a turn of the remote's clock and one from the
   end of the turn before comes after it, out of order, that one opens a wrap period
   (`app/tsbpd.cpp:7-29`) for a wrap that the base already accounts for: 30 s later the base is
   moved on by 2^32 µs too far, and stays there. It takes an exchange that starts within one
   reordering of a wrap. `strayed` is this case.
10. Without `--compensate-rtt`, which is the default (`README.md:122`), the samples of the program
   have no RTT taken off (`app/start.cpp:129`), and `scripts/plot-drift-model.py:50-52` takes half of
   its rise off all the same: the plots of the two scripts differ as soon as the RTT varies.
   `PlotsAgree` says that they differ by just that.
11. The first RTT is the reference of all later ones also if that look-up missed and it is -1
   (`app/tsbpd.hpp:16`). The scripts take the same reference, so no property sees it.
12. A listener takes the source of its first ACK for its remote, whoever sent it
   (`app/start.cpp:181-184`), and keeps it. `SendsToTheRemote` has it as one of the two ways in which a
   listener can be misled; `KeepsMeasuring` assumes that it is not.
13. A port out of range is not refused: that of the remote becomes 0 (`app/uri_parser.cpp:58-60`) and
   the first send fails, that of `bind` loses its high bits (`app/udp_socket.cpp:124-132`). A name
   that is found as an IPv6 address makes `bind()` or the first send fail. `OpensAsWritten` says so
   of both.
14. A datagram of a single byte is read together with what the last one left in the buffer
   (`app/start.cpp:163-178`), and may be taken for that one come again.

## 6. What is not modelled

* *Trace file and log*: the text of numbers, flushing, a full disk. The columns and their
  values are in `TraceOps`; the times of the system clock in a line are not, as no property
  is about them.
* *Packets*: fields that nobody sets, and the names of packet types in the log.
* *Socket options* (`ioctl`, `setsockopt`, Windows start-up), addresses as text, IPv6
  literals, and the credentials of a URL, which the program does not read.
* *Offline scripts*: the graphs, moving averages and options of the scripts.
  `plot-drift-model.py` is modelled for the steady clocks, its default. `plot-rtt.py` only draws.
* *Single readings of clocks in `Wire`*: `BuildAck` reads the clock for the timestamp of an ACK
  (`app/start.cpp:72`) and the estimate under the lock (`:75-81`) in one step, and `AnswerTo` both
  clocks at one instant. `Peer` has the steps in between, for the window.
* *Packets of others*: in `Wire`, any but those with the second byte of an ACK or an ACKACK; in
  `Session`, ACKs, and whatever nobody answers (`RcvNothing`). An ACKACK of a stranger is like one
  that comes late or for a former run, which `Peer` has. What is sent to a stranger is not followed.
* *Restarts in `Wire`*: its question is what the bytes mean; restarts are in `Peer`,
  `AckWindow`, `DriftTracer` and `Session`. In `Tsbpd` the remote does not restart: a new run of
  its clock is a jump of the offset, which `DriftTracer` has.
* *Build files and the unit test.*

## 7. Plan

Order of work: ACK window (the only shared data structure), estimator, tracer, time base,
their composition in `Peer`, `Session`, `Endpoint`, the packets, restarts and outages, the
offline scripts. These are done.

Proved since: all invariants, action properties and refinements of these modules, as section 4 has
them.

Left:

1. The theorem on `Echo` could be drawn on by `WireProofs` instead of being proved twice; `Wire`
   needs most of its invariant anyway, for the range of what a field holds.
2. `Session` has one address for the remote from the start; a composition with `Endpoint` would
   have it come out of the URL, with hosts that are not found.
