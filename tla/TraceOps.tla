------------------------------ MODULE TraceOps ------------------------------
(***************************************************************************)
(* The trace: the lines that stats_logger writes, and the scripts that read*)
(* them by the names of their columns, drift_tracer of plot-drift-model.py *)
(* and plot-drift.py.  A line is the sequence of its values; those that    *)
(* neither script reads stand as Unread.                                   *)
(***************************************************************************)
EXTENDS Sequences, Timestamps

Unread == 0

\* print_header(), of the full trace: a compact one has no last four columns.
Header ==
  << "TimepointSys", "usElapsedStd", "usElapsedSys", "usAckAckTimestampStd",
     "usAckAckTimestampSys", "usRTTSys", "usRTTStd", "usSmoothedRTTStd", "RTTVarStd",
     "usDriftSampleStd", "usDriftStd", "usOverdriftStd", "TsbpdTimeBaseStd" >>

\* trace().
Line(elapsed_std, ackack_timestamp_std, rtt_std, drift_sample_std, drift, overdrift, tsbpd_base) ==
  << Unread, elapsed_std, Unread, ackack_timestamp_std,
     Unread, Unread, rtt_std, Unread, Unread,
     drift_sample_std, drift, overdrift, tsbpd_base >>

Column(line, name) == line[CHOOSE i \in DOMAIN Header : Header[i] = name]

-----------------------------------------------------------------------------
(* class drift_tracer of plot-drift-model.py.                              *)

FirstOffline(line) ==
  [ base     |-> Column(line, "usElapsedStd") - Column(line, "usAckAckTimestampStd"),
    rtt_base |-> Column(line, "usRTTStd"),
    check    |-> FALSE ]

\* What get_time_base leaves behind, and what it returns.
ReadLine(o, line) ==
  LET ts == Column(line, "usAckAckTimestampStd")
  IN  IF o.check
      THEN IF ts \in TSBPD_WRAP_PERIOD .. 2 * TSBPD_WRAP_PERIOD
           THEN [o EXCEPT !.check = FALSE, !.base = @ + TIMESTAMPS]
           ELSE o
      ELSE [o EXCEPT !.check = ts >= TIMESTAMPS - TSBPD_WRAP_PERIOD]

get_time_base(o, line) ==
  ReadLine(o, line).base +
    IF o.check /\ Column(line, "usAckAckTimestampStd") < TSBPD_WRAP_PERIOD
    THEN TIMESTAMPS ELSE 0

\* Twice the drift of calculate_drift, which divides as a real number.
TwiceDrift(o, line) ==
  2 * ( Column(line, "usElapsedStd")
          - (get_time_base(o, line) + Column(line, "usAckAckTimestampStd")) )
    - (Column(line, "usRTTStd") - o.rtt_base)

\* usDriftSampleStdActual of plot-drift.py: `cumsum' is the sum of the overdrifts
\* up to this line.
Plotted(line, cumsum) == Column(line, "usDriftSampleStd") + cumsum

=============================================================================
