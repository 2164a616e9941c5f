------------------------------- MODULE MCWire -------------------------------
(* Two peers on the wire on a small instance: see MCWire.cfg.              *)
EXTENDS Wire, TLC

CONSTANTS home, away

MCPeers == {home, away}
MCEstimates == {[rtt |-> 0, var |-> 3], [rtt |-> -1, var |-> 2]}
MCCorrections == (home :> {}) @@ (away :> {-3})
\* The clocks of `away' wrap when the first tick comes.
MCLead == (home :> 2) @@ (away :> WORD - 1)
MCLastAckNo == (home :> 3) @@ (away :> 1)
\* The first byte of a control packet, and no bytes.
MCStrays == {[from |-> "other", bytes |-> bytes] : bytes \in {0 :> BYTE \div 2, Blank(0)}}
=============================================================================
