------------------------------- MODULE MCPeer -------------------------------
(* The two threads of a peer on a small instance: see the cfg files.       *)
EXTENDS Peer
=============================================================================
