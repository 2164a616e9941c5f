------------------------------ MODULE TwoPeers ------------------------------
(* The two processes of an exchange: each is the only remote of the other. *)

CONSTANT Peers

ASSUME TwoPeersAssumption == \E p, q \in Peers : p # q /\ Peers = {p, q}

Other(p) == CHOOSE q \in Peers : q # p

=============================================================================
