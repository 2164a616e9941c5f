---------------------------- MODULE MCAckWindow ----------------------------
(* The ring of ACK records on a small instance: see MCAckWindow.cfg.       *)
EXTENDS AckWindow

MCTimes == {0, 3}
=============================================================================
