---------------------------- MODULE MCDriftTracer ----------------------------
(* The drift tracer in its loop on a small instance: see MCDriftTracer.cfg.*)
EXTENDS DriftTracer

MCStartOffsets == {0, -7}
MCJumps == {16}
=============================================================================
