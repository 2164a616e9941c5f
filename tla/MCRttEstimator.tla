--------------------------- MODULE MCRttEstimator ---------------------------
(* The RTT estimator on small widths: see MCRttEstimator.cfg.              *)
EXTENDS RttEstimator

MCSamples == {-9, -1, 0, 1, 12, 30}
=============================================================================
