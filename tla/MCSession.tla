----------------------------- MODULE MCSession -----------------------------
(* Two processes on a small instance: see the cfg files.                   *)
EXTENDS Session

CONSTANTS caller, listener

MCBothBound == {{caller, listener}}
MCCallerUnbound == {{listener}}
MCBindings == MCBothBound \cup MCCallerUnbound
=============================================================================
