----------------------------- MODULE Timestamps -----------------------------
(* The remote's clock in a packet, for the program and for the scripts.     *)
EXTENDS Integers

CONSTANTS TIMESTAMPS,           \* MAX_TIMESTAMP + 1 = 2^32
          TSBPD_WRAP_PERIOD     \* 30 s

ASSUME WrapAssumption == /\ TIMESTAMPS \in Nat
                         /\ TSBPD_WRAP_PERIOD \in Nat \ {0}
                         /\ 4 * TSBPD_WRAP_PERIOD < TIMESTAMPS

=============================================================================
