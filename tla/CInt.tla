-------------------------------- MODULE CInt --------------------------------
(* Integer operations of C++ where they differ from those of Integers.     *)
EXTENDS Integers

\* Division of C++ integers rounds towards zero.
TruncDiv(a, b) == IF a >= 0 THEN a \div b ELSE -((-a) \div b)

\* std::abs, away from the least value of its type.
AbsInt(a) == IF a >= 0 THEN a ELSE -a

=============================================================================
