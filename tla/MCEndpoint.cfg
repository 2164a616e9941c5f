\* Two literals, a name that may not be found, a port that is out of range, in the
\* forms of the README and others a user may try.
\* The socket is made once.
CONSTANTS
  Value <- MCValue
  LowerCase <- MCLowerCase
  Literals <- MCLiterals
  Names <- MCNames
  Ports <- MCPorts
SPECIFICATION Spec
INVARIANTS TypeOK ParsesAsWritten OpensAsWritten WaitsForRemote
CHECK_DEADLOCK FALSE
