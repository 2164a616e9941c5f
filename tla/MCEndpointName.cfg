\* A name that is not found.
CONSTANTS
  Value <- MCValue
  LowerCase <- MCLowerCase
  Literals <- MCLiterals
  Names <- MCNames
  Ports <- MCPorts
SPECIFICATION Spec
INVARIANT KnowsOrListens
CHECK_DEADLOCK FALSE
