\* Bytes of 16 values and so words of 2^16: one peer sends three ACKs, the other one.
CONSTANTS
  BYTE = 16
  home = home
  away = away
  Peers <- MCPeers
  Estimates <- MCEstimates
  Corrections <- MCCorrections
  Lead <- MCLead
  LastAckNo <- MCLastAckNo
  Strays <- MCStrays
  BufferSize = 44
  MaxTime = 1
  MaxDatagrams = 3
SPECIFICATION Spec
INVARIANTS TypeOK AnswersFollowAcks
PROPERTIES ImplementsEcho UnderstandsPeer
CHECK_DEADLOCK FALSE
