SPECIFICATION Spec
CONSTANTS
  Calls <- MCCalls
  FifoDepth = 3
  Late = 2
  MaxCalls = 2
INVARIANTS
  TypeOK
  Exchanged
PROPERTY
  TransferEnds
CHECK_DEADLOCK FALSE
