SPECIFICATION Spec
CONSTANTS
  Requests <- MCShortRequests
  Address <- MCAddress
  MaxTransfers = 2
  MaxAborts = 0
  MaxResets = 0
  LateIsr = FALSE
PROPERTIES
  TransfersCompleteAll
CHECK_DEADLOCK FALSE
