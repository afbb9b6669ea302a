SPECIFICATION Spec
CONSTANTS
  Requests <- MCRequests
  Address <- MCAddress
  MaxTransfers = 3
  MaxAborts = 0
  MaxResets = 0
  LateIsr = TRUE
PROPERTIES
  TransfersComplete
CHECK_DEADLOCK FALSE
