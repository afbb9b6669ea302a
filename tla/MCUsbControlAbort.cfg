SPECIFICATION Spec
CONSTANTS
  Requests <- MCRequests
  Address <- MCAddress
  MaxTransfers = 3
  MaxAborts = 1
  MaxResets = 0
  LateIsr = FALSE
PROPERTIES
  AddressAfterStatusAlways
CHECK_DEADLOCK FALSE
