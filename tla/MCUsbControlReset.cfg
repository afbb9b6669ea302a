SPECIFICATION Spec
CONSTANTS
  Requests <- MCRequests
  Address <- MCAddress
  MaxTransfers = 3
  MaxAborts = 0
  MaxResets = 1
  LateIsr = FALSE
INVARIANTS
  AddressAgreesAlways
CHECK_DEADLOCK FALSE
