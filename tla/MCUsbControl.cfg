SPECIFICATION Spec
CONSTANTS
  Requests <- MCShortRequests
  Address <- MCAddress
  MaxTransfers = 4
  MaxAborts = 1
  MaxResets = 1
  LateIsr = FALSE
INVARIANTS
  TypeOK
  AddressAgrees
  AnswersIntact
PROPERTIES
  AddressAfterStatus
  BootselExactlyWhenAsked
  TransfersComplete
CHECK_DEADLOCK FALSE
