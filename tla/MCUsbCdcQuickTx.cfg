SPECIFICATION Spec
CONSTANTS
  RingSize = 4
  MaxPacket = 2
  TxBytes = 2
  RxBytes = 0
  MaxResets = 0
  QuickHost = TRUE
  Reconfigure = FALSE
INVARIANTS
  BusyMeansShipping
CHECK_DEADLOCK FALSE
