SPECIFICATION Spec
CONSTANTS
  RingSize = 4
  MaxPacket = 2
  TxBytes = 0
  RxBytes = 2
  MaxResets = 0
  QuickHost = TRUE
  Reconfigure = FALSE
INVARIANTS
  OutAlive
CHECK_DEADLOCK FALSE
