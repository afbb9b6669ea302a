SPECIFICATION Spec
CONSTANTS
  RingSize = 4
  MaxPacket = 2
  TxBytes = 3
  RxBytes = 1
  MaxResets = 2
  QuickHost = FALSE
  Reconfigure = FALSE
INVARIANTS
  OutAlive
PROPERTIES
  TxDrains
CHECK_DEADLOCK FALSE
