SPECIFICATION Spec
CONSTANTS
  RingSize = 4
  MaxPacket = 2
  TxBytes = 2
  RxBytes = 0
  MaxResets = 1
  QuickHost = FALSE
  Reconfigure = FALSE
PROPERTIES
  NoStomp
CHECK_DEADLOCK FALSE
