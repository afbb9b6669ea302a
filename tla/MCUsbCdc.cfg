SPECIFICATION Spec
CONSTANTS
  RingSize = 4
  MaxPacket = 2
  TxBytes = 5
  RxBytes = 4
  MaxResets = 0
  QuickHost = FALSE
  Reconfigure = FALSE
INVARIANTS
  TypeOK
  TogglesAgree
  StreamsIntact
PROPERTIES
  NoStomp
  Delivered
CHECK_DEADLOCK FALSE
