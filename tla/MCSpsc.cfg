SPECIFICATION Spec
CONSTANTS
  Byte <- MCByte
  Size <- MCSize
INVARIANT
  NoSharedSlot
PROPERTIES
  IsFifo
  CountsAreSafe
