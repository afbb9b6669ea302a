SPECIFICATION Spec
CONSTANTS
  Request <- MCRequest
  HeapSize = 16
  Base = 8
  Nest = 2
  MaxEvents = 6
INVARIANT
  UsedIsExact
PROPERTIES
  IsHeap
  AllocReturns
CHECK_DEADLOCK FALSE
