SPECIFICATION Spec
CONSTANTS
  Programs <- MCPrograms
  FifoDepth = 3
  MaxTransactions = 1
  RefusesReads = FALSE
  LongInterrupts = FALSE
INVARIANT
  RestartOnlyToTurn
CHECK_DEADLOCK FALSE
