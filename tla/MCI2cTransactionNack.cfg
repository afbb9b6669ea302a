SPECIFICATION Spec
CONSTANTS
  Programs <- MCPrograms
  FifoDepth = 3
  MaxTransactions = 3
  RefusesReads = TRUE
  LongInterrupts = FALSE
PROPERTY
  TransactionEnds
CHECK_DEADLOCK FALSE
