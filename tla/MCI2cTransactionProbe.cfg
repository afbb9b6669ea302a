SPECIFICATION Spec
CONSTANTS
  Programs <- MCProbes
  FifoDepth = 3
  MaxTransactions = 3
  RefusesReads = FALSE
  LongInterrupts = FALSE
INVARIANTS
  TypeOK
  OkMeansDone
  ErrMeansRefused
PROPERTY
  TransactionEnds
CHECK_DEADLOCK FALSE
