SPECIFICATION Spec
CONSTANTS
  good = good
  hangs = hangs
  Build <- MCBuild
  Healthy <- MCHealthy
  Size <- MCSize
  Pages = 2
  Seqs = {1, 2}
  Wired = TRUE
  MaxUpdates = 2
  MaxCycles = 2
  MaxEarly = 1
INVARIANT
  NoTornImage
PROPERTIES
  NoRetry
  ImplementsPolicy
  RollbackRecovers
CHECK_DEADLOCK FALSE
