SPECIFICATION Spec
CONSTANTS
  good = good
  hangs = hangs
  Build <- MCBuild
  Healthy <- MCHealthy
  Size <- MCSize
  Pages = 2
  Seqs = {1, 2}
  Wired = TRUE
  MaxUpdates = 0
  MaxCycles = 0
  MaxEarly = 0
PROPERTIES
  ConfirmedIsKept
CHECK_DEADLOCK FALSE
