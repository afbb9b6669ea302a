SPECIFICATION Spec
CONSTANTS
  good = good
  hangs = hangs
  Build <- MCBuild
  Healthy <- MCHealthy
  Size <- MCSize
  Pages = 2
  Seqs = {1, 2}
  Wired = TRUE
  MaxUpdates = 1
  MaxCycles = 1
  MaxEarly = 0
INVARIANTS
  BadNeverBoots
CHECK_DEADLOCK FALSE
