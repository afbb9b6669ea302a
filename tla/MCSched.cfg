SPECIFICATION Spec
CONSTANTS
  Task <- MCHighTask
  Device <- MCDevice
  Prio <- MCPrio
  Threshold <- MCThreshold
  MainOps = 4
  MaxOps = 1
  MaxNest = 2
  NestWeaker = FALSE
INVARIANT
  OnlyHigherPreempts
PROPERTIES
  EntersAsCreated
  SectionsHold
  MasksRestored
  OnlyBetterLinesStarve
CHECK_DEADLOCK FALSE
