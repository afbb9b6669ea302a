SPECIFICATION Spec
CONSTANTS
  Task <- MCTask
  Device <- MCDevice
  Prio <- MCPrio
  Threshold <- MCThreshold
  MainOps = 4
  MaxOps = 1
  MaxNest = 2
  NestWeaker = TRUE
PROPERTIES
  SectionsHold
CHECK_DEADLOCK FALSE
