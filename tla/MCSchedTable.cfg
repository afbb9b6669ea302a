SPECIFICATION Spec
CONSTANTS
  Task <- MCHighTask
  Device <- MCDevice
  Prio <- MCPrio
  Threshold <- MCThreshold
  MainOps = 3
  MaxOps = 1
  MaxNest = 1
  NestWeaker = FALSE
PROPERTIES
  EverySlotEntersAsCreated
CHECK_DEADLOCK FALSE
