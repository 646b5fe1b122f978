SPECIFICATION Spec
CONSTANTS
  h1 = h1
  h2 = h2
  Handler = {h1}
  Worker = Worker
  ArmDelayNs = {1}
  ArmCount = {1}
  refillTargetReq = 1
  refillLowWater = 0
  refillBatchReq = 1
  refillEnabled = TRUE
  syncRefillMiss = FALSE
  MaxTokens = 3
  MaxLost = 0
PROPERTIES
  MissIsRefilled
CHECK_DEADLOCK FALSE
