SPECIFICATION Spec
CONSTANTS
  h1 = h1
  h2 = h2
  Handler = {h1, h2}
  Worker = Worker
  ArmDelayNs = {0, 1}
  ArmCount = {1, 2}
  refillTargetReq = 2
  refillLowWater = 1
  refillBatchReq = 2
  refillEnabled = TRUE
  syncRefillMiss = TRUE
  MaxTokens = 6
  MaxLost = 2
INVARIANTS
  TypeOK
  TokensAreBacked
  BalanceBounded
PROPERTIES
  ImplementsTokenBank
  MissIsRefilled
CHECK_DEADLOCK FALSE
