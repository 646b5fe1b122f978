SPECIFICATION Spec
CONSTANTS
  h1 = h1
  h2 = h2
  Handler = {h1, h2}
  Worker = Worker
  ArmDelayNs = {0, 1}
  ArmCount = {1}
  REFILL_TARGET_REQ = 2
  REFILL_LOW_WATER_REQ = 1
  REFILL_BATCH_REQ = 1
  SYNC_REFILL_ON_MISS = TRUE
  FAIL_OPEN_ON_ARM_UNAVAILABLE = TRUE
  MaxTokens = 2
  MaxLost = 1
INVARIANTS
  TypeOK
  TokensAreBacked
  BalanceBounded
  SuspensionHolds
PROPERTIES
  ImplementsTokenBank
  EmptyIsRefilled
CHECK_DEADLOCK FALSE
