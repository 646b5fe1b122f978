SPECIFICATION Spec
CONSTANTS
  MaxRearms = 2
  MaxDelays = 3
INVARIANTS
  AtMostOncePerRearm
CHECK_DEADLOCK FALSE
