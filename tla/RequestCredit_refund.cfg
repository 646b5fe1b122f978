SPECIFICATION Safety
CONSTANTS
  s1 = s1
  s2 = s2
  s3 = s3
  g1 = g1
  g2 = g2
  Source = {s1}
  NoSource = NoSource
  MaxSourceSlots = 1
  DefaultDelay = 1
  Cgroup = {g1}
  Count = {1}
  Delay = {0}
  MaxVictims = 1
  RingCapacity = 1
  MaxGranted = 1
PROPERTIES
  FailedInjectionIsRefunded
CHECK_DEADLOCK FALSE
