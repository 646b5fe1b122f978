SPECIFICATION Safety
CONSTANTS
  s1 = s1
  s2 = s2
  s3 = s3
  g1 = g1
  g2 = g2
  Source = {s1, s2, s3}
  NoSource = NoSource
  MaxSourceSlots = 2
  DefaultDelay = 1
  Cgroup = {g1, g2}
  Count = {0, 1}
  Delay = {0, 2}
  MaxVictims = 1
  RingCapacity = 2
  MaxGranted = 1
SYMMETRY Symmetry
INVARIANTS
  TypeOK
  OneSlotPerSource
  CreditsAreConsumable
  NoLostUpdate
  CreditsBalance
  MissIsCovered
  CountersSkewAtMostOne
CHECK_DEADLOCK FALSE
