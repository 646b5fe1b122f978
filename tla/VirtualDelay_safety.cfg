SPECIFICATION Safety
CONSTANTS
  t1 = t1
  t2 = t2
  t3 = t3
  l1 = l1
  l2 = l2
  i1 = i1
  i2 = i2
  Thread = {t1, t2}
  Main = t1
  NoThread = NoThread
  Slot = {i1, i2}
  Line = {l1}
  NoLine = NoLine
  DelaySize = {1}
  Oversleep = {0, 1}
  MaxSamples = 1
  MaxAllowed = 2
INVARIANTS
  TypeOK
  DelaysAreAccounted
PROPERTIES
  PaidBeforeWaking
SYMMETRY Symmetry
CHECK_DEADLOCK FALSE
