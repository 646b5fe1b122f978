SPECIFICATION Spec
CONSTANTS
  t1 = t1
  t2 = t2
  t3 = t3
  p1 = p1
  e = e
  Thread = {t1, t2, t3}
  Main = t1
  Point = {p1, e}
  EndToEnd = e
  MaxVisits = 2
  MaxExperiments = 2
INVARIANTS
  TypeOK
  VisitsLoggedOnce
  SingleExperiment
  ShutdownOnce
  ExitAfterProfiler
  StopsOnlyWhenIdle
PROPERTIES
  EndsWithLastThread
  ShutdownReturns
CHECK_DEADLOCK FALSE
