SPECIFICATION Spec
CONSTANTS
  Jobs <- OneJob
  Workers = {w1, w2}
  Tasks = {t1, t2}
  NumStages = 1
  Concurrency = 1
  MaxTransient = 0
  StallsAllowed = TRUE
  ZeroDelay = TRUE
  MaxManual = 1
  MaxCancels = 1
  MaxStops = 1
  MaxUpgrades = 0
  Nil = Nil
  w1 = w1
  w2 = w2
  t1 = t1
  t2 = t2
\* The system rests when every job has ended and nobody submits or retries one.
CHECK_DEADLOCK FALSE
SYMMETRY Symmetry
INVARIANTS
  StatusIsHonoured
PROPERTIES
  LifecycleSpec
