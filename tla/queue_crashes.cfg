SPECIFICATION FairSpec
CONSTANTS
  Jobs <- OneJob
  Workers = {w1, w2}
  Tasks = {t1, t2}
  NumStages = 2
  Concurrency = 1
  MaxTransient = 1
  StallsAllowed = FALSE
  ZeroDelay = FALSE
  MaxManual = 0
  MaxCancels = 1
  MaxStops = 2
  MaxUpgrades = 1
  Nil = Nil
  w1 = w1
  w2 = w2
  t1 = t1
  t2 = t2
\* The system rests when every job has ended and nobody submits or retries one.
CHECK_DEADLOCK FALSE
INVARIANTS
  AttemptsBounded
  SingleRunner
  OutcomesJustified
PROPERTIES
  WorkIsKept
  ReapsOnlyAbandoned
  EveryJobEnds
  ShutdownCompletes
