SPECIFICATION Spec
CONSTANTS
  Runs = {r1}
  Docs = {docs}
  Sources = {main}
  Deliveries = {docker}
  RepairsAllowed = TRUE
  LateWorkers = FALSE
  MaxStops = 2
  MaxManual = 1
  MaxUpgrades = 1
  MaxReturns = 20
  r1 = r1
  r2 = r2
  docs = docs
  main = main
  docker = docker
\* The job rests when it has ended and its owner does not retry it.
CHECK_DEADLOCK FALSE
SYMMETRY Symmetry
INVARIANTS
  MemoryMatchesTables
  NothingLeftOver
  OnlyCheckpointsWait
  StagesKeepTheirFiles
