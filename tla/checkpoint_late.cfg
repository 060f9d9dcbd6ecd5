SPECIFICATION Spec
CONSTANTS
  Runs = {r1, r2}
  Docs = {docs}
  Sources = {main}
  Deliveries = {docker}
  RepairsAllowed = FALSE
  LateWorkers = TRUE
  MaxStops = 0
  MaxManual = 1
  MaxUpgrades = 0
  MaxReturns = 4
  r1 = r1
  r2 = r2
  docs = docs
  main = main
  docker = docker
\* The job rests when it has ended and its owner does not retry it.
CHECK_DEADLOCK FALSE
SYMMETRY Symmetry
INVARIANTS
  InputsPresent

  
