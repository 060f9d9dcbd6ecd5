SPECIFICATION FairRunnerSpec
CONSTANTS
  Clients = {c1, c2}
  Handlers = {h1, h2, h3}
  Slots = 1
  Queue = 1
  Retries = 1
  ReportLength = 2
  MaxFailures = 1
  MaxCalls = 2
  MaxFaults = 1
  MaxStops = 1
  MaxCrashes = 1
  Nobody = Nobody
  c1 = c1
  c2 = c2
  h1 = h1
  h2 = h2
  h3 = h3
\* The system rests when nobody calls the runner.
CHECK_DEADLOCK FALSE
INVARIANTS
  RunnerInOrder
  ReportsAreEarned
PROPERTIES
  NothingHangs
