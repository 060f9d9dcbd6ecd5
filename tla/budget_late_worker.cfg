SPECIFICATION Spec
CONSTANTS
  Jobs = {j1, j2}
  Runs = {r1, r2}
  NumPeriods = 1
  Limit = 3
  Reservation = 2
  MaxCall = 2
  LateWorkers = TRUE
  DeletesAllowed = TRUE
  MaxStops = 0
  MaxManual = 1
  Nil = Nil
  j1 = j1
  j2 = j2
  r1 = r1
  r2 = r2
\* The system rests when every job has ended and nobody submits or retries one.
CHECK_DEADLOCK FALSE
SYMMETRY Symmetry
INVARIANTS
  TypeOK
  TotalsWereCharged
