SPECIFICATION FairSpec
CONSTANTS
  Requests = {r1, r2}
  Keys = {k}
  Bodies = {b1, b2}
  Limit = 1
  Names = {ours, theirs}
  Taken = {theirs}
  Retries = 1
  RefAttempts = 2
  MaxJobs = 2
  MaxOthers = 2
  MaxStops = 1
  NoKey = NoKey
  Owner = Owner
  Stranger = Stranger
  Nobody = Nobody
  Secrets = {s1, s2}
  Absent = Absent
  Blank = Blank
  s1 = s1
  s2 = s2
  r1 = r1
  r2 = r2
  k = k
  b1 = b1
  b2 = b2
  ours = ours
  theirs = theirs
\* The system rests when no request is in flight and nobody sends one.
CHECK_DEADLOCK FALSE
INVARIANTS
  SubmissionsSound
  PublicationsSound
  ReadsSound
PROPERTIES
  ClaimsAreReturned
