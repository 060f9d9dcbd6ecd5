SPECIFICATION FairSpec
CONSTANTS
  Writers = {here, away}
  Local = {here}
  SerialCommits = TRUE
  BatchSize = 1
  MaxEvents = 4
  MaxConnects = 2
  Roles = {{"api"}, {"worker"}}
  Slots = 2
  MaxOthers = 2
  MaxFaults = 1
  here = here
  away = away
\* The worker may stop, and the log of an ended job rests.
CHECK_DEADLOCK FALSE
INVARIANTS
  MissesNothing
  EndsBehindTheEnding
  WaitersAreTold
PROPERTIES
  PollingSuffices
