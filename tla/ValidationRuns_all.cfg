SPECIFICATION FairSpec
CONSTANTS
  r1 = r1
  r2 = r2
  Requests = {r1, r2}
  Entries = 2
INVARIANT VerdictMatchesDetails
INVARIANT RunningIsAlive
PROPERTY ValidationEnds
CHECK_DEADLOCK FALSE
