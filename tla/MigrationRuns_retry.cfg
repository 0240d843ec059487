SPECIFICATION Spec
CONSTANTS
  Migrations = {m1, m2}
  m1 = m1
  m2 = m2
  Path = {"a", "b"}
  Plan <- SharedPathPlan
  MaxItems = 1
  ChanCap = 1
  Amounts = {TRUE}
  DBFaults = FALSE
  MaxLost = 1
SYMMETRY Symmetry
INVARIANT RunningIsCancellable
INVARIANT CountersMatchLogs
INVARIANT VerdictMatchesLogs
INVARIANT RetrySparesSuccess
CHECK_DEADLOCK FALSE
