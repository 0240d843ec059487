SPECIFICATION FairSpec
CONSTANTS
  Migrations = {m1}
  m1 = m1
  Path = {"a", "b"}
  Plan <- MixedPlan
  MaxItems = 2
  ChanCap = 1
  Amounts = {TRUE}
  DBFaults = TRUE
  MaxLost = 2
INVARIANT TypeOK
INVARIANT FinalIsQuiet
INVARIANT CompletedEntriesWhole
PROPERTY CancelTakesEffect
PROPERTY RunsEnd
CHECK_DEADLOCK FALSE
