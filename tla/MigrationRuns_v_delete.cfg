SPECIFICATION Spec
CONSTANTS
  Migrations = {m1}
  m1 = m1
  Path = {"a", "b"}
  Plan <- FoldersPlan
  MaxItems = 1
  ChanCap = 1
  Amounts = {TRUE, FALSE}
  DBFaults = FALSE
  MaxLost = 0
PROPERTY DeleteSparesRunning
CHECK_DEADLOCK FALSE
