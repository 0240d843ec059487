SPECIFICATION FairSpec
CONSTANTS
  Attempts = {run, retry}
  run = run
  retry = retry
  First = run
  Overlapping = FALSE
INVARIANT RetryFindsEmpty
PROPERTY SuccessIsWhole
PROPERTY OldTablesSafe
PROPERTY CreatedIsUndone
PROPERTY CancelEnds
CHECK_DEADLOCK FALSE
