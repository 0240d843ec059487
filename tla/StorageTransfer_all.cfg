SPECIFICATION FairSpec
CONSTANTS
  f1 = f1
  f2 = f2
  f3 = f3
  s1 = s1
  s2 = s2
  Files = {f1, f2, f3}
  Shards = {s1, s2}
INVARIANT SuccessIsWhole
PROPERTY KeepsPromise
PROPERTY QuietOnReturn
PROPERTY CancelReturns
CHECK_DEADLOCK FALSE
