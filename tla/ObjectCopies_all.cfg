SPECIFICATION FairSpec
CONSTANTS
  Modes <- MCModes
  Listing <- MCListing
  Size <- MCSize
  Foreign = {"alien"}
  PutLimit = 1
  PartSize = 2
  Attempts = 2
  Concurrency = 2
  MaxConnections = 4
INVARIANT ResultIsTrue
INVARIANT NothingLeftOpen
CHECK_DEADLOCK FALSE
PROPERTY TransferReturns
