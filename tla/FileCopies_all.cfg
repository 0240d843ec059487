SPECIFICATION Spec
CONSTANT Wild <- MCWild
CONSTANT Longer <- MCLonger
CONSTANT Dotted <- MCDotted
CONSTANT Source <- MCSource
CONSTANT Target <- MCTarget
CONSTANT Requests <- MCRequests
CONSTANT Sharded = TRUE
CONSTANT MaxFaults = 1
CONSTANT MaxTries = 2
INVARIANT SentAsPlanned
INVARIANT VerdictTrue
INVARIANT RefusedTouchesNothing
CHECK_DEADLOCK FALSE
