SPECIFICATION Spec
CONSTANT Copies <- AllCopies
INVARIANT CopyIsExact
INVARIANT FailsOnlyAtAGap
INVARIANT RefusedForCause
INVARIANT VerdictTrue
CHECK_DEADLOCK FALSE
