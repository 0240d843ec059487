SPECIFICATION Spec
CONSTANT Copies <- OneSchemaCopies
INVARIANT CopyIsExact
CHECK_DEADLOCK FALSE
