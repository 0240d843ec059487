SPECIFICATION Spec
CONSTANT Total = 4
CONSTANT Window = 2
CONSTANT MySQLDumps <- MCMySQLDumps
CONSTANT Tables <- MCTables
CONSTANT Word <- MCWord
CONSTANT Indexes <- MCIndexes
CONSTANT Conflicts <- MCConflicts
CONSTANT Want = {1, 2}
CONSTANT Free = {1, 5}
CONSTANT MaxRestoreConnections = 2
CONSTANT DeferAt = 2
CONSTANT CommitAt = 2
CONSTANT PgDumps <- MCPgDumps
CONSTANT Conns = {1, 2, 3}
CONSTANT Blocks <- MCBlocks
INVARIANT SuccessIsWhole
INVARIANT NeverKilled
INVARIANT OnlyFaultsFail
PROPERTY AsIfInOrder
PROPERTY NothingFires
PROPERTY Returns
CHECK_DEADLOCK FALSE
