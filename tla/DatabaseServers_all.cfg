SPECIFICATION Spec
CONSTANT Calls = {c1, c2}
CONSTANT Requests <- AllRequests
CONSTANT Servers <- AllServers
CONSTANT Names = {"app", "sys", "unquotable"}
CONSTANT SystemNames = {"sys"}
CONSTANT MaxFaults = 1
CONSTANT MaxWrites = 1
PROPERTY TakesEffectOnce
PROPERTY NoOldTableDies
PROPERTY PreparedCanLoad
SYMMETRY Interchangeable
CHECK_DEADLOCK FALSE
