CONSTANTS
    Procs = {p1}
    Paths <- MCPaths
    KeyLock <- MCKeyLock
    MaxOps = 1
    MaxFaults = 0
SPECIFICATION Spec
PROPERTIES
    UpdateReturns
CHECK_DEADLOCK FALSE
