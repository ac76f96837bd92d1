CONSTANTS
    Procs = {p1, p2}
    Paths <- MCPaths
    KeyLock <- MCKeyLock
    MaxOps = 2
    MaxFaults = 1
SPECIFICATION Spec
INVARIANTS
    NoUpdateLost
    IndexMatches
PROPERTIES
    EndsUnlessKept
CHECK_DEADLOCK FALSE
