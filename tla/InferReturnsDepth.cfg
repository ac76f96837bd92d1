CONSTANTS
    Programs <- MutualRecursion
    Requests <- MCRequests
    MaxInferDepth = 2
    NativeLimit = 8
SPECIFICATION InferSpec
INVARIANTS
    StackHolds
CHECK_DEADLOCK FALSE
