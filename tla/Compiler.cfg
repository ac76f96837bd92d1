CONSTANTS
    Programs <- DirectRecursion
    Requests <- MCRequests
    MaxInferDepth = 2
    NativeLimit = 8
    pa = pa
    pb = pb
    x = x
    y = y
    h = h
    z = z
    gpu = gpu
    Std = Std
    StdNames <- MCStdNames
    Paths = {pa, pb}
    Contents <- MCContents
    InitialDisk <- MCDisk
    Missing = Missing
    Unreadable = Unreadable
    Garbled = Garbled
    Outside = Outside
    Natives <- MCNatives
    MaxCalls = 4
SPECIFICATION MCSpec
INVARIANTS
    CoversReturns
    PlainAnswersFresh
    CacheAgrees
    OkIsComplete
    TablesOfSource
CHECK_DEADLOCK FALSE
