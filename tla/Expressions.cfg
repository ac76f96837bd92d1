SPECIFICATION MCSpec
CONSTANTS
    Kinds <- MCKinds
    Bits <- MCBits
    Mantissa <- MCMantissa
    Stored <- MCStored
    BinaryOps = {"*", "-", "<<", "&", "^", "|", "==", "&&", "..", "="}
    UnaryOps = {"-", "!"}
    MaxOps = 3
INVARIANTS
    RoutesAgree
    StoredReadsBack
    TextParsesBack
CHECK_DEADLOCK FALSE
