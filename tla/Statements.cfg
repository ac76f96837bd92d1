CONSTANTS
    Null = Null
    Unset = Unset
    Programs <- MCPrograms
    Calls <- MCCalls
    Items <- MCItems
SPECIFICATION FairSpec
INVARIANTS
    RunsAsWritten
    SetBeforeRead
PROPERTIES
    EndsAsMeant
CHECK_DEADLOCK FALSE
