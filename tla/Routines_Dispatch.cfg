SPECIFICATION FairSpec
CONSTANTS
    a1 = a1
    NumRoutines = 2
    Agents = {a1}
    OwnerOf <- FirstOwner
    Periods <- SecondChanges
    Policies <- FirstUnreadable
    RetryDelay = 1
    RetryCap = 2
    MaxTime = 4
    MaxCrashes = 1
INVARIANTS
    TypeOK
    WaitsForOccurrence
    RetriesEnd
PROPERTIES
    NoDoubleDispatch
    DueIsServed
