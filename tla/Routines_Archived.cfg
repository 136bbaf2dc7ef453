SPECIFICATION Spec
CONSTANTS
    a1 = a1
    NumRoutines = 1
    Agents = {a1}
    OwnerOf <- FirstOwner
    Periods <- SecondChanges
    Policies <- FirstUnreadable
    RetryDelay = 1
    RetryCap = 2
    MaxTime = 3
    MaxCrashes = 0
PROPERTIES
    ArchivedAgentsRest
