SPECIFICATION FairSpec
CONSTANTS
    a1 = a1
    a2 = a2
    NoAgent = NoAgent
    Agents = {a1, a2}
    Mentions <- NoneOrBoth
    Requests <- NoneOrThrice
    MaxTargets = 2
    ScanLimit = 1
    MaxMessages = 1
    MaxMissions = 2
    MaxCrashes = 1
INVARIANTS
    TypeOK
    OncePerLife
PROPERTIES
    ResultsArrive
