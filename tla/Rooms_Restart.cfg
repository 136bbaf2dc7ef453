SPECIFICATION Spec
CONSTANTS
    a1 = a1
    a2 = a2
    NoAgent = NoAgent
    Agents = {a1, a2}
    Mentions <- One
    Requests <- Nobody
    MaxTargets = 2
    ScanLimit = 2
    MaxMessages = 1
    MaxMissions = 1
    MaxCrashes = 1
INVARIANTS
    PostsOnce
