SPECIFICATION FairSpec
CONSTANTS
    a1 = a1
    a2 = a2
    NoAgent = NoAgent
    Agents = {a1}
    MaxFetches = 3
    MaxLoads = 2
    MaxOrg = 1
INVARIANTS
    TypeOK
    EvidenceOfFilter
    ProjekteListens
    RoutinesOfCheckbox
PROPERTY LoadingEnds
CHECK_DEADLOCK FALSE
