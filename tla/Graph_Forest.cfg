SPECIFICATION Spec
CONSTANTS
    a1 = a1
    a2 = a2
    a3 = a3
    NoList = NoList
    Agents = {a1, a2, a3}
    Founders = {a1, a2, a3}
    Lenses = {"organisation"}
    Kinds = {}
    MaxRows = 3
    MaxEntries = 0
    MaxRooms = 0
    MaxLoads = 1
    MaxCalls = 1
    OrgLimit = 3
INVARIANT ReportingAcyclic
CHECK_DEADLOCK FALSE
