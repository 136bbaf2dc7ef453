SPECIFICATION Spec
CONSTANTS
    a1 = a1
    a2 = a2
    a3 = a3
    NoList = NoList
    Agents = {a1}
    Founders = {}
    Lenses = {"ressourcen", "liste"}
    Kinds = {"team", "resource"}
    MaxRows = 1
    MaxEntries = 1
    MaxRooms = 1
    MaxLoads = 2
    MaxCalls = 1
    OrgLimit = 1
INVARIANTS
    TypeOK
    NothingInvented
    CanvasCurrent
    AccessConfirmed
CHECK_DEADLOCK FALSE
