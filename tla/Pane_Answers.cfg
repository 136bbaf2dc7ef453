SPECIFICATION Spec
CONSTANTS
    a1 = a1
    a2 = a2
    u1 = u1
    NewAgent = NewAgent
    Nothing = Nothing
    Agents = {a1}
    Areas = {u1}
    Pages = {"system"}
    MaxRequests = 3
    MaxSecrets = 1
    MaxPosts = 2
INVARIANTS
    TypeOK
    ActivityIsOwn
    ConnectedIsReal
CHECK_DEADLOCK FALSE
