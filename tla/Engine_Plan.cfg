SPECIFICATION Spec
CONSTANTS
    NumTasks = 3
    NumMissions = 2
    MissionOf <- FirstAlone
    Dependencies <- Chained
    NumCalls = 1
    Operations <- FirstOnce
    Files <- ArtifactKeys
    Decide <- Changing
    OverCeiling = {1}
    ConditionsMet = {2}
    RetryLimit = 1
    MaxConcurrent = 1
    MaxPending = 2
    MaxRestarts = 1
INVARIANTS
    DependenciesFirst
    WithinCeiling
    PendingIffWaiting
PROPERTIES
    FollowsLifecycle
    TerminalIsFinal
