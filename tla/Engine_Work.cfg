SPECIFICATION FairSpec
CONSTANTS
    NumTasks = 2
    NumMissions = 1
    MissionOf <- OneMission
    Dependencies <- Chained
    NumCalls = 2
    Operations <- Repeating
    Files <- ArtifactKeys
    Decide <- AllAnswers
    OverCeiling = {}
    ConditionsMet = {1}
    RetryLimit = 1
    MaxConcurrent = 1
    MaxPending = 2
    MaxRestarts = 1
INVARIANTS
    TypeOK
    AtMostOnce
    ApprovedBeforeEffect
    CompletedMeansDone
    RevisionsPaid
    FailureCanBeRecorded
    LoopSurvives
PROPERTIES
    StartsOnlyWhileRunning
    EveryTaskEnds
