SPECIFICATION FairSpec
CONSTANTS
    Names = {1, 2, 3, 4}
    STAGES <- MCStages
    NextStages <- MCNextStages
    ThreadPools = 2
    Dispatchers = {2, 3}
    Events = {e1, e2, e3}
    MaxInits = 2
INVARIANTS
    EventInOnePlace
    OnlyLateDeleted
    FailureLeavesNoStage
PROPERTY CleanupEnds
