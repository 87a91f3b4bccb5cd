SPECIFICATION FairSpec
CONSTANTS
    Limit = 3
    PerTurn = 2
    MaxReprompts = 1
    MaxContinues = 1
    StallWindow = 2
    RepeatLimit = 2
    Kinds <- MCKinds
    MaxFaults = 2
    MaxResumes = 2
INVARIANTS TypeOK BudgetHolds SavedTalkIsCharged SuccessIsAudited ProtectedRestored
PROPERTIES LoopEnds
CHECK_DEADLOCK FALSE
