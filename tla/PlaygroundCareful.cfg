SPECIFICATION PlaygroundSpec
CONSTANTS
    MaxTurns = 3
    MaxTyped = 1
    MaxChunks = 1
    MaxResumes = 1
    MaxMounts = 1
    MaxTabs = 1
    MaxPolls = 1
    MaxNet = 2
    OldConvs = 1
    Modes = {{}}
INVARIANTS
    ThreadsHaveOneHome
    DeletedStaysDeleted
    ScreenIsSaved
    FinalSurvives
    QueueHasTurn
CHECK_DEADLOCK FALSE
