SPECIFICATION PlaygroundSpec
CONSTANTS
    MaxTurns = 2
    MaxTyped = 1
    MaxChunks = 1
    MaxResumes = 1
    MaxMounts = 2
    MaxTabs = 2
    MaxPolls = 1
    MaxNet = 2
    OldConvs = 0
    Modes = {{"tabs"}, {"fresh", "busy", "leaves"}, {"omits", "busy"}, {"titles"}, {"net"}}
INVARIANTS
    PlaygroundTypeOK
    OneTurnPerPage
    StopReaches
CHECK_DEADLOCK FALSE
