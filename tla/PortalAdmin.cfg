SPECIFICATION PortalSpec
CONSTANTS
    Components = {"logs", "console", "users", "signin"}
    MaxSpeech = 2
    MaxMessages = 2
    MaxRecorders = 2
    MaxThread = 3
    Sizes = {1, 2, 6}
    MaxText = 6
    MaxJobs = 2
    MaxStudioCalls = 2
    MaxScans = 2
    MaxNodes = 2
    MinSeconds = 2
    MaxSeconds = 3
    MaxMics = 2
    MaxTurns = 2
    MaxTokens = 1
    MaxConfirms = 1
    MaxVotes = 2
    MaxQuestions = 2
    MaxChoices = 4
    MaxLevels = 3
    MaxRuns = 2
    MaxPaneItems = 2
    MaxPaneOps = 2
    MaxWire = 2
    Windows = {w1}
    MaxPrefOps = 4
    MaxImages = 1
    MaxPicked = 1
    MaxSends = 2
    MaxAnswers = 2
    MaxLines = 2
    MaxLogLines = 1
    MaxDrops = 1
    MaxTailReads = 2
    MaxEntries = 2
    MaxDeskOps = 2
    MaxMail = 2
    Accounts = {"a", "b"}
    MaxUserOps = 2
    MaxSessions = 4
    MaxSubmits = 2
    MaxElsewhere = 0
    MaxNews = 3
    MaxTrips = 5
    MaxPages = 2
    MaxUserMail = 2
CHECK_DEADLOCK FALSE
INVARIANTS
    PagesTypeOK
    
    TypedReachesItsAccount

    
