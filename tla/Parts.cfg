SPECIFICATION PartsSpec
CONSTANTS
    Models = {clef}
    NoModel = NoModel
    DecisionModel = clef
    MaxGen = 3
    Clients = {c1, c2}
    NoOne = NoOne
    MaxRequests = 4
    KillCanTimeOut = FALSE
    SpawnCanFail = TRUE
    Callers = {c1, c2}
    Repos = {"org/a", "org/b"}
    MaxJobs = 4
    Cap = 4
    Trim = 2
    MaxLines = 10
    MaxSentences = 2
    MaxUtterances = 2
    MaxVoiceFailures = 2
    MaxFrames = 2
CHECK_DEADLOCK FALSE
INVARIANTS
    DecisionsSound
    RecordsAreHonest
    StreamsFaithful

    
    
