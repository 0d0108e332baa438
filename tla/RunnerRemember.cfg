SPECIFICATION Spec
CONSTANTS
    Models = {m1, m2}
    NoModel = NoModel
    MaxGen = 2
    Clients = {c1, c2}
    Watchdog = Watchdog
    NoOne = NoOne
    MaxRetries = 1
    Requests = {"launch", "delete"}
    MaxRequests = 3
    MaxRestarts = 1
    KillCanTimeOut = FALSE
    SpawnCanFail = FALSE
    DiskCanFail = FALSE
SYMMETRY Symmetry
CHECK_DEADLOCK FALSE
INVARIANTS
    ServedIsRemembered
    ReportedModel

    
