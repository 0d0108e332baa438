SPECIFICATION LiveSpec
CONSTANTS
    Models = {m1}
    NoModel = NoModel
    MaxGen = 2
    Clients = {c1}
    Watchdog = Watchdog
    NoOne = NoOne
    MaxRetries = 1
    Requests = {"launch", "stop"}
    MaxRequests = 2
    MaxRestarts = 1
    KillCanTimeOut = FALSE
    SpawnCanFail = FALSE
    DiskCanFail = FALSE
CHECK_DEADLOCK FALSE
PROPERTIES
    CrashIsResumed
    RequestsAnswered
