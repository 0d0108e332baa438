SPECIFICATION Spec
CONSTANTS
    Models = {m1}
    NoModel = NoModel
    MaxGen = 3
    Clients = {c1, c2}
    Watchdog = Watchdog
    NoOne = NoOne
    MaxRetries = 2
    Requests = {"launch", "stop"}
    MaxRequests = 2
    MaxRestarts = 1
    KillCanTimeOut = FALSE
    SpawnCanFail = TRUE
    DiskCanFail = FALSE
SYMMETRY Symmetry
CHECK_DEADLOCK FALSE
INVARIANTS
    TypeOK
    SingleEngine
    RunningMeansServed
    ResumeBudget
