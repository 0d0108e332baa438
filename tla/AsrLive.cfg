SPECIFICATION LiveSpec
CONSTANTS
    Users = {u1}
    MaxEvents = 2
CHECK_DEADLOCK FALSE
PROPERTIES
    IdleIsStopped
    ChatBringsDictation
    GateSeesCalls
