SPECIFICATION FairSpec
CONSTANTS
    Tasks = {t1, t2}
    Ops <- FewOps
    Execs <- FewExecs
    NoOp = 0
    NoExec = 0
    Clients = {c1, c2}
    NoCall = NoCall
    Slots = 1
    Raised <- OneLevel
    MaxAsks = 2
    MaxWork = 1
    MaxCrashes = 1
    MaxFails = 1
    MaxFaults = 2
    MaxEvents = 5
    Second = {t2}
    MaxTogether = 1
    Asked <- AllAsked
PROPERTIES RequestsEnd PauseServed RoomGivenBack PlaneSpec
CHECK_DEADLOCK FALSE
