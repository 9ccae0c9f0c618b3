SPECIFICATION FairSpec
CONSTANTS
    Tasks = {t1}
    Ops <- ManyOps
    Execs <- ManyExecs
    NoOp = 0
    NoExec = 0
    Clients = {c1, c2}
    NoCall = NoCall
    Slots = 1
    Raised <- OneLevel
    MaxAsks = 2
    MaxWork = 1
    MaxCrashes = 0
    MaxFails = 0
    MaxFaults = 2
    MaxEvents = 5
    Second = {}
    MaxTogether = 0
    Asked <- PauseResume
PROPERTIES ParkEnds
CHECK_DEADLOCK FALSE
