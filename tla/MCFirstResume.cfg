SPECIFICATION FairSpec
CONSTANTS
    Tasks = {t1}
    Ops <- ManyOps
    Execs <- ManyExecs
    NoOp = 0
    NoExec = 0
    Clients = {c1}
    NoCall = NoCall
    Slots = 1
    Raised <- NoLevels
    MaxAsks = 2
    MaxWork = 0
    MaxCrashes = 0
    MaxFails = 0
    MaxFaults = 2
    MaxEvents = 5
    Second = {}
    MaxTogether = 0
    Asked <- PauseResume
PROPERTIES ResumedStarts
CHECK_DEADLOCK FALSE
