SPECIFICATION MCSpec
CONSTANTS
    Tasks = {t1}
    Ops <- ManyOps
    Execs <- ManyExecs
    NoOp = 0
    NoExec = 0
    Clients = {c1}
    NoCall = NoCall
    Slots = 1
    Raised <- NoLevels
    MaxAsks = 1
    MaxWork = 0
    MaxCrashes = 0
    MaxFails = 0
    MaxFaults = 0
    MaxEvents = 1
    Second = {}
    MaxTogether = 0
    Asked <- StopOnly
PROPERTY StopBeforeTurn
CHECK_DEADLOCK FALSE
