SPECIFICATION MCSpec
CONSTANTS
    Tasks = {t1, t2}
    Ops <- FewOps
    Execs <- FewExecs
    NoOp = 0
    NoExec = 0
    Clients = {c1}
    NoCall = NoCall
    Slots = 1
    Raised <- OneLevel
    MaxAsks = 2
    MaxWork = 1
    MaxCrashes = 0
    MaxFails = 0
    MaxFaults = 0
    MaxEvents = 2
    Second = {t2}
    MaxTogether = 2
    Asked <- PauseLevel
INVARIANT TheirPauseStays
CHECK_DEADLOCK FALSE
