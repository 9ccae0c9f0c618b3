SPECIFICATION MCSpec
CONSTANTS
    Tasks = {t1, t2}
    Ops <- ManyOps
    Execs <- ManyExecs
    NoOp = 0
    NoExec = 0
    Clients = {c1, c2}
    NoCall = NoCall
    Slots = 1
    Raised <- OneLevel
    MaxAsks = 3
    MaxWork = 1
    MaxCrashes = 2
    MaxFails = 1
    MaxFaults = 2
    MaxEvents = 4
    Second = {t2}
    MaxTogether = 2
    Asked <- AllAsked
INVARIANTS TypeOK RowHasRun DoneWasDone SlotsShared
PROPERTIES LateStopWaits NoReplay
SYMMETRY Symmetry
CHECK_DEADLOCK FALSE
