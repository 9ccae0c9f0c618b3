SPECIFICATION HistorySpec
CONSTANTS
    Tasks = {t1, t2}
    Ops = {o1, o2, o3}
    Execs = {e1, e2}
    Callers = {c1}
    NoOp = NoOp
    NoExec = NoExec
    NewPriorities <- TwoPriorities
    UserChoices <- LevelChoices
    Outcomes <- AnyOutcome
    Endings <- AnyEnding
    MaxGen = 5
    MaxTogether = 3
    MaxTurns = 1
    MaxRows = 2
    Ids = {o1, o2, o3}
    Chats = {e1, e2}
    Workers = {w}
    NoSession = NoSession
    NSrv = 2
    RF = 0
    NFg = 0
    NA = 1
    MaxCalls = 3
    MaxOthers = 1
    MaxActs = 3
    MaxHistory = 4
SYMMETRY IdSymmetry
INVARIANTS TypeOK TicketSound IntentResolvable EvidenceIsCurrent NeverStartedNeverRan CrashCountedOnce PauseIntact GateTypeOK TablesAgree HeldForAReason
PROPERTIES ReceiptNeverRevived StopWins P0TakenOver PauseKeepsPriority AdmittedWithinLimits
CHECK_DEADLOCK FALSE
