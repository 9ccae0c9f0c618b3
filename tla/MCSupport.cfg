SPECIFICATION MCSpec
CONSTANTS
    p1 = p1
    p2 = p2
    p3 = p3
    Procs <- Three
    Host <- Hosts
    NoProc = NoProc
    Keys = {k1}
    NoKey = NoKey
    MaxTurns = 3
    Creator <- First
    MaxOpens = 1
    MaxActs = 3
    MaxFaults = 3
    MaxHistory = 4
    MaxRuns = 2
    MaxEach = 2
    MaxChanges = 3
    m1 = m1
    m2 = m2
    Msgs = {m1, m2}
    Asks = {a1}
    Nobody = Nobody
    MaxSends = 4
    MaxEnds = 3
    MaxWrites = 2
    MaxRefused = 1
INVARIANTS SupportTypeOK ConversationSound OutcomeKept RunningHasRunner SlotRunsOnce FolderKept MessagesKept FollowedOnce StopHolds
PROPERTIES LogSpec StopLands RunsOneAtATime TimerServes ChatServes FollowUpEnds
CHECK_DEADLOCK FALSE
