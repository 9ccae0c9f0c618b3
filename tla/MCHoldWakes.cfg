SPECIFICATION FairSpec
CONSTANTS
    Chats = {a, b}
    Workers = {w}
    NoSession = NoSession
    Ids = {i1, i2}
    NSrv = 2
    RF = 0
    NFg = 0
    NA = 1
    MaxCalls = 2
    MaxOthers = 0
    MaxActs = 2
    MaxHistory = 3
PROPERTIES HoldWakes
CHECK_DEADLOCK FALSE
