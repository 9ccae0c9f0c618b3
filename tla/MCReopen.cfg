SPECIFICATION PrioritySpec
CONSTANTS
    Tasks = {t1, t2}
    Ops = {o1, o2}
    Execs = {e1}
    Callers = {c1}
    NoOp = NoOp
    NoExec = NoExec
    NewPriorities <- TwoPriorities
    UserChoices <- LevelChoices
    Outcomes <- Interrupted
    Endings <- OneEnding
    MaxGen = 3
    MaxTogether = 0
    MaxTurns = 0
    MaxRows = 2
SYMMETRY TaskSymmetry
INVARIANT SingleP0
CHECK_DEADLOCK FALSE
