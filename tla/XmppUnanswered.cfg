SPECIFICATION ThreadSpec
CONSTANTS
    r1 = r1
    r2 = r2
    i1 = i1
    x1 = x1
    x2 = x2
    Requests = {r1}
    Incoming = {i1}
    Raw = {}
    MayLose = FALSE
PROPERTIES
    UnansweredFails
CHECK_DEADLOCK FALSE
