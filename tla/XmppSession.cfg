SPECIFICATION FairSpec
CONSTANTS
    r1 = r1
    r2 = r2
    i1 = i1
    x1 = x1
    x2 = x2
    Requests = {r1, r2}
    Incoming = {i1}
    Raw = {x1}
    MayLose = TRUE
INVARIANTS
    TypeOK
    StanzasInOrder
    TasksAreServed
    NothingIsDropped
PROPERTIES
    SessionsEndForGood
CHECK_DEADLOCK FALSE
