CONSTANTS
    c1 = c1
    c2 = c2
    Call <- TwoCalls
    NoCall = NoCall
    MayFail <- OneCall
SPECIFICATION FairSpec
INVARIANTS TypeOK AudioFollowsFocus HeldCallsExist RingingStops
PROPERTY CallsEnd
\* Every call ends, and a process that failed does nothing more.
CHECK_DEADLOCK FALSE
