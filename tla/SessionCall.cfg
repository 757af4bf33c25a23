CONSTANTS
    a = a
    b = b
    c = c
    Peer <- TwoPeers
    Caller = a
    Nobody = Nobody
    MaxRedirects = 0
    Mortal <- Callee
SPECIFICATION FairSpec
INVARIANTS TypeOK FollowUpPosted ErrorsAreFatal NothingForTheDead TimersFitTheState
PROPERTIES ImplementsCallSetup CallsEnd
\* Every call ends, and nothing happens after it.
CHECK_DEADLOCK FALSE
