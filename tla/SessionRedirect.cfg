CONSTANTS
    a = a
    b = b
    c = c
    Peer <- ThreePeers
    Caller = a
    Nobody = Nobody
    MaxRedirects = 1
    Mortal <- NoPeer
SPECIFICATION UntimedSpec
INVARIANT AnswersAgree
PROPERTY ImplementsCallSetup
\* Every call ends, and nothing happens after it.
CHECK_DEADLOCK FALSE
