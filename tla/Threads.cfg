CONSTANTS
    t1 = t1
    t2 = t2
    Thread <- TwoThreads
    Main = t1
    MaxMessages = 4
    Stopping = TRUE
    Clearing = TRUE
SPECIFICATION FairSpec
INVARIANTS TypeOK ReadyFlagsLive SendIsSynchronous NoWorkIsMissed
PROPERTY EverythingReturns
\* The threads wait for messages or were stopped once Main has no more to do.
CHECK_DEADLOCK FALSE
