CONSTANTS
    rtp = rtp
    rtcp = rtcp
    Channel <- TwoChannels
    Destroying = FALSE
    MaxRedirects = 1
    MaxCandidates = 2
    MaxPosted = 3
SPECIFICATION FairSpec
INVARIANTS TypeOK WritableIsTheOr RequestsAreUnderWay
PROPERTY SignalingCompletes
\* Nothing is left to do when no channel is writable and all was sent.
CHECK_DEADLOCK FALSE
