CONSTANTS
    rtp = rtp
    rtcp = rtcp
    Channel <- TwoChannels
    Destroying = TRUE
    MaxRedirects = 0
    MaxCandidates = 1
    MaxPosted = 3
SPECIFICATION Spec
INVARIANT NoChannelsNoTimer
\* Nothing is left to do when no channel is writable and all was sent.
CHECK_DEADLOCK FALSE
