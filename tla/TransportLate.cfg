CONSTANTS
    rtp = rtp
    rtcp = rtcp
    Channel <- TwoChannels
    Destroying = FALSE
    MaxRedirects = 1
    MaxCandidates = 0
    MaxPosted = 3
SPECIFICATION Spec
INVARIANT RedirectRestartsTimer
\* Nothing is left to do when no channel is writable and all was sent.
CHECK_DEADLOCK FALSE
