SPECIFICATION FairSpec
CONSTANTS
    e1 = e1
    e2 = e2
    Initiator = e1
    Acceptor = e2
    SndBuf = 2
    RcvBuf = 1
    Mss = {1}
    Cwnd = {1}
    DupAcks = 2
    MaxXmit = 2
    MaxConnectXmit = 2
    SeqSpace = 64
    MaxProbes = 1
    Closing = {e1}
    MaxWritten <- MCWrittenTwo
    WriteSize = 2
    ReadSize = 2
    MaxPackets = 1
    MaxRepeats = 1
PROPERTIES
    EverythingArrives
CHECK_DEADLOCK FALSE
