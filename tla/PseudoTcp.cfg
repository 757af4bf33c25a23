SPECIFICATION Spec
CONSTANTS
    e1 = e1
    e2 = e2
    Initiator = e1
    Acceptor = e2
    SndBuf = 4
    RcvBuf = 3
    Mss = {1, 2}
    Cwnd = {2}
    DupAcks = 2
    MaxXmit = 2
    MaxConnectXmit = 1
    SeqSpace = 64
    MaxProbes = 1
    Closing = {e1}
    MaxWritten <- MCWritten
    WriteSize = 3
    ReadSize = 1
    MaxPackets = 2
    MaxRepeats = 0
INVARIANTS
    TypeOK
    SegmentsCoverBuffer
    WindowIsKept
    CloseDeliversAll
PROPERTIES
    ImplementsByteStream
CHECK_DEADLOCK FALSE
