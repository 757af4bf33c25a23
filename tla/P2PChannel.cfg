SPECIFICATION Spec
CONSTANTS
    c1 = c1
    c2 = c2
    n1 = n1
    n2 = n2
    NoConnection = NoConnection
    Connection <- TwoConnections
    NetworkOf <- OneNetwork
    Preference <- C1Preferred
    Failures = 2
    MinImprovement = 1
    Rtts = {0}
    MaxAllocations = 2
    MaxQueue = 2
    MaxPackets = 2
INVARIANTS
    TypeOK
    DeadAreDeleted
    WritableMeansBest
    KeepsAllocating
PROPERTIES
    UpdateChannelStateAssertion
