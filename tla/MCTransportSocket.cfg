CONSTANTS
    a = a
    b = b
    m1 = m1
    m2 = m2
    Ends <- MCEnds
    Peer <- MCPeer
    Messages <- MCMessages
    Outbox <- TwoMessages
    FdCount <- ManyFds
    Closes <- BothClose
    MAX_TRANSFER_FDS = 1
    Capacity = 2
SPECIFICATION FairSpec
INVARIANTS Inv InOrder
PROPERTIES EveryMessageArrives CloseReturns
CHECK_DEADLOCK FALSE
