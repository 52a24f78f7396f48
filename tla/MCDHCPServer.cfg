SPECIFICATION MCFair
CONSTANTS
    e1          = e1
    e2          = e2
    e3          = e3
    Eth         <- Three
    Addr        = {1, 2, 9}
    ServerId    = {9}
    None        = None
    Xid         = {0, 1, 2, 3, 4}
    LTime       = {60, 1006632960}
    Configured  = {None, 1}
    LongLeases  = FALSE
    MaxOffers   = 2
    START       = 1
    END         = 2
    MaxFreeList = 4
    ServerIP    = 9
    QueueSize   = 2
    MaxLoss     = 2
    Slow        = {}
    Operators   <- Nobody
    MaxWrites   = 0
    ServerClock = FALSE
INVARIANTS PoolTypeOK PoolSound AckedIsLeased
PROPERTIES ImplementsAllocation GetsLease
CHECK_DEADLOCK FALSE
