SPECIFICATION DHCPSpec
CONSTANTS
    e1          = e1
    e2          = e2
    Eth         <- MCEth
    Addr        = {1, 9}
    ServerId    = {9}
    None        = None
    Xid         = {0, 1}
    LTime       = {60, 1006632960}
    Configured  = {None, 1}
    LongLeases  = FALSE
    MaxOffers   = 2
    START       = 1
    END         = 1
    MaxFreeList = 2
    ServerIP    = 9
    QueueSize   = 2
    MaxLoss     <- MCUnlimited
    Slow        <- MCSlow
    Operators   <- Disciplined
    MaxWrites   <- MCUnlimited
    ServerClock = TRUE
INVARIANT ActiveIsLeased
CHECK_DEADLOCK FALSE
VIEW View
