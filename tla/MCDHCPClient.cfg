SPECIFICATION ClientSpec
CONSTANTS
    Eth        = {e1}
    Addr       = {1, 2}
    ServerId   = {2}
    None       = None
    Xid        = {0, 1}
    LTime      = {0, 1}
    Configured = {None, 1}
    LongLeases = TRUE
    MaxOffers  = 2
INVARIANTS ClientTypeOK RetriesSound
PROPERTY ChoosesLongest
