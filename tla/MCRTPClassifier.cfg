SPECIFICATION FlowTablesSpec
CONSTANTS
    Ssrc = {1}
    MAX = 20
    NRTP = 3
    TIMEOUT = 2
    TIMEOUTRTP = 30
    Sixth = 6
    MaxNow = 0
    Mac = {}
    HashOf = {}
INVARIANT SixthIsRTP
CHECK_DEADLOCK FALSE
