SPECIFICATION ServerSpec
CONSTANTS
    Eth         = {e1, e2, e3}
    Addr        = {1, 2, 9}
    ServerId    = {9}
    None        = None
    Xid         = {0}
    LTime       = {60, 1006632960}
    START       = 1
    END         = 2
    MaxFreeList = 3
    ServerIP    = 9
INVARIANT RepliesAreAddressed
