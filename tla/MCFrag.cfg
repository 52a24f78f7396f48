SPECIFICATION MCFair
CONSTANTS
    NumPackets = 2
    NumFrags   <- MCNumFrags
    WindowSize = 1
    MaxRetries = 1
    MaxFit     = 2
    DupeWindow = 2
    MaxLoss    = 4
    MaxDup     = 2
    LoseAcks   = TRUE
INVARIANTS FragTypeOK DeliveredWhole KeptUntilDone
PROPERTY CalmDelivers
CHECK_DEADLOCK FALSE
