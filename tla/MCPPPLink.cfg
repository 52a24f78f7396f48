SPECIFICATION MCFair
CONSTANTS
    Node         <- MCNode
    Options      <- MCOptions
    Addci        <- MCAddci
    Reqci        <- MCReqci
    Protrejecter <- MCNode
    MaxConfReqs  = 4
    IdMod        = 12
    MaxLoss      = 3
    MaxOpen      = 2
    MaxEarly     = 0
    Window       = 1
INVARIANTS TypeOK TimerArmed AnsweredOnce OpenedIsAgreed
PROPERTIES TimelyConverges TimelyNobodyGivesUp
CHECK_DEADLOCK FALSE
