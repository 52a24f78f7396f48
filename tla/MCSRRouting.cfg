SPECIFICATION MCFair
CONSTANTS
    s = s
    a = a
    b = b
    d = d
    Node     <- Kite
    Radio    <- KiteLinks
    Target   <- OneWay
    Metric   <- KiteMetric
    SeenMax  = 1
    SeqMod   = 2
    Fragile  <- FarLink
    MaxFault = 1
INVARIANTS SRTypeOK OneCopy
PROPERTIES ReplyMeansRoute KeepsDelivering FloodsEnd
