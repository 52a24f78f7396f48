SPECIFICATION MCSpec
CONSTANTS
    Gateway = {g1, g2}
    AdSeqs = {1, 2}
    AdMetrics = {0, 1}
    Listed = {g1}
    MaxAds = 2
    MaxAdTimers = 2
    FlowIds = {f1, f2}
    Gws = {g1, g2}
    NoGw = none
    End = {a, b}
    NumTypes = 2
    LongPeriod = 4
    LongTau = 8
    Periods = {2}
    Taus = {4}
    JitterPart = 2
    Draws <- MCDraws
    Slack = 1
    MaxQuiet = 12
    MaxLostProbes = 1
    Station = {1, 2, 3}
    Radio <- MCRadio
    Origin <- MCOrigin
    Counts = {0, 2}
    History = 2
    MaxLostCopies = 1
    MaxOrphans = 1
    Ethers = {e1, e2, e3}
    FirstIp = 1
    EndIp = 3
    ZeroIp = 0
    MaxFreeList = 4
    Hop = {1, 2, 3}
    Dist <- MCDist
    Ett <- MCEtt
    Packets <- MCPackets
    QCapacity = 2
    Infinite = 9
    Threshold = 0
    DMaxes = {0, 1}
    MaxAirLoss = 1
    BPNode = {1, 2, 3}
    BPLink <- MCBPLink
    BPSource = 1
    BPTarget = 3
    BPSeenMax = 1
    MaxQueries = 2
    MaxBPLost = 1
    Visitor = {c1}
    Ap = {ap1}
    DupeWindow = 3
    Numbers <- MCNumbers
    LinkThreshold = 2
    SeenRoom = 2
    MaxFloods = 3
    MaxEntered = 2
INVARIANTS RoofnetTypeOK GatewaysSound ProbesSound FloodSound LeasesSound BackPressureSound SRTablesSound
CHECK_DEADLOCK FALSE
