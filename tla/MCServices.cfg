SPECIFICATION MCSpec
CONSTANTS
    rpGroup = rpGroup
    ssmGroup = ssmGroup
    rp6 = rp6
    noRp = noRp
    Channel = {g1}
    Sender = {u1, u2}
    h1 = h1
    h2 = h2
    Receiver <- MCReceiver
    Listener <- MCListener
    Iface = {i1}
    MaxSources = 2
    Group6 = {rpGroup, ssmGroup}
    Embedded = {rpGroup}
    Source6 = {rp6}
    Rp <- MCRp
    Nobody = noRp
    Says <- MCSays
    Length <- MCLength
    NewLength <- MCNewLength
    tc = tc
    ts = ts
    tm = tm
    Host <- MCHost
    Client = {tc}
    Talks <- MCTalks
    Side <- MCSide
    ip_table_assoc = 3
    ip_table_block_count = 2
    ip_table_max_count = 2
    ip_table_min_count <- MCMin
    ip_table_incr_age = 1
    ip_table_decr_age = 1
    con_table_maxage = 1
    ClockMod = 4
    CountMod = 4
    MaxArps = 1
    MaxMinutes = 2
    MaxTurns = 4
    Peer = {p1}
    Fds = {1, 2, 3, 4}
    Inputs = 2
    MaxFrames = 1
    NumberMod = 6
    MaxGRE = 8
    Agg = {1, 2}
    FlowKinds <- MCKinds
    Exporter <- MCExporter
    Layouts <- MCLayouts
    TemplateIds = {256}
    FirstId = 256
    IdMod = 257
    MaxPackets = 2
    MaxReports = 0
    MaxSent = 3
    Segments = 2
    SegLength = 2
    RexmitLength = {1, 2}
    MaxRexmit = 1
    MaxAcks = 2
    MaxTime = 1
    Windows = {2}
    Worlds <- MCWorlds
    PktBank = 2
    RcvWindow = 2
    Units = 7
    Bits = 3
    MinDistance = 2
    Addr = {0, 1, 4, 6}
    MaxUpdates = 3
    MaxLines = 2
    Integral <- MCIntegral
    StringLengths = {125, 128, 256}
    ObjectIds <- MCObjectIds
    MaxValues = 2
    MaxPushes = 2
    Oids <- MCOids
    Names = {"sys", "my"}
    WellKnown = {"sys"}
    Contexts <- MCContexts
    MaxDefined = 3
    NODES_PER_GROUP = 5
    TrapStrings = {121, 122}
    QSIZE = 2
    MaxTraps = 4
    Paints = {1, 2}
    Goal <- MCGoal
    QueuesNumber = 3
    ShortCapacity = 1
    LongCapacity = 2
    SamplesSkipped = 1
    Junk = 9
    MaxPushed = 4
    MaxFeedback = 3
    NextHop = {"n1", "n2"}
    Weight <- MCWeight
    Backlogs = {0, 2}
    Rates = {1, 2}
    MQCapacity = 2
    V = 1
    Theta = 2
    Dmax = 1
    MaxQueued = 3
    Ssrc = {1, 2, 3}
    MAX = 2
    NRTP = 2
    TIMEOUT = 1
    TIMEOUTRTP = 2
    Sixth = 1
    MaxNow = 3
    Mac = {"m1", "m2", "m3"}
    HashOf <- MCHash
INVARIANTS ServicesTypeOK StreamsContiguous PruneSparesOthers PortScanSound TunnelsSound MeasurementsSound SNMPTrapsSound QueuesSound FlowTablesSound
CHECK_DEADLOCK FALSE
