SPECIFICATION Spec
CONSTANTS
    t1 = t1  t2 = t2  i1 = i1  i2 = i2  h1 = h1  a1 = a1  v1 = v1  v2 = v2
    Records <- Link
    Watched = {t1, t2}
    Ops <- LinkOps
    Origins = {o1}
    GoodbyeGrace = 1
    Modes = {"observe", "ttl_refresh", "discover"}
    SweepInterval = 1
    InitialInterval = 1
    Multiplier = 2
    MaxInterval = 2
    Thresholds <- OneThreshold
    JitterPct = 0
    KaPct = 50
    PerPacket = 1
    TcDelay = 1
    MaxCalls = 1
    MaxPackets <- LinkPackets
INVARIANTS
    MembersAgree
PROPERTIES
    UserView
CHECK_DEADLOCK FALSE
