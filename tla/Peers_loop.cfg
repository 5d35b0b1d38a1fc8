SPECIFICATION FairSpec
CONSTANTS
    qu = qu  ob = ob  di = di
    Peers = {qu, ob}
    Kind <- QuerierObserver
    Wanted <- QueryObserve
    Modes = {"multicast", "unicast"}
    Packets <- QuestionOrAnswer
    UnknownTtl = "accept"
    IntBits = 8
    Silence = 3
    InfiniteSilence = 3
    Delays = {1}
    Lateness = 1
    HandlersIn = {"work"}
    MaxPackets = 1
INVARIANTS
    NoFault TablesAgree 
PROPERTIES
    CompletesOnce QueriesInTime StopCompletes  PacketsHandled
