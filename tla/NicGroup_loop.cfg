SPECIFICATION FairSpec
CONSTANTS
    Absent = Absent  NoSnapshot = NoSnapshot  NoItem = NoItem
    n1 = n1  n2 = n2  address1 = address1  address2 = address2  ipv6_only = ipv6_only  filtered = filtered
    Nics <- MCNics
    States <- MCStates
    StatesOf <- MCStatesOf
    Passes <- MCPasses
    Families <- MCFamilies
    GroupOf <- FactoryGroup
    GoneFails = FALSE
    Types = {http}
    Names = {a, b}
    Backends = {"netlink", "callback", "poll"}
    FailsOn = {"poll"}
    StaleOn = {"poll"}
    InitialFails = FALSE
    OnExecutor = TRUE
    Dynamic = {TRUE, FALSE}
    StartTwice = FALSE
    MaxPosts = 1
INVARIANTS
    SlotsFollow 
PROPERTIES
    Converges
