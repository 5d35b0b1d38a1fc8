SPECIFICATION Spec
CONSTANTS
    s1 = s1
    s2 = s2
    s3 = s3
    n1 = n1
    Servers = {s1, s2, s3}
    Names = {n1, n2}
    FirstName <- SameName
    Host <- OwnHost
    Rank <- Ordered
    ProbeCount = 3
    AnnounceCount = 1
    Units = 1
    MaxRenames = 1
    MaxLost = 1
INVARIANTS
    Claims
PROPERTIES
    Settles
CHECK_DEADLOCK FALSE
