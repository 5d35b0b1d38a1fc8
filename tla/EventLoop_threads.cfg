SPECIFICATION FairSpec
CONSTANTS
    Loop = Loop
    Posters = {Loop, u1, u2}
    Stoppers = {Loop, u2}
    Jobs = {j1, j2, j3}
    MaxRestarts = 1
INVARIANTS
    StopNotMissed
    PendingIsCovered
PROPERTIES
    StopReturns
    ImplementsWorkQueue
