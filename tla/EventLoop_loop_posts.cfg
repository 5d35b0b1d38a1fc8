SPECIFICATION FairSpec
CONSTANTS
    Loop = Loop
    Posters = {Loop}
    Stoppers = {Loop, u1}
    Jobs = {j1, j2, j3}
    MaxRestarts = 2
INVARIANTS
    NoStrandedWork
PROPERTIES
    QueuedWorkRuns
