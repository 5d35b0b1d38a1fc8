SPECIFICATION Spec
CONSTANTS
    Loop = Loop
    Posters = {u1}
    Stoppers = {Loop, u1}
    Jobs = {j1, j2}
    MaxRestarts = 0
INVARIANT
    NoStrandedWork
