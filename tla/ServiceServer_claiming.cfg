SPECIFICATION FairSpec
CONSTANTS
    ProbeCount = 3
    AnnounceCount = 2
    Names = {n1, n2, n3}
    FirstName = n1
    UpdateNames = {}
    RR = {"ptr"}
    Have = {"ptr"}
    EmptyTxt = FALSE
    Foreign = {}
    Senders = {}
    StopCallers = {"executor", "user", "destructor"}
    Verdicts = {TRUE}
    MaxUpdates = 0
    MaxConflicts = 4
INVARIANTS
    ProbedBeforeClaim
    CleanEnd
PROPERTIES
    StopCompletes
    ReadyFires
CHECK_DEADLOCK FALSE
