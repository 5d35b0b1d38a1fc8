SPECIFICATION FairSpec
CONSTANTS
    ProbeCount = 1
    AnnounceCount = 1
    Names = {n1}
    FirstName = n1
    UpdateNames = {n1}
    RR = {"ptr", "a", "aaaa"}
    Have = {"ptr", "a"}
    EmptyTxt = FALSE
    Foreign = {}
    Senders = {q1}
    StopCallers = {"executor"}
    Verdicts = {TRUE, FALSE}
    MaxUpdates = 1
    MaxConflicts = 1
INVARIANTS
    
    AnswersOwed
    SeenInWindowOnly

    
    
    
CHECK_DEADLOCK FALSE
