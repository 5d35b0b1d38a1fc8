CONSTANTS
    Tag = 4
    W = 1
    MaxHops = 2
    MaxNameLen = 7
    Dot = 2
    Equals = 3
    TypeOf <- MCTypeOf
    CodeOf <- MCCodeOf
    Frames <- MCFrames
    MaxPayload = 26
    QueryName <- MCQueryName
SPECIFICATION WireSpec
INVARIANTS
    Confined AnswersArrive
PROPERTIES
    Terminates
CHECK_DEADLOCK FALSE
