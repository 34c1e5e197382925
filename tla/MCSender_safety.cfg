SPECIFICATION Spec
CONSTANTS
    Names = {n1, n2}
    NoName = NoName
    Conns = {c1, c2}
    NoConn = NoConn
    Workers = {w1, w2}
    AfterAction = "archive"
    Producer = "once"
    MaxAttempts = 2
    MaxVersion = 2
    Info <- Falling
    MaxFaults = 0
    MaxStarts = 1
SYMMETRY Symmetry
INVARIANTS
    TypeOK
    SingleOwner
    NothingLost
PROPERTIES
    OldestFirst
CHECK_DEADLOCK FALSE
