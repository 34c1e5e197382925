SPECIFICATION Spec
CONSTANTS
    Names = {n1}
    NoName = NoName
    Conns = {c1}
    NoConn = NoConn
    Workers = {w1}
    AfterAction = "archive"
    Producer = "once"
    MaxAttempts = 2
    MaxVersion = 1
    Info <- Rising
    MaxFaults = 0
    MaxStarts = 1
    Ids = {i1}
    NoId = NoId
    MaxCrashes = 1
SYMMETRY Symmetry
INVARIANTS
    NeverLost
PROPERTIES
    ImplementsSender
CHECK_DEADLOCK FALSE
