SPECIFICATION Spec
CONSTANTS
    Names = {n1}
    NoName = NoName
    Conns = {c1, c2}
    NoConn = NoConn
    Workers = {w1}
    AfterAction = "archive"
    Producer = "vacant"
    MaxAttempts = 2
    MaxVersion = 2
    Info <- Rising
    MaxFaults = 0
    MaxStarts = 1
    Ids = {i1, i2}
    NoId = NoId
    MaxCrashes = 0
SYMMETRY Symmetry
CONSTRAINT Uneventful
INVARIANTS
    ArchivedIsStored
CHECK_DEADLOCK FALSE
