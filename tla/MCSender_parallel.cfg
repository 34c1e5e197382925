SPECIFICATION Spec
CONSTANTS
    Names = {n1}
    NoName = NoName
    Conns = {c1, c2}
    NoConn = NoConn
    Workers = {w1, w2}
    AfterAction = "archive"
    Producer = "vacant"
    MaxAttempts = 2
    MaxVersion = 3
    Info <- Rising
    MaxFaults = 0
    MaxStarts = 1
SYMMETRY Symmetry
INVARIANTS
    ArchivedIsDelivered
CHECK_DEADLOCK FALSE
