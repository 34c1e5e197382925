SPECIFICATION FairSpec
CONSTANTS
    Names = {n1}
    NoName = NoName
    Conns = {c1}
    NoConn = NoConn
    Workers = {w1}
    AfterAction = "archive"
    Producer = "vacant"
    MaxAttempts = 2
    MaxVersion = 2
    Info <- Rising
    MaxFaults = 0
    MaxStarts = 1
PROPERTIES
    EveryFileHandled
CHECK_DEADLOCK FALSE
