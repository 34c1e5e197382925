SPECIFICATION FairSpec
CONSTANTS
    Names = {n1}
    NoName = NoName
    Conns = {c1, c2}
    NoConn = NoConn
    Workers = {w1, w2}
    AfterAction = "delete"
    Producer = "once"
    MaxAttempts = 2
    MaxVersion = 1
    Info <- Rising
    MaxFaults = 1
    MaxStarts = 1
INVARIANTS
    SingleOwner
    NothingLost
PROPERTIES
    EveryFileHandled
    StopCompletes
CHECK_DEADLOCK FALSE
