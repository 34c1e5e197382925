SPECIFICATION FairSpec
CONSTANTS
    Names = {n1}
    NoName = NoName
    Conns = {c1, c2}
    NoConn = NoConn
    Ids = {i1, i2}
    NoId = NoId
    MaxReqs = 1
    MaxCrashes = 0
PROPERTIES
    CloseCompletes
    RequestAnswered
