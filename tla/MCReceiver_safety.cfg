SPECIFICATION Spec
CONSTANTS
    Names = {n1, n2}
    NoName = NoName
    Conns = {c1, c2}
    NoConn = NoConn
    Ids = {i1, i2}
    NoId = NoId
    MaxReqs = 2
    MaxCrashes = 1
SYMMETRY Symmetry
INVARIANTS
    TypeOK
    AckedDurable
    CommittedIntact
    StagedOwned
PROPERTIES
    ImplementsInbox
