SPECIFICATION Spec
CONSTANTS
    Role = "receiver"
    DiskWarnFlag = 0
    DiskFailFlag = 0
    StallAfter = 0
    StaleAfter = 2
    ErrorWindow = 2
    Disks <- SomeDisks
    MaxNow = 3
    Conns = {c1, c2}
    Acceptor = Acceptor
    NoConn = NoConn
    StagingAge = 1
    MaxKills = 1
SYMMETRY Symmetry
INVARIANTS
    TypeOK
    RefusalReported
    OldStagingReported
    OldStagingOnlyIdle
