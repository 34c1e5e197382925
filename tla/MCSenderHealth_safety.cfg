SPECIFICATION Spec
CONSTANTS
    Role = "sender"
    DiskWarnFlag = 0
    DiskFailFlag = 0
    StallAfter = 1
    StaleAfter = 0
    ErrorWindow = 1
    Disks <- SomeDisks
    MaxNow = 3
    Names = {n1, n2}
    NoName = NoName
    Workers = {w1, w2}
    MaxAttempts = 2
    MaxClears = 1
SYMMETRY Symmetry
INVARIANTS
    TypeOK
    ParkedReported
    StallReported
