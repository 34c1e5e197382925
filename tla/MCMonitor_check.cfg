SPECIFICATION FairSpec
CONSTANTS
    Nodes = {n1, n2}
    MonitorCert = MonitorCert
    NoFlag = NoFlag
    Blank = Blank
    Configs <- SomeConfigs
    MaxChanges = 3
INVARIANTS
    TypeOK
    ExitCodeHonest
    ExternalPinned
PROPERTIES
    ReportFresh
    RoundEnds
