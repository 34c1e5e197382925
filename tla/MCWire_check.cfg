SPECIFICATION FairSpec
CONSTANTS
    ByteBits = 1
    Magic <- SmallMagic
    LenLen = 2
    SizeLen = 3
    SumLen = 2
    Sum <- Parities
    MaxName = 2
    ValidNames <- SomeNames
    MaxLen = 3
    AskedTenths = 25
    Unit = 1
    OtherSizes = {1, 4}
    MaxReqs = 2
    MaxChanges = 1
INVARIANTS
    TypeOK
    InStep
    StoredIsSent
    LimitHonoured
PROPERTIES
    AckMatches
    TransferEnds
