SPECIFICATION FairSpec
CONSTANTS
    Keys = {k1}
    ObjectKeys = {k1}
    Schedulers = {s1}
    MaxRows = 2
    MaxLaunches = 2
    MaxWork = 3
    MaxActive = 1
    MaxQueued = 2
    OpTime = 1
    Grace = 1
    Retention = 2
    Cooldown = 1
    SeenFor = 0
    MaxTrouble = 1
INVARIANTS
    OneActivePerKey
PROPERTIES
    IsLedger
    LaunchEndsByItsOwn
    ReceiptKept
    EveryRequestEnds
