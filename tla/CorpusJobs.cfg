SPECIFICATION FairSpec
CONSTANTS
    Revs = {v1, v2}
    Background = {w1}
    Request = {q1}
    LastEpoch = 1
    MaxAttempts = 2
    MaxVersion = 6
    MaxBlobs = 2
    MaxEvents = 2
    None = None
INVARIANTS
    OneExecution
    ChargesKept
    CaptureEvidence
PROPERTIES
    HeadFollowsInventory
    OwnerKept
    NotStranded
CHECK_DEADLOCK FALSE
