SPECIFICATION AdmissionFairSpec
CONSTANTS
    b1 = b1
    b2 = b2
    d1 = d1
    Continuous = {b1, b2}
    OnDemand = {d1}
    Slots = 2
    Limits = {1}
    MaxEvents = 2
    Plans <- MCPlans
    None = None
INVARIANTS
    ChargedToday
PROPERTIES
    EvidenceKept
    InFlightBounded
    NeitherStarves
CHECK_DEADLOCK FALSE
