SPECIFICATION FairSpec
CONSTANTS
    o1 = o1
    o2 = o2
    r1 = r1
    r2 = r2
    Objects = {o1, o2}
    Revs = {r1, r2}
    Dirs = {d1, d2}
    Installed = d1
    Calls = {c1, c2}
    Sessions = {s1}
    Batch = 2
    MaxOutbox = 3
    Budgets <- MCBudgets
    None = None
INVARIANTS
    IndexReplaysOutbox
    AckDurable
PROPERTIES
    WithdrawalFinal
    EventsAcknowledged
CHECK_DEADLOCK FALSE
