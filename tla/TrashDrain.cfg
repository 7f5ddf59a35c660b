SPECIFICATION FairSpec
CONSTANTS
    c1 = c1
    c2 = c2
    d1 = d1
    d2 = d2
    e1 = e1
    e2 = e2
    s1 = s1
    Commands = {c1, c2}
    Sweepers = {c1}
    Drains = {d1, d2}
    Entries = {e1, e2, s1}
    Stubborn = {s1}
    Nobody = Nobody
    MaxFaults = 1
INVARIANTS
    OneDeleter
    EveryEntryCovered
PROPERTIES
    ImplementsPromise
    StagedIsDeleted
    DrainsExit
CHECK_DEADLOCK FALSE
