SPECIFICATION MergeSpec
CONSTANTS
    p1 = p1
    p2 = p2
    p3 = p3
    q1 = q1
    q2 = q2
    Pieces = {p1, p2, p3, q1, q2}
    Starts <- SomeStarts
    MaxUser = 3
INVARIANTS
    WorkKept
    ReportedAsDone
    HeadReattached
PROPERTIES
    PublishedKept
CHECK_DEADLOCK FALSE
