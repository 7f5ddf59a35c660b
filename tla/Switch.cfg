SPECIFICATION Spec
CONSTANTS
    p1 = p1
    p2 = p2
    b1 = b1
    b2 = b2
    n1 = n1
    n2 = n2
    d1 = d1
    d2 = d2
    d3 = d3
    Procs = {p1, p2}
    Things = {d1, d2, d3}
    Branches = {b1, b2}
    Remote = {b2}
    PRs = {n1, n2}
    Prefixed <- PrefixedNames
    None = None
    Requests <- SomeRequests
    Starts <- SomeStarts
    MaxTries = 4
    MaxChanges = 2
SYMMETRY Swap
INVARIANTS
    ContentsKept
    LeftoverNamed
PROPERTIES
    OthersBranchesUntouched
CHECK_DEADLOCK FALSE
