SPECIFICATION Spec
CONSTANTS
    main = main
    x1 = x1
    x2 = x2
    x3 = x3
    root = root
    p1 = p1
    p2 = p2
    p3 = p3
    Branches = {main, x1, x2, x3}
    Default = main
    Paths = {root, p1, p2, p3}
    Root = root
    Expectations <- DistinctTemplates
    None = None
    MaxChanges = 1
    MaxRuns = 2
SYMMETRY Symmetry
INVARIANTS
    RelocatedIsThere
    SkipsExactlyTheBlocked
    PassesAreFew
CHECK_DEADLOCK FALSE
