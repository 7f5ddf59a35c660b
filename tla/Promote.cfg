SPECIFICATION Spec
CONSTANTS
    main = main
    w1 = w1
    w2 = w2
    b0 = b0
    b1 = b1
    b2 = b2
    x = x
    y = y
    p1 = p1
    p2 = p2
    p3 = p3
    Promoters = {p1, p2, p3}
    Main = main
    Linked = {w1, w2}
    Branches = {b0, b1, b2}
    FirstHeads <- Heads
    Names = {x, y}
    Tracked <- TrackedNames
    Included = {x, y}
    Fresh = Fresh
    None = None
    Concurrent = FALSE
    MaxBuilds = 1
SYMMETRY Symmetry
INVARIANTS
    NoFileLost
    FilesFollowBranch
CHECK_DEADLOCK FALSE
