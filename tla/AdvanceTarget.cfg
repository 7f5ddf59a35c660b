SPECIFICATION Spec
CONSTANTS
    p1 = p1
    p2 = p2
    c0 = c0
    c1 = c1
    c2 = c2
    c3 = c3
    c4 = c4
    c5 = c5
    f = f
    g = g
    e1 = e1
    e2 = e2
    Pushers = {p1, p2}
    Commits = {c0, c1, c2, c3, c4, c5}
    Base = c0
    Paths = {f, g}
    Edits = {e1, e2}
    None = None
    MaxUser = 4
SYMMETRY Symmetry
INVARIANTS
    LandedStays
    DesyncReported
PROPERTIES
    OnlyOwnAdvanceUndone
    UncommittedKept
CHECK_DEADLOCK FALSE
