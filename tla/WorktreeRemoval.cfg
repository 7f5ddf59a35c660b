SPECIFICATION Spec
CONSTANTS
    c1 = c1
    c2 = c2
    c3 = c3
    r1 = r1
    r2 = r2
    Removers = {r1, r2}
    Commits = {c1, c2, c3}
    First = c1
    None = None
    Fsmonitor = TRUE
    Submodules = TRUE
    Requests <- AloneOrRacing
SYMMETRY Symmetry
INVARIANTS
    WorkKept
    LockHonoured
    OwnerChecked
    CheckoutKeepsBranch
PROPERTY CommitsKept
CHECK_DEADLOCK FALSE
