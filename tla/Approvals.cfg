SPECIFICATION Spec
CONSTANTS
    w1 = w1
    w2 = w2
    w3 = w3
    p = p
    r = r
    pKey = pKey
    pOld = pOld
    star = star
    c = c
    cOld = cOld
    d = d
    flag = flag
    hint = hint
    Procs = {w1, w2}
    Jobs = {"run", "runYes", "readonly", "add", "clear", "clearStale", "clearAll", "update", "set"}
    Projects = {p, r}
    Keys = {pKey, pOld, star}
    Patterns = {star}
    Current <- Own
    Exact <- OwnAndOld
    Commands = {c, cOld, d}
    Norm <- Renamed
    ProjectConfigs <- Worktrees
    Settings = {flag, hint}
    FirstApprovals <- Files
    None = None
SYMMETRY Symmetry
INVARIANTS
    NoneRevived
    NoneLost
    OnlyConsentedRun
PROPERTIES
    SettingsKeptByWriters
CHECK_DEADLOCK FALSE
