SPECIFICATION Spec
CONSTANTS
    i1 = i1
    i2 = i2
    i3 = i3
    b1 = b1
    b2 = b2
    b3 = b3
    w1 = w1
    w2 = w2
    Items = {i1, i2, i3}
    Current = i1
    Branches = {b1, b2, b3}
    Workers = {w1, w2}
    Main = Main
    None = None
    Scenarios <- SomeScenarios
    MaxChanges = 1
PROPERTIES
    NothingNewDestroyed
    LatchStopsDeletions
    ImplementsPromise
    Ends
CHECK_DEADLOCK FALSE
