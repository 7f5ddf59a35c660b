SPECIFICATION Spec
CONSTANTS
    c1 = c1
    c2 = c2
    Children = {c1, c2}
    First = c1
    None = None
    Pipelines <- SomePipelines
    MaxSignals = 1
INVARIANTS
    NoneUnaware
    NothingAfterCancel
    CaughtIsNotFatal
    CancelIsReported
PROPERTIES
    OutputIsShown
    DrainEnds
CHECK_DEADLOCK FALSE
