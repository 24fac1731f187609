SPECIFICATION FairSpec
CONSTANTS
    Task = {t1, t2, t3}
    Value = {v}
    NoTask = NoTask
    None = None
    Sentinel = Sentinel
    EncodedNone = EncodedNone
    TextNone = TextNone
    Raised = Raised
    NoneForms = {None, TextNone}
    Skipped = {v}
    UniformLease = FALSE
    LeaseRunsOut = TRUE
INVARIANTS
    SingleFlight
    LockOwnerInside
PROPERTIES
    PromiseKept
    EveryCallReturns
