SPECIFICATION Spec
CONSTANTS
    Task = {t1, t2, t3}
    Value = {v}
    NoTask = NoTask
    None = None
    Sentinel = Sentinel
    EncodedNone = EncodedNone
    TextNone = TextNone
    Raised = Raised
    NoneForms = {EncodedNone}
    Skipped <- SkipNone
    UniformLease = TRUE
    LeaseRunsOut = FALSE
SYMMETRY Symmetry
INVARIANT OneProducerWhileLocked
