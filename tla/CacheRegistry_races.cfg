SPECIFICATION Spec
CONSTANTS
    Task = {t1, t2}
    Name = {default, other}
    Default = default
    Config = {c1, c2, bad}
    Broken = {bad}
    Factory = Factory
    NoConfig = NoConfig
    Backend = {b1, b2, b3}
    NoBackend = NoBackend
    CloseMayFail = TRUE
SYMMETRY TaskSymmetry
INVARIANTS
    OneBackendPerName
    SetupSticks
    NoBackendLost
    DownMeansDown
