SPECIFICATION Spec
CONSTANTS
    Task = {t1, t2}
    Name = {n1, n2}
    Config = {c1, c2}
    Engine = {e1, e2, e3}
    NoEngine = NoEngine
    NoConfig = NoConfig
    NoName = NoName
    Slots = 3
SYMMETRY Symmetry
INVARIANTS
    DictsInStep
    NoPoolLost
    ResourceKeepsDatabase
