CONSTANTS
    default = default
    analytics = analytics
    c1 = c1
    c2 = c2
    c3 = c3
    t1 = t1
    t2 = t2
    Task = {t1, t2}
    Database = {default, analytics}
    Default = default
    Connection = {c1, c2, c3}
    NoConnection = NoConnection
    PoolOf <- SomePools
    Row = {r1, r2}
    Opener <- SomeOpeners
    Own <- NoUse
    Iterating <- SomeIterating
    MaxDepth = 2
    MaxOrphans = 1
    PoolTimesOut = TRUE
    OwnOn = {default}
    Routes <- SomeRoutes

SPECIFICATION RequestsSpec

INVARIANT NoConnectionLeak
INVARIANT NothingUncommitted
INVARIANT CleanBeforeAnswer
INVARIANT NoSelfWait
PROPERTY CommitTogether
PROPERTY LeaversGiveBack
