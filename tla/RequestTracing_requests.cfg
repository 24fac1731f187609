CONSTANTS
    main = main
    sub = sub
    Task = {t1, t2}
    Id = {i1, i2, i3, i4}
    NoId = NoId
    App = {main, sub}
    NoApp = NoApp
    Stack <- AllStacks
    Registered = {main, sub}
    Status = {200}

SYMMETRY Symmetry

SPECIFICATION Spec
INVARIANT ContextFollowsScopes
INVARIANT AccessLogTellsTruth
INVARIANT UpstreamIsNot5xx
INVARIANT OneIdPerRequest
