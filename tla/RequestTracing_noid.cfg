CONSTANTS
    main = main
    sub = sub
    Task = {t1}
    Id = {i1, i2, i3}
    NoId = NoId
    App = {main, sub}
    NoApp = NoApp
    Stack <- OneApp
    Registered = {main, sub}
    Status <- SomeStatus

SPECIFICATION Spec

INVARIANT EveryAnswerHasId
