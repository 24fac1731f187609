-------------------------- MODULE MCRequestTracing --------------------------
EXTENDS RequestTracing, TLC

CONSTANTS main, sub

On(app, kinds) == [n \in DOMAIN kinds |-> [kind |-> kinds[n], app |-> app]]

\* Starlette's layers around the registered ones, and within them.
Registers(named) == <<"error">> \o RegisterMiddleware(named) \o <<"handlers">>

\* A standalone app with a service name.
Standalone == On(main, Registers(TRUE))

\* A sub-application mounted under a parent without middleware.
Mounted == On(main, <<"error", "handlers">>)
           \o On(sub, Registers(TRUE))

\* Middleware registered on both, which the documentation advises against.
Twice == On(main, Registers(FALSE)) \o On(sub, Registers(TRUE))

OneApp == {Standalone}

AllStacks == {Standalone, Mounted, Twice}

SomeStatus == {200, 404}

Symmetry == Permutations(Task) \cup Permutations(Id)
=============================================================================
