----------------------------- MODULE MCRequests -----------------------------
(* Two databases, and the routes an application may declare on them. *)
EXTENDS Requests, TLC

CONSTANTS default, analytics, c1, c2, c3, t1, t2

SomePools == c1 :> default @@ c2 :> default @@ c3 :> analytics

Shared == GetSession
DefaultBound == [via |-> "session_dependency", db |-> default, call |-> 1]
Stored == [via |-> "session_dependency", db |-> analytics, call |-> 1]
Wrapper == [via |-> "wrapper", db |-> analytics, call |-> 0]

SomeRoutes ==
    t1 :> {<<>>, <<Shared, DefaultBound, Shared>>, <<Shared, Stored, Stored>>}
        @@ t2 :> {<<Shared, DefaultBound>>, <<Wrapper>>}

NoUse == [via |-> "own", db |-> default, call |-> 0]

Callables == {Callable(u) : u \in {Shared, DefaultBound, Stored, Wrapper}}
SomeOpeners == {NoUse} \cup Callables
SomeIterating == {c \in Callables : c.via = "wrapper"}
=============================================================================
