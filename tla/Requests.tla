------------------------------ MODULE Requests ------------------------------
(***************************************************************************)
(* Requests to endpoints with database dependencies over the units of work *)
(* of one process: get_session, session_dependency, the sessions services  *)
(* and repositories open below, and when FastAPI enters and leaves what,   *)
(* relative to the answer.                                                 *)
(*                                                                         *)
(* FastAPI resolves the dependencies of a route one after the other, each  *)
(* callable once a request, and leaves them in the opposite order: after   *)
(* the response is sent, or, when the endpoint raises, before the          *)
(* exception handlers answer.                                              *)
(***************************************************************************)
EXTENDS UnitOfWork

CONSTANTS
    Routes,  \* the routes each task may get a request for, each the uses of
             \* its dependencies in their order
    OwnOn    \* the databases services and repositories open sessions on

\* What a route passes to Depends: get_session, what call number `call` of
\* session_dependency(db) returned, or a generator of its own over get_session.
Use == [via : {"get_session", "session_dependency", "wrapper"}, db : Database, call : Nat]

ASSUME RouteAssumption ==
    /\ Routes \in [Task -> SUBSET Seq(Use)]
    /\ \A t \in Task : \A r \in Routes[t] : \A n \in DOMAIN r :
           r[n].via = "get_session" => r[n].db = Default /\ r[n].call = 0
    /\ OwnOn \subseteq Database

VARIABLES
    phase,    \* where each task is
    route     \* the uses of its request

requests == <<phase, route>>
allVars == <<vars, requests>>

GetSession == [via |-> "get_session", db |-> Default, call |-> 0]

\* Mutant: the default database gets a dependency of its own, too.
SessionDependencyFresh(name, call) == [via |-> "get_named_session", db |-> name, call |-> call]

\* Mutant: the named dependency goes over get_session(name).
SessionDependencyIterating(name, call) ==
    IF name = Default THEN GetSession ELSE [via |-> "wrapper", db |-> name, call |-> call]

\* A fresh closure for every call, but get_session itself for the default.
SessionDependency(name, call) ==
    IF name = Default THEN GetSession
    ELSE [via |-> "get_named_session", db |-> name, call |-> call]

Callable(u) ==
    IF u.via = "session_dependency" THEN SessionDependency(u.db, u.call) ELSE u

ASSUME CallableAssumption ==
    /\ \A t \in Task : \A r \in Routes[t] : \A n \in DOMAIN r :
           Callable(r[n]) \in Opener \ {Own}
    /\ \A c \in Iterating : c.via = "wrapper"

RequestsInit ==
    /\ Init
    /\ phase = [t \in Task |-> "idle"]
    /\ route = [t \in Task |-> <<>>]

Moves(t, p) == phase' = [phase EXCEPT ![t] = p]

-----------------------------------------------------------------------------
(* The endpoint and what it needs.                                         *)

Receive(t) ==
    /\ phase[t] = "idle"
    /\ \E r \in Routes[t] : route' = [route EXCEPT ![t] = r]
    /\ Moves(t, "handling")
    /\ UNCHANGED vars

\* The uses of t's route that have no session yet.
Unresolved(t) ==
    {n \in DOMAIN route[t] :
        \A m \in DOMAIN sessions[t] : sessions[t][m].by # Callable(route[t][n])}

Resolve(t) ==
    /\ phase[t] = "handling"
    /\ \E n \in Unresolved(t) :
           /\ \A m \in Unresolved(t) : n <= m
           /\ Enter(t, route[t][n].db, Callable(route[t][n]))
    /\ UNCHANGED requests

\* The endpoint runs.
Code(t) == phase[t] = "handling" /\ Unresolved(t) = {}

\* db.session(name), BaseSQLRepository.session(): below the endpoint;
\* paginate_query and verify use one.
OwnSession(t) ==
    /\ Code(t)
    /\ \E d \in OwnOn : Enter(t, d, Own)
    /\ UNCHANGED requests

InOwn(t) == Depth(t) > 0 /\ Top(t).by = Own

OwnDone(t) ==
    /\ Code(t) /\ state[t] = "running" /\ InOwn(t)
    /\ Close(t)
    /\ UNCHANGED requests

Body(t) ==
    /\ Code(t)
    /\ Works(t)
    /\ UNCHANGED requests

Waking(t) == Loop(t) /\ UNCHANGED requests

\* An exception of the code, of another dependency, or of the client that goes
\* away while the response is sent.
Fails(t) ==
    /\ phase[t] \in {"handling", "sending"}
    /\ Raise(t)
    /\ UNCHANGED requests

-----------------------------------------------------------------------------
(* FastAPI's part: the ways out.                                           *)

Return(t) ==
    /\ phase[t] = "handling" /\ Code(t) /\ state[t] = "running" /\ ~InOwn(t)
    /\ Moves(t, "sending")
    /\ UNCHANGED <<vars, route>>

\* The dependencies are left when the response is sent.
LeaveDependency(t) ==
    /\ phase[t] \in {"sending", "leaving"} /\ state[t] = "running"
    /\ Close(t)
    /\ Moves(t, "leaving")
    /\ UNCHANGED route

Unwinding(t) == state[t] \in {"raising", "closing", "cancelled"}

\* The exception goes through an own session, which the code around may catch.
UnwindOwn(t) ==
    /\ Unwinding(t) /\ InOwn(t)
    /\ Unwinds(t) \/ Close(t)
    /\ UNCHANGED requests

\* It goes through a dependency, which raises it again.  A response that was
\* begun, or a cancelled task, gets no other answer.
UnwindDependency(t) ==
    /\ Unwinding(t) /\ ~InOwn(t)
    /\ Unwinds(t) \/ Close(t)
    /\ Moves(t, IF phase[t] \in {"sending", "aborted"} \/ state[t] = "cancelled"
                THEN "aborted" ELSE "failing")
    /\ UNCHANGED route

\* What is left is nothing, or the answer of the exception handlers.
Done(t) ==
    /\ phase[t] \in {"sending", "leaving", "aborted", "failing"} /\ Depth(t) = 0
    /\ state[t] = "running"
    /\ Moves(t, "idle")
    /\ route' = [route EXCEPT ![t] = <<>>]
    /\ UNCHANGED vars

RequestsNext ==
    \E t \in Task :
        \/ Receive(t) \/ Resolve(t) \/ OwnSession(t) \/ OwnDone(t)
        \/ Body(t) \/ Waking(t) \/ Fails(t)
        \/ Return(t) \/ LeaveDependency(t)
        \/ UnwindOwn(t) \/ UnwindDependency(t) \/ Done(t)

RequestsSpec == RequestsInit /\ [][RequestsNext]_allVars /\ Fairness

-----------------------------------------------------------------------------
(* Properties.                                                             *)

Uses(t) == {route[t][n] : n \in DOMAIN route[t]}

\* A request whose sessions are as the documents ask: of dependencies that
\* FastAPI enters itself, and of one stored callable for each database.
Documented(t) ==
    /\ \A u \in Uses(t) : u.via # "wrapper"
    /\ \A u, v \in Uses(t) : u.db = v.db /\ u.db # Default => u.call = v.call

\* What t's dependencies on database d hold uncommitted.
HeldTogether(t, d) ==
    UNION {sessions[t][n].work :
        n \in {m \in DOMAIN sessions[t] : sessions[t][m].db = d /\ sessions[t][m].by # Own}}

\* "Passing DEFAULT_DB_NAME returns get_session itself so default-database
\* dependency caching ... remain unified", and stored callables are shared: what
\* the parts of a request write to one database through their dependencies
\* becomes visible together.
CommitTogether ==
    [][visible' # visible => \A t \in Task, d \in Database :
           Documented(t) /\ HeldTogether(t, d) \cap (visible' \ visible) # {}
               => HeldTogether(t, d) \subseteq visible']_allVars

\* "direct exception propagation and cleanup": when the error of an endpoint is
\* answered, nothing of the request is left open, unless a wrapper dropped it
\* (session_dependency's closure enters manage_session itself).
CleanBeforeAnswer ==
    \A t \in Task :
        phase[t] = "failing" /\ Depth(t) = 0 /\ Documented(t) =>
            \A n \in DOMAIN orphans[t] :
                orphans[t][n].by \notin {Callable(u) : u \in Uses(t)}

Holds(t, d) ==
    \E n \in DOMAIN sessions[t] :
        sessions[t][n].conn # NoConnection /\ PoolOf[sessions[t][n].conn] = d

WaitsIn(t, d) == \E i \in DOMAIN queue[d] : queue[d][i][1] = t

\* The dependencies of a request never make it wait for itself: who waits for
\* a connection of a pool it has one of opened a session of its own below them
\* (session_dependency, DEFAULT_DB_NAME shared).
NoSelfWait ==
    \A t \in Task, d \in Database :
        Documented(t) /\ Holds(t, d) /\ WaitsIn(t, d)
            => \E n \in DOMAIN sessions[t] : sessions[t][n].by = Own
=============================================================================
