--------------------------- MODULE DatabaseManager ---------------------------
(***************************************************************************)
(* DatabaseManager (setup, shutdown, get_factory) and init_db_resource:    *)
(* three dictionaries that must stay in step while shutdown awaits the     *)
(* disposal of one engine after another.  setup does not await and is one  *)
(* step.  shutdown(name) pops its entries before it awaits; shutdown()     *)
(* awaits inside a loop over the live dictionary, so what other tasks do   *)
(* to the dictionary meanwhile meets Python's rules for iteration.         *)
(*                                                                         *)
(* CPython keeps the entries of a dictionary in slots, in the order they   *)
(* were inserted.  A removed entry leaves its slot empty; an insertion     *)
(* that finds no slot left rebuilds the table without the empty slots.  An *)
(* iterator knows the slot it has reached, and is not told when entries    *)
(* move.  When a table is full depends on its size: here any insertion may *)
(* rebuild it, and one with Slots slots used must.                         *)
(*                                                                         *)
(* An engine is SQLAlchemy's: disposing it closes its pooled connections   *)
(* and leaves it usable, with a new pool, by those who still reach it.     *)
(***************************************************************************)
EXTENDS Integers, FiniteSets

CONSTANTS
    Task,            \* asyncio tasks: application lifespans and the like
    Name,            \* database names
    Config,          \* the settings setup is called with
    Engine,          \* identities of engine objects
    NoEngine,
    NoConfig,
    NoName,
    Slots            \* slots a table may have used before it is rebuilt

ASSUME NoValuesAssumption ==
    NoEngine \notin Engine /\ NoConfig \notin Config /\ NoName \notin Name

ASSUME NamesAssumption == IsFiniteSet(Name) /\ Slots \in Nat

VARIABLES
    engines,       \* _engines
    place,         \* the slot of each name in the table of _engines, or 0
    slots,         \* the slots used, the empty ones among them
    factories,     \* _session_factories: the engine a factory is bound to
    setupConfigs,  \* _setup_configs
    builtFrom,     \* history: the settings each registered engine was created with
    pooled,        \* the engines that hold pooled connections
    excused,       \* history: used by a session after a shutdown had passed them,
                   \* or their disposal failed
    moved,         \* history: moved past the slot a running shutdown() had reached
    job,           \* the shutdown each task is in
    holds,         \* the name of the init_db_resource each task has open
    crossed,       \* history: the tasks whose resource others may shut down
    sessions       \* the engines that open sessions are bound to

table == <<place, slots>>
dicts == <<engines, factories, setupConfigs, builtFrom, table>>
pools == <<pooled, excused, moved>>
vars == <<dicts, pools, job, holds, crossed, sessions>>

\* A shutdown at its await: at is the engine being disposed.  The iterator's own
\* state is the slot it has reached, the size the dictionary had when the loop
\* began, and how many entries of these are left.
Nothing == [kind |-> "none", at |-> NoEngine, pos |-> 0, used |-> 0, left |-> 0]

One(e) == [kind |-> "one", at |-> e, pos |-> 0, used |-> 0, left |-> 0]

Registered == {n \in Name : engines[n] # NoEngine}

Size == Cardinality(Registered)

Init ==
    /\ engines = [n \in Name |-> NoEngine]
    /\ place = [n \in Name |-> 0]
    /\ slots = 0
    /\ factories = [n \in Name |-> NoEngine]
    /\ setupConfigs = [n \in Name |-> NoConfig]
    /\ builtFrom = [e \in Engine |-> NoConfig]
    /\ pooled = {}
    /\ excused = {}
    /\ moved = {}
    /\ job = [t \in Task |-> Nothing]
    /\ holds = [t \in Task |-> NoName]
    /\ crossed = {}
    /\ sessions = {}

Idle(t) == job[t].kind = "none"

\* The engines somebody can still dispose of.
Reachable(e) ==
    \/ \E n \in Name : engines[n] = e
    \/ \E t \in Task : job[t].at = e

\* An identity serves again once its engine is garbage.
Fresh == {e \in Engine \ (pooled \cup sessions) : ~Reachable(e)}

\* A rebuilt table has its entries in the order they had, without gaps.
Rank(n) == 1 + Cardinality({m \in Registered : place[m] < place[n]})

\* The free name n is inserted in the next slot, or the first after a rebuild.
Insert(n) ==
    \/ /\ slots < Slots
       /\ place' = [place EXCEPT ![n] = slots + 1]
       /\ slots' = slots + 1
    \/ /\ place' = [m \in Name |-> IF m = n THEN Size + 1
                                   ELSE IF m \in Registered THEN Rank(m) ELSE 0]
       /\ slots' = Size + 1

\* Entries the insertion moved from before an iterator to behind it.
Overtaken == {m \in Registered : \E t \in Task : place[m] > job[t].pos /\ place'[m] <= job[t].pos}

\* setup of a free name: an engine, a factory bound to it, the settings.
Create(n, c) ==
    \E e \in Fresh :
        /\ builtFrom' = [builtFrom EXCEPT ![e] = c]
        /\ engines' = [engines EXCEPT ![n] = e]
        /\ factories' = [factories EXCEPT ![n] = e]
        /\ setupConfigs' = [setupConfigs EXCEPT ![n] = c]
        /\ Insert(n)
        /\ moved' = moved \cup (pooled \cap {engines[m] : m \in Overtaken})

\* A name in use is skipped with the same settings, refused with others.
Setup(n, c) ==
    \/ n \notin Registered /\ Create(n, c)
    \/ /\ n \in Registered /\ setupConfigs[n] = c
       /\ UNCHANGED <<dicts, moved>>

SetupAlone(t, n, c) ==
    /\ Idle(t)
    /\ Setup(n, c)
    /\ UNCHANGED <<pooled, excused, job, holds, crossed, sessions>>

Holders(n) == {u \in Task : holds[u] = n}

\* init_db_resource up to its yield; a setup that raises opens nothing.
OpenResource(t, n, c) ==
    /\ Idle(t) /\ holds[t] = NoName
    /\ Setup(n, c)
    /\ holds' = [holds EXCEPT ![t] = n]
    /\ crossed' = IF Holders(n) # {} THEN crossed \cup Holders(n) \cup {t}
                  ELSE IF \E u \in Task : job[u].kind = "all" THEN crossed \cup {t}
                  ELSE crossed
    /\ UNCHANGED <<pooled, excused, job, sessions>>

Remove(n) ==
    /\ engines' = [engines EXCEPT ![n] = NoEngine]
    /\ builtFrom' = [e \in Engine |-> IF e = engines[n] THEN NoConfig ELSE builtFrom[e]]
    /\ place' = [place EXCEPT ![n] = 0]
    /\ UNCHANGED slots

\* Mutant: the settings of a name survive its shutdown.
PopButSettings(t, n) ==
    /\ Remove(n)
    /\ factories' = [factories EXCEPT ![n] = NoEngine]
    /\ job' = IF n \in Registered THEN [job EXCEPT ![t] = One(engines[n])] ELSE job
    /\ UNCHANGED <<setupConfigs, pools, sessions>>

\* shutdown(name) up to its await.
PopAndDispose(t, n) ==
    /\ Remove(n)
    /\ factories' = [factories EXCEPT ![n] = NoEngine]
    /\ setupConfigs' = [setupConfigs EXCEPT ![n] = NoConfig]
    /\ job' = IF n \in Registered THEN [job EXCEPT ![t] = One(engines[n])] ELSE job
    /\ UNCHANGED <<pools, sessions>>

ShutdownOne(t, n) ==
    /\ Idle(t)
    /\ PopAndDispose(t, n)
    /\ crossed' = crossed \cup Holders(n)
    /\ UNCHANGED holds

Cleared ==
    /\ engines' = [n \in Name |-> NoEngine]
    /\ builtFrom' = [e \in Engine |-> NoConfig]
    /\ place' = [n \in Name |-> 0]
    /\ slots' = 0
    /\ factories' = [n \in Name |-> NoEngine]
    /\ setupConfigs' = [n \in Name |-> NoConfig]

\* What an iterator that has reached slot pos still finds, and what it finds next.
Ahead(pos) == {n \in Registered : place[n] > pos}
First(names) == {n \in names : \A m \in names : place[n] <= place[m]}

GoTo(t, n, used, left) ==
    job' = [job EXCEPT ![t] = [kind |-> "all", at |-> engines[n], pos |-> place[n],
                               used |-> used, left |-> left]]

\* Mutant: the loop runs over a copy of the engines there were when it began.
AdvanceCopied(t, pos, used, left) ==
    \/ /\ left # 0
       /\ \E n \in First(Ahead(pos)) : GoTo(t, n, used, left - 1)
       /\ UNCHANGED dicts
    \/ /\ left = 0 \/ Ahead(pos) = {}
       /\ job' = [job EXCEPT ![t] = Nothing]
       /\ Cleared

\* The loop of shutdown() asks its iterator for the next engine.  A changed
\* size raises RuntimeError, and so does an engine found after as many as the
\* dictionary had at first; at the end everything is cleared at once.
Advance(t, pos, used, left) ==
    \/ /\ Size # used \/ (Ahead(pos) # {} /\ left = 0)
       /\ job' = [job EXCEPT ![t] = Nothing]
       /\ UNCHANGED dicts
    \/ /\ Size = used /\ left # 0
       /\ \E n \in First(Ahead(pos)) : GoTo(t, n, used, left - 1)
       /\ UNCHANGED dicts
    \/ /\ Size = used /\ Ahead(pos) = {}
       /\ job' = [job EXCEPT ![t] = Nothing]
       /\ Cleared

ShutdownAll(t) ==
    /\ Idle(t)
    /\ Advance(t, 0, Size, Size)
    /\ crossed' = crossed \cup (Task \ Holders(NoName))
    /\ UNCHANGED <<pools, holds, sessions>>

\* Mutant: the resource shuts every database down.
CloseResourceAll(t) ==
    /\ Idle(t) /\ holds[t] # NoName
    /\ Advance(t, 0, Size, Size)
    /\ holds' = [holds EXCEPT ![t] = NoName]
    /\ crossed' = crossed \ {t}
    /\ UNCHANGED <<pools, sessions>>

\* The finally clause of init_db_resource.
CloseResource(t) ==
    /\ Idle(t) /\ holds[t] # NoName
    /\ PopAndDispose(t, holds[t])
    /\ holds' = [holds EXCEPT ![t] = NoName]
    /\ crossed' = crossed \ {t}

DisposeReturns(t) ==
    /\ ~Idle(t)
    /\ pooled' = pooled \ {job[t].at}
    /\ excused' = excused \ {job[t].at}
    /\ moved' = moved \ {job[t].at}
    /\ \/ /\ job[t].kind = "one"
          /\ job' = [job EXCEPT ![t] = Nothing]
          /\ UNCHANGED dicts
       \/ /\ job[t].kind = "all"
          /\ Advance(t, job[t].pos, job[t].used, job[t].left)
    /\ UNCHANGED <<holds, crossed, sessions>>

\* dispose() raises, or the task is cancelled in it.
DisposeRaises(t) ==
    /\ ~Idle(t)
    /\ job' = [job EXCEPT ![t] = Nothing]
    /\ excused' = excused \cup (pooled \cap {job[t].at})
    /\ UNCHANGED <<dicts, pooled, moved, holds, crossed, sessions>>

\* db.session(n) binds to the engine of n and has no connection yet.
OpenSession(n) ==
    /\ factories[n] # NoEngine
    /\ sessions' = sessions \cup {factories[n]}
    /\ UNCHANGED <<dicts, pools, job, holds, crossed>>

\* Work of a session borrows a connection of its engine and gives it back to
\* the pool, whatever has become of the engine since the session was opened.
SessionWorks(e) ==
    /\ e \in sessions
    /\ pooled' = pooled \cup {e}
    /\ excused' = IF \E n \in Name : engines[n] = e /\ \A t \in Task : place[n] > job[t].pos
                 THEN excused ELSE excused \cup {e}
    /\ UNCHANGED <<dicts, moved, job, holds, crossed, sessions>>

\* The last session of an engine ends.
CloseSessions(e) ==
    /\ e \in sessions
    /\ sessions' = sessions \ {e}
    /\ UNCHANGED <<dicts, pools, job, holds, crossed>>

\* Python collects an engine nobody refers to any more, and its pool with it.
Collect(e) ==
    /\ e \in pooled \ sessions
    /\ ~Reachable(e)
    /\ pooled' = pooled \ {e}
    /\ excused' = excused \ {e}
    /\ moved' = moved \ {e}
    /\ UNCHANGED <<dicts, job, holds, crossed, sessions>>

Next ==
    \/ \E t \in Task :
        \/ \E n \in Name, c \in Config : SetupAlone(t, n, c) \/ OpenResource(t, n, c)
        \/ \E n \in Name : ShutdownOne(t, n)
        \/ ShutdownAll(t) \/ CloseResource(t) \/ DisposeReturns(t) \/ DisposeRaises(t)
    \/ \E n \in Name : OpenSession(n)
    \/ \E e \in Engine : SessionWorks(e) \/ CloseSessions(e) \/ Collect(e)

Spec == Init /\ [][Next]_vars

-----------------------------------------------------------------------------
(* Properties.                                                             *)

\* The types of the state; the loop of shutdown() never counts below the
\* entries its iterator has left (setup, shutdown).
TypeOK ==
    /\ engines \in [Name -> Engine \cup {NoEngine}]
    /\ place \in [Name -> Nat] /\ slots \in Nat
    /\ factories \in [Name -> Engine \cup {NoEngine}]
    /\ setupConfigs \in [Name -> Config \cup {NoConfig}]
    /\ builtFrom \in [Engine -> Config \cup {NoConfig}]
    /\ pooled \subseteq Engine
    /\ excused \subseteq Engine /\ moved \subseteq Engine
    /\ sessions \subseteq Engine
    /\ job \in [Task -> [kind : {"none", "one", "all"}, at : Engine \cup {NoEngine},
                         pos : Nat, used : Nat, left : Nat]]
    /\ holds \in [Task -> Name \cup {NoName}]
    /\ crossed \subseteq {t \in Task : holds[t] # NoName}

\* The three dictionaries have the same names at every await, the factory of
\* a name is bound to the engine of that name, and the recorded settings are
\* those the engine was created with.
DictsInStep ==
    \A n \in Name :
        /\ factories[n] = engines[n]
        /\ setupConfigs[n] = IF n \in Registered THEN builtFrom[engines[n]] ELSE NoConfig

\* A shutdown never drops an engine that holds connections, whatever other
\* tasks register or remove meanwhile, unless its own disposal failed, a session
\* worked on it after the shutdown had passed its slot, or a setup rebuilt the
\* dictionary and moved it past the slot the shutdown had reached.
NoPoolLost == \A e \in pooled : Reachable(e) \/ e \in excused \cup moved

\* "Cleanup is scoped to the provided database name": while a resource is
\* open its database is registered, unless another resource has the same name
\* or somebody calls shutdown with that name or none.
ResourceKeepsDatabase ==
    \A t \in Task \ crossed : holds[t] \in Registered \cup {NoName}
=============================================================================
