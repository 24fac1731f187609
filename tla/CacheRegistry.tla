---------------------------- MODULE CacheRegistry ----------------------------
(***************************************************************************)
(* CacheManager (get_cache, setup, shutdown) over aiocache's registry of   *)
(* aliases.  get_cache and setup do not await, so each is one step;        *)
(* shutdown awaits close() for one wrapper after another, and tasks of the *)
(* same process may use the manager in between.                            *)
(*                                                                         *)
(* aiocache's `caches` object is modelled from the way manager.py uses it: *)
(* add() records a configuration, get() returns the backend of the alias   *)
(* and builds it from the configuration the first time.  It comes with a   *)
(* configuration for "default", which is there before any setup.           *)
(***************************************************************************)
CONSTANTS
    Task,          \* the asyncio tasks that use the manager
    Name,          \* cache names
    Default,       \* DEFAULT_CACHE_NAME
    Config,        \* the configurations setup is called with
    Broken,        \* those of them no backend can be built from
    Factory,       \* the configuration aiocache has for "default"
    NoConfig,
    Backend,       \* backend objects, in the order-free sense: identities
    NoBackend,
    CloseMayFail   \* BaseCache.close may raise

ASSUME NamesAssumption == Default \in Name

ASSUME ConfigsAssumption ==
    /\ Broken \subseteq Config
    /\ Factory \notin Config
    /\ NoConfig \notin Config \cup {Factory}

ASSUME BackendsAssumption ==
    /\ NoBackend \notin Backend
    /\ CloseMayFail \in BOOLEAN

VARIABLES
    wrappers,      \* _wrappers: the backend wrapped for each name
    ttls,          \* the setup whose default_ttl the wrapper uses
    setupConfigs,  \* _setup_configs
    aioConfig,     \* caches._config
    aioCaches,     \* caches._caches
    builtFrom,     \* the configuration each backend was built from
    closed,        \* the backends whose close() returned
    job,           \* what each task's shutdown has left to close
    down,          \* history: names shut down and not set up since
    raced          \* history: a call came during a shutdown, or a close failed

vars == <<wrappers, ttls, setupConfigs, aioConfig, aioCaches, builtFrom,
          closed, job, down, raced>>

\* A shutdown in progress: of all caches or of one, and the (name, backend)
\* pairs it still has to close.
Shutdown == [all : BOOLEAN, todo : (SUBSET (Name \X Backend)) \ {{}}]

Nothing == [all |-> FALSE, todo |-> {}]

Busy == {t \in Task : job[t] # Nothing}

Wrapped == {n \in Name : wrappers[n] # NoBackend}

Init ==
    /\ wrappers = [n \in Name |-> NoBackend]
    /\ ttls = [n \in Name |-> NoConfig]
    /\ setupConfigs = [n \in Name |-> NoConfig]
    /\ aioConfig = [n \in Name |-> IF n = Default THEN Factory ELSE NoConfig]
    /\ aioCaches = [n \in Name |-> NoBackend]
    /\ builtFrom = [b \in Backend |-> NoConfig]
    /\ closed = {}
    /\ job = [t \in Task |-> Nothing]
    /\ down = {}
    /\ raced = FALSE

\* Mutant: a new backend for every wrapper, as caches.create would make.
AioCreate(n, c, b) ==
    /\ c \notin Broken \cup {NoConfig}
    /\ builtFrom[b] = NoConfig
    /\ builtFrom' = [builtFrom EXCEPT ![b] = c]
    /\ aioCaches' = IF aioCaches[n] = NoBackend THEN [aioCaches EXCEPT ![n] = b]
                    ELSE aioCaches

\* caches.get(n), with c the configuration of the alias: b is its backend.
AioGet(n, c, b) ==
    \/ /\ aioCaches[n] = b
       /\ UNCHANGED <<aioCaches, builtFrom>>
    \/ /\ aioCaches[n] = NoBackend
       /\ c \notin Broken \cup {NoConfig}
       /\ builtFrom[b] = NoConfig
       /\ aioCaches' = [aioCaches EXCEPT ![n] = b]
       /\ builtFrom' = [builtFrom EXCEPT ![b] = c]

\* A task that is inside its shutdown can do nothing else.
SomebodyIdle == Busy # Task

\* A call is noted as a race when a shutdown is under way.
Noted == raced' = (raced \/ Busy # {})

\* The first get_cache of a name; later ones return the wrapper as it is, and
\* one that finds nothing to build raises RuntimeError and changes nothing.
GetCache(n) ==
    /\ SomebodyIdle /\ Noted
    /\ n \notin Wrapped
    /\ \E b \in Backend :
           /\ AioGet(n, aioConfig[n], b)
           /\ wrappers' = [wrappers EXCEPT ![n] = b]
    /\ ttls' = [ttls EXCEPT ![n] = setupConfigs[n]]
    /\ UNCHANGED <<setupConfigs, aioConfig, closed, job, down>>

\* setup of a name in use returns or raises without effect.  Of a free name,
\* the configuration is added first: it stays there when no backend can be
\* built from it and caches.get raises.
Setup(n, c) ==
    /\ SomebodyIdle /\ Noted
    /\ n \notin Wrapped
    /\ aioConfig' = [aioConfig EXCEPT ![n] = c]
    /\ \/ \E b \in Backend :
              /\ AioGet(n, c, b)
              /\ wrappers' = [wrappers EXCEPT ![n] = b]
              /\ ttls' = [ttls EXCEPT ![n] = c]
              /\ setupConfigs' = [setupConfigs EXCEPT ![n] = c]
       \/ /\ aioCaches[n] = NoBackend /\ c \in Broken
          /\ UNCHANGED <<wrappers, ttls, setupConfigs, aioCaches, builtFrom>>
    /\ down' = down \ {n}
    /\ UNCHANGED <<closed, job>>

\* Mutant: the alias is forgotten, the backend object stays memoised.
DeregisterConfig(n) ==
    /\ aioConfig' = [aioConfig EXCEPT ![n] = NoConfig]
    /\ UNCHANGED aioCaches

\* Mutant: the backend object is forgotten, the alias stays configured.
DeregisterCache(n) ==
    /\ aioCaches' = [aioCaches EXCEPT ![n] = NoBackend]
    /\ UNCHANGED aioConfig

\* Remove n from aiocache's registry.
Deregister(n) ==
    /\ aioCaches' = [aioCaches EXCEPT ![n] = NoBackend]
    /\ aioConfig' = [aioConfig EXCEPT ![n] = NoConfig]

\* shutdown(name): the wrapper is popped before close() is awaited; without a
\* wrapper there is no await and the rest is popped at once.
ShutdownOne(t, n) ==
    /\ job[t] = Nothing /\ Noted
    /\ wrappers' = [wrappers EXCEPT ![n] = NoBackend]
    /\ ttls' = [ttls EXCEPT ![n] = NoConfig]
    /\ \/ /\ n \in Wrapped
          /\ job' = [job EXCEPT ![t] = [all |-> FALSE, todo |-> {<<n, wrappers[n]>>}]]
          /\ UNCHANGED <<aioCaches, aioConfig, setupConfigs>>
       \/ /\ n \notin Wrapped
          /\ Deregister(n)
          /\ setupConfigs' = [setupConfigs EXCEPT ![n] = NoConfig]
          /\ UNCHANGED job
    /\ down' = down \cup {n}
    /\ UNCHANGED <<builtFrom, closed>>

\* shutdown(): over a snapshot of the wrappers, which stay registered.
ShutdownAll(t) ==
    /\ job[t] = Nothing /\ Noted
    /\ Wrapped # {}
    /\ job' = [job EXCEPT ![t] =
                  [all |-> TRUE, todo |-> {<<n, wrappers[n]>> : n \in Wrapped}]]
    /\ down' = down \cup Wrapped
    /\ UNCHANGED <<wrappers, ttls, setupConfigs, aioConfig, aioCaches, builtFrom, closed>>

\* The shutdown of t closed the pair p and goes on to the next one.
Proceed(t, p) ==
    job' = [job EXCEPT ![t] = IF job[t].todo = {p} THEN Nothing
                              ELSE [job[t] EXCEPT !.todo = @ \ {p}]]

\* The shutdown of t ends in an exception; what it has not closed is not down.
Abandon(t) ==
    /\ job' = [job EXCEPT ![t] = Nothing]
    /\ down' = down \ {p[1] : p \in job[t].todo}

\* The rest of shutdown(name) after close() returned.
OneClosed(t) ==
    /\ job[t] # Nothing /\ ~job[t].all
    /\ \E p \in job[t].todo :
           /\ closed' = closed \cup {p[2]}
           /\ Deregister(p[1])
           /\ setupConfigs' = [setupConfigs EXCEPT ![p[1]] = NoConfig]
           /\ Proceed(t, p)
    /\ UNCHANGED <<wrappers, ttls, builtFrom, down, raced>>

\* Mutant: the registries are cleared after the first close().
NextClosedClears(t) ==
    /\ job[t].all
    /\ \E p \in job[t].todo : closed' = closed \cup {p[2]}
    /\ wrappers' = [n \in Name |-> NoBackend]
    /\ ttls' = [n \in Name |-> NoConfig]
    /\ setupConfigs' = [n \in Name |-> NoConfig]
    /\ aioConfig' = [n \in Name |-> NoConfig]
    /\ aioCaches' = [n \in Name |-> NoBackend]
    /\ job' = [job EXCEPT ![t] = Nothing]
    /\ UNCHANGED <<builtFrom, down, raced>>

\* One turn of the loop of shutdown() after close() returned.  `del` raises
\* KeyError when another task has removed the wrapper meanwhile.
NextClosed(t) ==
    /\ job[t].all
    /\ \E p \in job[t].todo :
           /\ closed' = closed \cup {p[2]}
           /\ Deregister(p[1])
           /\ wrappers' = [wrappers EXCEPT ![p[1]] = NoBackend]
           /\ ttls' = [ttls EXCEPT ![p[1]] = NoConfig]
           /\ IF p[1] \in Wrapped
              THEN /\ setupConfigs' = [setupConfigs EXCEPT ![p[1]] = NoConfig]
                   /\ Proceed(t, p)
                   /\ UNCHANGED down
              ELSE UNCHANGED setupConfigs /\ Abandon(t)
    /\ UNCHANGED <<builtFrom, raced>>

\* close() raises, or the task is cancelled in it: nothing after it runs.
CloseRaises(t) ==
    /\ CloseMayFail
    /\ job[t] # Nothing
    /\ Abandon(t)
    /\ raced' = TRUE
    /\ UNCHANGED <<wrappers, ttls, setupConfigs, aioConfig, aioCaches, builtFrom, closed>>

Next ==
    \/ \E n \in Name : GetCache(n) \/ \E c \in Config : Setup(n, c)
    \/ \E t \in Task : \/ \E n \in Name : ShutdownOne(t, n)
                       \/ ShutdownAll(t)
                       \/ OneClosed(t) \/ NextClosed(t) \/ CloseRaises(t)

Spec == Init /\ [][Next]_vars

-----------------------------------------------------------------------------
(* Properties.                                                             *)

MaybeBackend == Backend \cup {NoBackend}
MaybeConfig == Config \cup {Factory, NoConfig}

\* The types of the state; a ttl is always that of a setup, never that of
\* aiocache's own default configuration (get_cache, setup).
TypeOK ==
    /\ wrappers \in [Name -> MaybeBackend]
    /\ ttls \in [Name -> Config \cup {NoConfig}]
    /\ setupConfigs \in [Name -> Config \cup {NoConfig}]
    /\ aioConfig \in [Name -> MaybeConfig]
    /\ aioCaches \in [Name -> MaybeBackend]
    /\ builtFrom \in [Backend -> MaybeConfig]
    /\ closed \subseteq Backend
    /\ job \in [Task -> Shutdown \cup {Nothing}]
    /\ down \subseteq Name
    /\ raced \in BOOLEAN

\* However shutdowns interleave with get_cache and setup, the manager and
\* aiocache never serve two different backends under one name.
OneBackendPerName ==
    \A n \in Wrapped : aioCaches[n] \in {wrappers[n], NoBackend}

\* A recorded setup is the one whose default_ttl the served wrapper uses, so
\* that "same settings, skipping" tells the truth about the ttl.
TtlFromRecord ==
    \A n \in Wrapped : setupConfigs[n] # NoConfig => ttls[n] = setupConfigs[n]

\* No two names ever share a backend.
BackendsNotShared ==
    \A m, n \in Name :
        m # n => {wrappers[m], aioCaches[m]} \cap {wrappers[n], aioCaches[n]} \subseteq {NoBackend}

\* What the properties above need to be inductive.
IInv ==
    /\ TypeOK
    /\ OneBackendPerName
    /\ TtlFromRecord
    /\ BackendsNotShared
    /\ \A n \in Name : \A b \in {wrappers[n], aioCaches[n]} \ {NoBackend} :
           builtFrom[b] # NoConfig

\* Until a call comes in between the awaits of a shutdown, or a close fails: a
\* recorded setup is served by an open backend built from that very
\* configuration, unless its shutdown is under way.
SetupSticks ==
    ~raced /\ Busy = {} =>
        \A n \in Name : setupConfigs[n] # NoConfig =>
            /\ n \in Wrapped
            /\ wrappers[n] \notin closed
            /\ builtFrom[wrappers[n]] = setupConfigs[n]

\* Until then, every backend that was built is closed, or still to be found
\* for closing.
NoBackendLost ==
    ~raced => \A b \in Backend : builtFrom[b] # NoConfig =>
        \/ b \in closed
        \/ \E n \in Name : b \in {wrappers[n], aioCaches[n]}
        \/ \E t \in Task : b \in {p[2] : p \in job[t].todo}

\* "cache.cache then raises": until then, a name shut down and not set up
\* again cannot be got, once its shutdown is over.
DownMeansDown ==
    ~raced => \A n \in down :
        \/ \E t \in Task : n \in {p[1] : p \in job[t].todo}
        \/ wrappers[n] = NoBackend /\ aioCaches[n] = NoBackend /\ aioConfig[n] = NoConfig
=============================================================================
