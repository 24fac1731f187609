----------------------- MODULE RegistryAndKeys_proofs -----------------------
(***************************************************************************)
(* Proofs about caches: of CacheRegistry, that a name is served by the     *)
(* backend it was set up with, and below of CacheKeys, that calls are only *)
(* answered with what equal calls computed.                                *)
(***************************************************************************)
EXTENDS CacheRegistry, CacheKeys, FiniteSetTheorems, SequenceTheorems, TLAPS

-----------------------------------------------------------------------------
(* CacheRegistry.                                                          *)


\* caches.get leaves the alias with the backend it returns, and touches no
\* other alias; a backend it builds was in nobody's hands.
LEMMA AioGetEffect ==
    ASSUME IInv, NEW n \in Name, NEW c \in MaybeConfig, NEW b \in Backend,
           AioGet(n, c, b)
    PROVE  /\ aioCaches' = [aioCaches EXCEPT ![n] = b]
           /\ builtFrom' \in [Backend -> MaybeConfig]
           /\ builtFrom'[b] # NoConfig
           /\ \A a \in Backend : builtFrom[a] # NoConfig => builtFrom'[a] # NoConfig
           /\ \A m \in Name \ {n} : wrappers[m] # b /\ aioCaches[m] # b
  <1> USE BackendsAssumption, ConfigsAssumption DEF IInv, TypeOK, MaybeBackend
  <1>1. CASE aioCaches[n] = b /\ UNCHANGED <<aioCaches, builtFrom>>
    BY <1>1 DEF BackendsNotShared
  <1>2. CASE builtFrom[b] = NoConfig /\ c # NoConfig
             /\ aioCaches' = [aioCaches EXCEPT ![n] = b]
             /\ builtFrom' = [builtFrom EXCEPT ![b] = c]
    BY <1>2
  <1> QED
    BY <1>1, <1>2 DEF AioGet

\* The wrapper of n is made for the backend b of the alias: the common part
\* of get_cache and setup.
LEMMA ServeStep ==
    ASSUME IInv, NEW n \in Name, NEW c \in MaybeConfig, NEW b \in Backend,
           AioGet(n, c, b), n \notin Wrapped,
           wrappers' = [wrappers EXCEPT ![n] = b],
           NEW r \in Config \cup {NoConfig},
           ttls' = [ttls EXCEPT ![n] = r],
           setupConfigs' = [setupConfigs EXCEPT ![n] = r],
           aioConfig' \in [Name -> MaybeConfig],
           down' \subseteq Name, raced' \in BOOLEAN, UNCHANGED <<closed, job>>
    PROVE  IInv'
  <1>a. TypeOK /\ OneBackendPerName /\ TtlFromRecord /\ BackendsNotShared
        /\ NoBackend \notin Backend
    BY BackendsAssumption DEF IInv
  <1>b. \A m \in Name : \A a \in {wrappers[m], aioCaches[m]} \ {NoBackend} :
            builtFrom[a] # NoConfig
    BY DEF IInv
  <1>0. /\ aioCaches' = [aioCaches EXCEPT ![n] = b]
        /\ builtFrom' \in [Backend -> MaybeConfig]
        /\ builtFrom'[b] # NoConfig
        /\ \A a \in Backend : builtFrom[a] # NoConfig => builtFrom'[a] # NoConfig
        /\ \A m \in Name \ {n} : wrappers[m] # b /\ aioCaches[m] # b
    BY AioGetEffect
  <1>1. TypeOK'
    BY <1>0, <1>a DEF TypeOK, MaybeBackend
  <1>2. /\ wrappers'[n] = b /\ aioCaches'[n] = b
        /\ ttls'[n] = r /\ setupConfigs'[n] = r
        /\ \A m \in Name \ {n} :
              /\ wrappers'[m] = wrappers[m] /\ aioCaches'[m] = aioCaches[m]
              /\ ttls'[m] = ttls[m] /\ setupConfigs'[m] = setupConfigs[m]
    BY <1>0, <1>a DEF TypeOK
  <1>3. OneBackendPerName' /\ TtlFromRecord'
    BY <1>2, <1>a DEF OneBackendPerName, TtlFromRecord, Wrapped
  <1>4. BackendsNotShared'
    BY <1>0, <1>2, <1>a DEF BackendsNotShared
  <1>5. \A m \in Name : \A a \in {wrappers'[m], aioCaches'[m]} \ {NoBackend} :
            builtFrom'[a] # NoConfig
    BY <1>0, <1>2, <1>a, <1>b DEF TypeOK, MaybeBackend
  <1> QED
    BY <1>1, <1>3, <1>4, <1>5 DEF IInv

\* Taking backends and records away, as every step of a shutdown does, keeps
\* the invariant.
LEMMA TakeAwayStep ==
    ASSUME IInv, TypeOK', builtFrom' = builtFrom,
           \A n \in Name :
              /\ wrappers'[n] \in {wrappers[n], NoBackend}
              /\ aioCaches'[n] \in {aioCaches[n], NoBackend}
              /\ setupConfigs'[n] \in {setupConfigs[n], NoConfig}
              /\ wrappers'[n] # NoBackend => ttls'[n] = ttls[n]
    PROVE  IInv'
  <1>1. OneBackendPerName' /\ TtlFromRecord'
    BY DEF IInv, OneBackendPerName, TtlFromRecord, Wrapped
  <1>2. BackendsNotShared'
    BY DEF IInv, BackendsNotShared
  <1>3. \A n \in Name : \A b \in {wrappers'[n], aioCaches'[n]} \ {NoBackend} :
            builtFrom'[b] # NoConfig
    BY DEF IInv
  <1> QED
    BY <1>1, <1>2, <1>3 DEF IInv

LEMMA ShutdownStep ==
    ASSUME IInv, NEW t \in Task,
           \/ \E n \in Name : ShutdownOne(t, n)
           \/ ShutdownAll(t) \/ OneClosed(t) \/ NextClosed(t) \/ CloseRaises(t)
    PROVE  IInv'
  <1> USE DEF Deregister, MaybeBackend, MaybeConfig
  <1>a. TypeOK
    BY DEF IInv
  <1>b. Noted => raced' \in BOOLEAN
    BY DEF Noted
  <1>1. ASSUME NEW n \in Name, ShutdownOne(t, n) PROVE IInv'
    <2>1. n \in Wrapped => {<<n, wrappers[n]>>} \in (SUBSET (Name \X Backend)) \ {{}}
      BY <1>a DEF TypeOK, Wrapped
    <2>2. job' \in [Task -> Shutdown \cup {Nothing}]
      <3>1. CASE n \in Wrapped
        <4>1. [all |-> FALSE, todo |-> {<<n, wrappers[n]>>}] \in Shutdown
          BY <2>1, <3>1 DEF Shutdown
        <4>2. job' = [job EXCEPT ![t] = [all |-> FALSE, todo |-> {<<n, wrappers[n]>>}]]
          BY <1>1, <3>1 DEF ShutdownOne
        <4> QED
          BY <1>a, <4>1, <4>2 DEF TypeOK
      <3> QED
        BY <1>1, <1>a, <3>1 DEF ShutdownOne, TypeOK
    <2>3. TypeOK'
      BY <1>1, <1>a, <1>b, <2>2 DEF ShutdownOne, TypeOK
    <2> QED
      BY <1>1, <1>a, <2>3, TakeAwayStep DEF ShutdownOne, TypeOK
  <1>2. CASE ShutdownAll(t)
    <2>1. {<<n, wrappers[n]>> : n \in Wrapped} \in (SUBSET (Name \X Backend)) \ {{}}
      <3>1. PICK n \in Name : n \in Wrapped
        BY <1>2 DEF ShutdownAll, Wrapped
      <3>2. \A m \in Wrapped : <<m, wrappers[m]>> \in Name \X Backend
        BY <1>a DEF TypeOK, Wrapped
      <3>3. <<n, wrappers[n]>> \in {<<m, wrappers[m]>> : m \in Wrapped}
        BY <3>1
      <3>4. {<<m, wrappers[m]>> : m \in Wrapped} # {}
        BY <3>3
      <3> QED
        BY <3>2, <3>4
    <2>2. TypeOK'
      BY <1>2, <1>a, <1>b, <2>1 DEF ShutdownAll, TypeOK, Shutdown, Wrapped
    <2> QED
      BY <1>2, <1>a, <2>2, TakeAwayStep DEF ShutdownAll, TypeOK
  <1>3. ASSUME job[t] # Nothing
        PROVE  /\ job[t] \in Shutdown
               /\ \A p \in job[t].todo : p[1] \in Name /\ p[2] \in Backend
               /\ \A p \in job[t].todo :
                     Proceed(t, p) => job' \in [Task -> Shutdown \cup {Nothing}]
    BY <1>3, <1>a DEF TypeOK, Shutdown, Proceed
  <1>4. CASE OneClosed(t)
    <2>1. TypeOK'
      BY <1>3, <1>4, <1>a DEF OneClosed, TypeOK
    <2> QED
      BY <1>3, <1>4, <1>a, <2>1, TakeAwayStep DEF OneClosed, TypeOK
  <1>5. CASE NextClosed(t)
    <2>0. job[t] # Nothing
      BY <1>5 DEF NextClosed, Nothing
    <2>1. Abandon(t) => /\ job' \in [Task -> Shutdown \cup {Nothing}]
                        /\ down' \subseteq Name
      BY <1>a DEF Abandon, TypeOK
    <2>2. TypeOK'
      BY <1>3, <1>5, <1>a, <2>0, <2>1 DEF NextClosed, TypeOK
    <2> QED
      BY <1>3, <1>5, <1>a, <2>0, <2>2, TakeAwayStep DEF NextClosed, TypeOK
  <1>6. CASE CloseRaises(t)
    <2>1. TypeOK'
      BY <1>6, <1>a DEF CloseRaises, Abandon, TypeOK
    <2> QED
      BY <1>6, <1>a, <2>1, TakeAwayStep DEF CloseRaises, TypeOK
  <1> QED
    BY <1>1, <1>2, <1>4, <1>5, <1>6

LEMMA Inductive == Spec => []IInv
  <1>1. Init => IInv
    <2> SUFFICES ASSUME Init
                 PROVE  IInv
      OBVIOUS
    <2>1. raced \in BOOLEAN
      BY DEF Init
    <2> QED
      BY <2>1, NamesAssumption, ConfigsAssumption, BackendsAssumption
         DEF Init, IInv, TypeOK, MaybeBackend, MaybeConfig, Wrapped, Nothing, Shutdown,
             OneBackendPerName, TtlFromRecord, BackendsNotShared
  <1>2. IInv /\ [Next]_vars => IInv'
    <2> SUFFICES ASSUME IInv, [Next]_vars
                 PROVE  IInv'
      OBVIOUS
    <2>a. TypeOK
      BY DEF IInv
    <2>b. Noted => raced' \in BOOLEAN
      BY DEF Noted
    <2>1. ASSUME NEW n \in Name, GetCache(n) PROVE IInv'
      <3>1. PICK b \in Backend : /\ AioGet(n, aioConfig[n], b)
                                /\ wrappers' = [wrappers EXCEPT ![n] = b]
        BY <2>1 DEF GetCache
      <3>2. setupConfigs' = [setupConfigs EXCEPT ![n] = setupConfigs[n]]
        BY <2>1, <2>a DEF GetCache, TypeOK
      <3> QED
        BY <2>1, <2>a, <2>b, <3>1, <3>2, ServeStep DEF GetCache, TypeOK
    <2>2. ASSUME NEW n \in Name, NEW c \in Config, Setup(n, c) PROVE IInv'
      <3>1. aioConfig' \in [Name -> MaybeConfig] /\ down' \subseteq Name
        BY <2>2, <2>a DEF Setup, TypeOK, MaybeConfig
      <3>2. CASE UNCHANGED <<wrappers, ttls, setupConfigs, aioCaches, builtFrom>>
        <4>1. TypeOK'
          BY <2>2, <2>a, <2>b, <3>1, <3>2 DEF Setup, TypeOK
        <4> QED
          BY <3>2, <4>1, TakeAwayStep
      <3>3. ASSUME NEW b \in Backend, AioGet(n, c, b),
                   wrappers' = [wrappers EXCEPT ![n] = b],
                   ttls' = [ttls EXCEPT ![n] = c],
                   setupConfigs' = [setupConfigs EXCEPT ![n] = c]
            PROVE  IInv'
        BY <2>2, <2>b, <3>1, <3>3, ServeStep DEF Setup, MaybeConfig
      <3> QED
        BY <2>2, <3>2, <3>3 DEF Setup
    <2>3. ASSUME NEW t \in Task,
                 \/ \E n \in Name : ShutdownOne(t, n)
                 \/ ShutdownAll(t) \/ OneClosed(t) \/ NextClosed(t) \/ CloseRaises(t)
          PROVE  IInv'
      BY <2>3, ShutdownStep
    <2>4. CASE UNCHANGED vars
      BY <2>4 DEF vars, IInv, TypeOK, OneBackendPerName, TtlFromRecord,
                  BackendsNotShared, Wrapped
    <2> QED
      BY <2>1, <2>2, <2>3, <2>4 DEF Next
  <1> QED
    BY <1>1, <1>2, PTL DEF Spec

\* The types of the two registries and of the running shutdowns.
THEOREM TypeCorrect == Spec => []TypeOK
  <1>1. IInv => TypeOK
    BY DEF IInv
  <1> QED
    BY <1>1, Inductive, PTL

\* The manager and aiocache never serve different backends under one name.
THEOREM RegistriesAgree == Spec => []OneBackendPerName
  <1>1. IInv => OneBackendPerName
    BY DEF IInv
  <1> QED
    BY <1>1, Inductive, PTL

\* A wrapper uses the ttl of the setup on record.
THEOREM TtlIsRecorded == Spec => []TtlFromRecord
  <1>1. IInv => TtlFromRecord
    BY DEF IInv
  <1> QED
    BY <1>1, Inductive, PTL

\* No backend is ever served under two names.
THEOREM OwnBackends == Spec => []BackendsNotShared
  <1>1. IInv => BackendsNotShared
    BY DEF IInv
  <1> QED
    BY <1>1, Inductive, PTL
-----------------------------------------------------------------------------
(* While no call has raced and no close has failed.                        *)

\* What is wrapped is open, registered with aiocache, and built as recorded.
Served ==
    \A n \in Wrapped :
        /\ aioCaches[n] = wrappers[n]
        /\ wrappers[n] \notin closed
        /\ setupConfigs[n] # NoConfig => builtFrom[wrappers[n]] = setupConfigs[n]

\* One shutdown runs at most.  What it has still to close is registered with
\* aiocache, and wrapped by a shutdown() only.
Alone == \A t, u \in Task : job[t].todo # {} /\ job[u].todo # {} => t = u

Closing ==
    \A t \in Task : \A p \in job[t].todo :
        /\ aioCaches[p[1]] = p[2]
        /\ wrappers[p[1]] = IF job[t].all THEN p[2] ELSE NoBackend

\* Of a name that is neither wrapped nor being closed nothing is left.
Gone ==
    \A n \in Name \ Wrapped :
        \/ \E t \in Task : n \in {p[1] : p \in job[t].todo}
        \/ aioCaches[n] = NoBackend /\ setupConfigs[n] = NoConfig

ClosedWereBuilt == \A b \in closed : builtFrom[b] # NoConfig

Calm ==
    /\ ~raced => Served /\ Alone /\ Closing /\ Gone /\ ClosedWereBuilt
    /\ NoBackendLost
    /\ DownMeansDown

\* Who has nothing to close is idle.
LEMMA IdleHasNothing ==
    ASSUME TypeOK
    PROVE  /\ \A t \in Task : job[t] = Nothing <=> job[t].todo = {}
           /\ \A t \in Task : job[t].todo \in SUBSET (Name \X Backend)
  BY DEF TypeOK, Shutdown, Nothing

\* A backend that is served from now on.
LEMMA NowServed ==
    ASSUME IInv, IInv', Calm, ~raced', NEW n \in Name, NEW c \in MaybeConfig,
           n \notin Wrapped, Busy = {}, UNCHANGED <<raced, job, closed>>,
           NEW b \in Backend, AioGet(n, c, b), wrappers' = [wrappers EXCEPT ![n] = b],
           \/ UNCHANGED <<setupConfigs, aioConfig, down>> /\ c = aioConfig[n]
           \/ /\ setupConfigs' = [setupConfigs EXCEPT ![n] = c]
              /\ aioConfig' = [aioConfig EXCEPT ![n] = c]
              /\ down' = down \ {n}
    PROVE  Calm'
  <1>0. TypeOK /\ ~raced /\ Served /\ Gone /\ ClosedWereBuilt /\ NoBackendLost /\ DownMeansDown
    BY DEF IInv, Calm
  <1>1. \A t \in Task : job[t].todo = {} /\ job'[t].todo = {}
    BY <1>0, IdleHasNothing DEF Busy
  <1>2. aioCaches[n] = NoBackend /\ setupConfigs[n] = NoConfig
    BY <1>0, <1>1 DEF Gone
  <1>3. /\ c \notin Broken \cup {NoConfig}
        /\ builtFrom[b] = NoConfig
        /\ aioCaches' = [aioCaches EXCEPT ![n] = b]
        /\ builtFrom' = [builtFrom EXCEPT ![b] = c]
    BY <1>2, BackendsAssumption DEF AioGet
  <1>4. /\ Wrapped' = Wrapped \cup {n}
        /\ \A m \in Wrapped : m # n /\ wrappers'[m] = wrappers[m] /\ wrappers[m] \in Backend
    BY <1>0, BackendsAssumption DEF Wrapped, TypeOK, MaybeBackend
  <1>5. \A m \in Wrapped : wrappers[m] # b
    BY <1>3, <1>4 DEF IInv, Wrapped
  <1>6. Served'
    <2>1. ASSUME NEW m \in Wrapped
          PROVE  /\ aioCaches'[m] = wrappers'[m]
                 /\ wrappers'[m] \notin closed'
                 /\ setupConfigs'[m] # NoConfig => builtFrom'[wrappers'[m]] = setupConfigs'[m]
      BY <1>0, <1>3, <1>4, <1>5 DEF Served, TypeOK, Wrapped
    <2>2. wrappers'[n] = b /\ aioCaches'[n] = b /\ b \notin closed'
      BY <1>0, <1>3 DEF TypeOK, ClosedWereBuilt
    <2>3. setupConfigs'[n] # NoConfig => builtFrom'[b] = setupConfigs'[n]
      BY <1>0, <1>2, <1>3 DEF TypeOK
    <2> QED
      BY <1>4, <2>1, <2>2, <2>3 DEF Served
  <1>7. Alone' /\ Closing'
    BY <1>1 DEF Alone, Closing
  <1>8. Gone'
    BY <1>0, <1>1, <1>3, <1>4 DEF Gone, TypeOK
  <1>9. ClosedWereBuilt'
    BY <1>0, <1>3 DEF ClosedWereBuilt, TypeOK
  <1>10. NoBackendLost'
    <2>1. ASSUME NEW a \in Backend, builtFrom[a] # NoConfig
          PROVE  a \in closed \/ \E m \in Name \ {n} : a \in {wrappers[m], aioCaches[m]}
      BY <1>0, <1>1, <1>2, <2>1, BackendsAssumption DEF NoBackendLost, Wrapped
    <2>2. ASSUME NEW a \in Backend, builtFrom'[a] # NoConfig
          PROVE  a = b \/ builtFrom[a] # NoConfig
      BY <1>0, <1>3, <2>2 DEF TypeOK
    <2>3. \A m \in Name \ {n} : wrappers'[m] = wrappers[m] /\ aioCaches'[m] = aioCaches[m]
      BY <1>0, <1>3 DEF TypeOK
    <2>4. wrappers'[n] = b
      BY <1>0 DEF TypeOK
    <2> QED
      BY <2>1, <2>2, <2>3, <2>4 DEF NoBackendLost
  <1>11. DownMeansDown'
    <2>1. n \notin down'
      BY <1>0, <1>1, <1>3 DEF DownMeansDown
    <2>2. \A m \in down' : /\ wrappers'[m] = wrappers[m] /\ aioCaches'[m] = aioCaches[m]
                           /\ aioConfig'[m] = aioConfig[m] /\ m \in down
      BY <1>0, <1>3, <2>1 DEF TypeOK
    <2> QED
      BY <1>0, <1>1, <2>2 DEF DownMeansDown
  <1> QED
    BY <1>6, <1>7, <1>8, <1>9, <1>10, <1>11 DEF Calm

LEMMA GetCacheCalm ==
    ASSUME IInv, IInv', Calm, NEW n \in Name, GetCache(n)
    PROVE  Calm'
  <1>1. CASE raced'
    BY <1>1 DEF Calm, NoBackendLost, DownMeansDown
  <1>2. CASE ~raced'
    <2>1. Busy = {} /\ UNCHANGED <<raced, job, closed, setupConfigs, aioConfig, down>>
          /\ n \notin Wrapped /\ aioConfig[n] \in MaybeConfig
      BY <1>2 DEF GetCache, Noted, IInv, TypeOK
    <2>2. PICK b \in Backend : AioGet(n, aioConfig[n], b) /\ wrappers' = [wrappers EXCEPT ![n] = b]
      BY DEF GetCache
    <2> QED
      BY <1>2, <2>1, <2>2, NowServed
  <1> QED
    BY <1>1, <1>2

LEMMA SetupCalm ==
    ASSUME IInv, IInv', Calm, NEW n \in Name, NEW c \in Config, Setup(n, c)
    PROVE  Calm'
  <1>1. CASE raced'
    BY <1>1 DEF Calm, NoBackendLost, DownMeansDown
  <1>2. CASE ~raced'
    <2>1. Busy = {} /\ UNCHANGED <<raced, job, closed>> /\ n \notin Wrapped
          /\ aioConfig' = [aioConfig EXCEPT ![n] = c] /\ down' = down \ {n} /\ c \in MaybeConfig
      BY <1>2 DEF Setup, Noted, MaybeConfig, IInv, TypeOK
    <2>2. ASSUME NEW b \in Backend, AioGet(n, c, b), wrappers' = [wrappers EXCEPT ![n] = b],
                 setupConfigs' = [setupConfigs EXCEPT ![n] = c]
          PROVE  Calm'
      BY <1>2, <2>1, <2>2, NowServed
    <2>3. CASE UNCHANGED <<wrappers, setupConfigs, aioCaches, builtFrom>>
      <3>1. ~raced /\ Served /\ Alone /\ Closing /\ Gone /\ ClosedWereBuilt /\ NoBackendLost
            /\ DownMeansDown /\ TypeOK
        BY <1>2, <2>1 DEF Calm, IInv
      <3>2. Served' /\ Alone' /\ Closing' /\ Gone' /\ ClosedWereBuilt' /\ NoBackendLost'
        BY <2>1, <2>3, <3>1 DEF Served, Alone, Closing, Gone, ClosedWereBuilt, NoBackendLost, Wrapped
      <3>3. DownMeansDown'
        BY <2>1, <2>3, <3>1 DEF DownMeansDown, TypeOK
      <3> QED
        BY <3>2, <3>3 DEF Calm
    <2> QED
      BY <2>2, <2>3 DEF Setup
  <1> QED
    BY <1>1, <1>2

LEMMA StartCalm ==
    ASSUME IInv, IInv', Calm, NEW t \in Task, (\E n \in Name : ShutdownOne(t, n)) \/ ShutdownAll(t)
    PROVE  Calm'
  <1>1. CASE raced'
    BY <1>1 DEF Calm, NoBackendLost, DownMeansDown
  <1>2. CASE ~raced'
    <2>1. /\ Busy = {} /\ UNCHANGED <<raced, builtFrom, closed>>
          /\ ~raced /\ Served /\ Gone /\ ClosedWereBuilt /\ NoBackendLost /\ DownMeansDown /\ TypeOK
      BY <1>2 DEF ShutdownOne, ShutdownAll, Noted, Calm, IInv, TypeOK
    <2>2. \A u \in Task : job[u].todo = {}
      BY <2>1, IdleHasNothing DEF Busy
    <2>3. \A n \in Wrapped : wrappers[n] \in Backend
      BY <2>1 DEF Wrapped, TypeOK, MaybeBackend
    <2>4. ASSUME NEW n \in Name, ShutdownOne(t, n), n \in Wrapped
          PROVE  Calm'
      <3>1. /\ wrappers' = [wrappers EXCEPT ![n] = NoBackend] /\ Wrapped' = Wrapped \ {n}
            /\ job'[t].todo = {<<n, wrappers[n]>>} /\ job'[t].all = FALSE
            /\ \A u \in Task \ {t} : job'[u].todo = {}
            /\ UNCHANGED <<aioCaches, aioConfig, setupConfigs>> /\ down' = down \cup {n}
        BY <2>1, <2>2, <2>4 DEF ShutdownOne, Wrapped, TypeOK
      <3>2. Served' /\ Alone' /\ ClosedWereBuilt'
        BY <2>1, <3>1 DEF Served, Alone, ClosedWereBuilt, Wrapped, TypeOK
      <3>3. Closing'
        BY <2>1, <2>4, <3>1 DEF Closing, Served, TypeOK
      <3>a. /\ n \in {p[1] : p \in job'[t].todo}
            /\ wrappers[n] \in {p[2] : p \in job'[t].todo}
        BY <3>1
      <3>b. \A m \in Name \ {n} : wrappers'[m] = wrappers[m]
        BY <2>1, <3>1 DEF TypeOK
      <3>4. Gone'
        BY <2>1, <2>2, <3>1, <3>a DEF Gone
      <3>5. NoBackendLost'
        <4>1. ASSUME NEW b \in Backend, builtFrom'[b] # NoConfig
              PROVE  \/ b \in closed'
                     \/ \E m \in Name : b \in {wrappers'[m], aioCaches'[m]}
                     \/ b \in {p[2] : p \in job'[t].todo}
          <5>1. b \in closed \/ \E m \in Name : b \in {wrappers[m], aioCaches[m]}
            BY <2>1, <2>2, <4>1 DEF NoBackendLost
          <5>2. CASE b = wrappers[n]
            BY <3>a, <5>2
          <5> QED
            BY <2>1, <3>1, <3>b, <5>1, <5>2
        <4> QED
          BY <4>1 DEF NoBackendLost
      <3>6. DownMeansDown'
        <4>1. ASSUME NEW m \in down', m # n
              PROVE  wrappers'[m] = NoBackend /\ aioCaches'[m] = NoBackend /\ aioConfig'[m] = NoConfig
          BY <2>1, <2>2, <3>1, <3>b, <4>1 DEF DownMeansDown, TypeOK
        <4> QED
          BY <3>a, <4>1 DEF DownMeansDown
      <3> QED
        BY <3>2, <3>3, <3>4, <3>5, <3>6 DEF Calm
    <2>5. ASSUME NEW n \in Name, ShutdownOne(t, n), n \notin Wrapped
          PROVE  Calm'
      <3>1. /\ wrappers[n] = NoBackend /\ aioCaches[n] = NoBackend
        BY <2>1, <2>2, <2>5 DEF Wrapped, Gone
      <3>2. /\ UNCHANGED <<wrappers, aioCaches, job>>
            /\ setupConfigs' = [setupConfigs EXCEPT ![n] = NoConfig]
            /\ aioConfig' = [aioConfig EXCEPT ![n] = NoConfig]
            /\ down' = down \cup {n}
        BY <2>1, <2>5, <3>1 DEF ShutdownOne, Deregister, TypeOK
      <3>3. Served' /\ Alone' /\ Closing' /\ ClosedWereBuilt' /\ NoBackendLost'
        BY <2>1, <2>2, <2>5, <3>2 DEF Served, Alone, Closing, ClosedWereBuilt, NoBackendLost,
               Wrapped, TypeOK
      <3>4. Gone'
        BY <2>1, <2>2, <3>2 DEF Gone, Wrapped, TypeOK
      <3>5. DownMeansDown'
        BY <2>1, <2>2, <3>1, <3>2 DEF DownMeansDown, TypeOK
      <3> QED
        BY <3>3, <3>4, <3>5 DEF Calm
    <2>6. CASE ShutdownAll(t)
      <3>1. /\ UNCHANGED <<wrappers, aioCaches, aioConfig, setupConfigs>>
            /\ job'[t].todo = {<<n, wrappers[n]>> : n \in Wrapped} /\ job'[t].all = TRUE
            /\ \A u \in Task \ {t} : job'[u].todo = {}
            /\ down' = down \cup Wrapped
        BY <2>1, <2>2, <2>6 DEF ShutdownAll, TypeOK
      <3>2. Served' /\ Alone' /\ ClosedWereBuilt' /\ NoBackendLost'
        BY <2>1, <2>2, <3>1 DEF Served, Alone, ClosedWereBuilt, NoBackendLost, Wrapped
      <3>3. Closing'
        BY <2>1, <3>1 DEF Closing, Served
      <3>4. Gone'
        <4>1. Wrapped' = Wrapped
          BY <3>1 DEF Wrapped
        <4> QED
          BY <2>1, <2>2, <3>1, <4>1 DEF Gone
      <3>5. ASSUME NEW n \in Wrapped
            PROVE  n \in {p[1] : p \in job'[t].todo}
        <4> DEFINE pair == <<n, wrappers[n]>>
        <4>1. pair \in job'[t].todo /\ pair[1] = n
          BY <3>1
        <4> QED
          BY <4>1
      <3>6. DownMeansDown'
        <4>1. ASSUME NEW m \in down', m \notin Wrapped
              PROVE  wrappers'[m] = NoBackend /\ aioCaches'[m] = NoBackend /\ aioConfig'[m] = NoConfig
          BY <2>1, <2>2, <3>1, <4>1 DEF DownMeansDown
        <4> QED
          BY <3>5, <4>1 DEF DownMeansDown
      <3> QED
        BY <3>2, <3>3, <3>4, <3>6 DEF Calm
    <2> QED
      BY <2>4, <2>5, <2>6
  <1> QED
    BY <1>1, <1>2

\* One backend is closed and its name deregistered.
LEMMA ClosedCalm ==
    ASSUME IInv, IInv', Calm, NEW t \in Task, OneClosed(t) \/ NextClosed(t)
    PROVE  Calm'
  <1>1. CASE raced'
    BY <1>1 DEF Calm, NoBackendLost, DownMeansDown
  <1>2. CASE ~raced'
    <2>1. /\ ~raced /\ Served /\ Alone /\ Closing /\ Gone /\ ClosedWereBuilt
          /\ NoBackendLost /\ DownMeansDown /\ TypeOK /\ UNCHANGED <<raced, builtFrom>>
      BY <1>2 DEF OneClosed, NextClosed, Calm, IInv
    <2>2. PICK p \in job[t].todo :
              /\ closed' = closed \cup {p[2]}
              /\ Deregister(p[1])
              /\ wrappers' = [wrappers EXCEPT ![p[1]] = NoBackend]
              /\ setupConfigs' = [setupConfigs EXCEPT ![p[1]] = NoConfig]
              /\ Proceed(t, p)
              /\ UNCHANGED down
      <3>1. CASE OneClosed(t)
        <4>1. PICK p \in job[t].todo :
                  /\ closed' = closed \cup {p[2]}
                  /\ Deregister(p[1])
                  /\ setupConfigs' = [setupConfigs EXCEPT ![p[1]] = NoConfig]
                  /\ Proceed(t, p)
          BY <3>1 DEF OneClosed
        <4>2. wrappers[p[1]] = NoBackend
          BY <2>1, <3>1 DEF Closing, OneClosed
        <4>3. wrappers' = [wrappers EXCEPT ![p[1]] = NoBackend]
          BY <2>1, <3>1, <4>2 DEF OneClosed, TypeOK
        <4> QED
          BY <3>1, <4>1, <4>3 DEF OneClosed
      <3>2. CASE NextClosed(t)
        <4>1. \A p \in job[t].todo : p[1] \in Wrapped
          BY <2>1, <3>2, IdleHasNothing, BackendsAssumption DEF Closing, NextClosed, Wrapped
        <4> QED
          BY <3>2, <4>1 DEF NextClosed
      <3> QED
        BY <3>1, <3>2
    <2> DEFINE n == p[1]
               b == p[2]
    <2>3. /\ n \in Name /\ b \in Backend /\ p = <<n, b>> /\ aioCaches[n] = b
          /\ wrappers[n] \in {b, NoBackend}
      <3>1. p \in Name \X Backend
        BY <2>1, IdleHasNothing
      <3> QED
        BY <2>1, <3>1 DEF Closing
    <2>4. /\ job'[t].todo = job[t].todo \ {p}
          /\ job'[t].todo # {} => job'[t].all = job[t].all
          /\ \A u \in Task \ {t} : job'[u] = job[u] /\ job[u].todo = {}
      <3>1. \A u \in Task \ {t} : job'[u] = job[u]
        BY <2>1, <2>2 DEF Proceed, TypeOK
      <3>2. \A u \in Task \ {t} : job[u].todo = {}
        BY <2>1, <2>2 DEF Alone
      <3>3. CASE job[t].todo = {p}
        BY <2>1, <2>2, <3>1, <3>2, <3>3 DEF Proceed, Nothing, TypeOK
      <3>4. CASE job[t].todo # {p}
        <4>1. job[t] \in Shutdown
          BY <2>1, <2>2 DEF TypeOK, Nothing
        <4>2. job'[t] = [job[t] EXCEPT !.todo = @ \ {p}]
          BY <2>1, <2>2, <3>4 DEF Proceed, TypeOK
        <4> QED
          BY <3>1, <3>2, <4>1, <4>2 DEF Shutdown
      <3> QED
        BY <3>3, <3>4
    <2>5. /\ aioCaches' = [aioCaches EXCEPT ![n] = NoBackend]
          /\ aioConfig' = [aioConfig EXCEPT ![n] = NoConfig]
      BY <2>2 DEF Deregister
    <2>6. /\ \A m \in Name \ {n} : /\ wrappers'[m] = wrappers[m] /\ aioCaches'[m] = aioCaches[m]
                                   /\ setupConfigs'[m] = setupConfigs[m]
                                   /\ aioConfig'[m] = aioConfig[m]
          /\ wrappers'[n] = NoBackend /\ aioCaches'[n] = NoBackend
          /\ setupConfigs'[n] = NoConfig /\ aioConfig'[n] = NoConfig
      BY <2>1, <2>2, <2>3, <2>5 DEF TypeOK
    <2> HIDE DEF n, b
    <2>7. \A q \in job'[t].todo : q \in job[t].todo /\ q[1] # n /\ q[1] \in Name
      <3>1. \A q \in job[t].todo : q \in Name \X Backend
        BY <2>1, IdleHasNothing
      <3>2. ASSUME NEW q \in job[t].todo, q[1] = n
            PROVE  q = p
        BY <2>1, <2>3, <3>1, <3>2 DEF Closing
      <3> QED
        BY <2>4, <3>1, <3>2
    <2>8. Wrapped' = Wrapped \ {n}
      BY <2>6 DEF Wrapped
    <2>9. Served'
      <3>1. \A m \in Name \ {n} : wrappers[m] # b
        BY <2>3, BackendsAssumption DEF IInv, BackendsNotShared
      <3> QED
        BY <2>1, <2>2, <2>6, <2>8, <3>1 DEF Served, Wrapped, b
    <2>10. Alone'
      BY <2>4 DEF Alone
    <2>11. Closing'
      BY <2>1, <2>4, <2>6, <2>7 DEF Closing
    <2>12. \A m \in Name \ {n} :
               (\E u \in Task : m \in {q[1] : q \in job[u].todo})
                   => \E u \in Task : m \in {q[1] : q \in job'[u].todo}
      BY <2>3, <2>4
    <2>13. Gone'
      BY <2>1, <2>6, <2>8, <2>12 DEF Gone
    <2>14. ClosedWereBuilt'
      BY <2>1, <2>2, <2>3, BackendsAssumption DEF ClosedWereBuilt, IInv, b
    <2>15. NoBackendLost'
      <3>1. ASSUME NEW a \in Backend, builtFrom'[a] # NoConfig, a # b, a \notin closed
            PROVE  \/ \E m \in Name : a \in {wrappers'[m], aioCaches'[m]}
                   \/ \E u \in Task : a \in {q[2] : q \in job'[u].todo}
        <4>1. CASE \E m \in Name : a \in {wrappers[m], aioCaches[m]}
          BY <2>3, <2>6, <3>1, <4>1, BackendsAssumption
        <4>2. CASE \E u \in Task : a \in {q[2] : q \in job[u].todo}
          BY <2>3, <2>4, <3>1, <4>2
        <4> QED
          BY <2>1, <3>1, <4>1, <4>2 DEF NoBackendLost
      <3> QED
        BY <2>2, <3>1 DEF NoBackendLost, b
    <2>16. DownMeansDown'
      BY <2>1, <2>2, <2>6, <2>12 DEF DownMeansDown, TypeOK
    <2> QED
      BY <2>9, <2>10, <2>11, <2>13, <2>14, <2>15, <2>16 DEF Calm
  <1> QED
    BY <1>1, <1>2

LEMMA CalmInductive == Spec => [](IInv /\ Calm)
  <1>1. Init => Calm
    BY BackendsAssumption DEF Init, Calm, Served, Alone, Closing, Gone, ClosedWereBuilt,
           NoBackendLost, DownMeansDown, Wrapped, Nothing
  <1>2. IInv /\ IInv' /\ Calm /\ [Next]_vars => Calm'
    <2> SUFFICES ASSUME IInv, IInv', Calm, [Next]_vars
                 PROVE  Calm'
      OBVIOUS
    <2>1. ASSUME NEW t \in Task, CloseRaises(t)
          PROVE  Calm'
      BY <2>1 DEF CloseRaises, Calm, NoBackendLost, DownMeansDown
    <2>2. CASE UNCHANGED vars
      BY <2>2 DEF vars, Calm, Served, Alone, Closing, Gone, ClosedWereBuilt, NoBackendLost,
             DownMeansDown, Wrapped
    <2> QED
      BY <2>1, <2>2, GetCacheCalm, SetupCalm, StartCalm, ClosedCalm DEF Next
  <1> QED
    BY <1>1, <1>2, Inductive, PTL DEF Spec

\* Calls that do not race keep every setup.
THEOREM SetupsStick == Spec => []SetupSticks
  <1>1. IInv /\ Calm => SetupSticks
    <2> SUFFICES ASSUME IInv, Calm, ~raced, Busy = {}, NEW n \in Name, setupConfigs[n] # NoConfig
                 PROVE  /\ n \in Wrapped
                        /\ wrappers[n] \notin closed
                        /\ builtFrom[wrappers[n]] = setupConfigs[n]
      BY DEF SetupSticks
    <2>1. \A t \in Task : job[t].todo = {}
      BY IdleHasNothing DEF IInv, Busy
    <2>2. n \in Wrapped
      BY <2>1 DEF Calm, Gone
    <2> QED
      BY <2>2 DEF Calm, Served
  <1> QED
    BY <1>1, CalmInductive, PTL

\* They lose no backend before it is closed.
THEOREM BackendsAreClosed == Spec => []NoBackendLost
  <1>1. IInv /\ Calm => NoBackendLost
    BY DEF Calm
  <1> QED
    BY <1>1, CalmInductive, PTL

\* What they shut down stays down.
THEOREM DownStaysDown == Spec => []DownMeansDown
  <1>1. IInv /\ Calm => DownMeansDown
    BY DEF Calm
  <1> QED
    BY <1>1, CalmInductive, PTL

-----------------------------------------------------------------------------
(* CacheKeys: sorting.                                                     *)

\* kws is kwargs, its names ascending.
SortedFrom(kws, kwargs) ==
  /\ Range(kws) = Range(kwargs)
  /\ \A i, j \in DOMAIN kws : i < j => Content[kws[i][1]] < Content[kws[j][1]]

\* How many of the pairs have a name up to that of the one at i.
Rank(kwargs, i) ==
  Cardinality({j \in DOMAIN kwargs : Content[kwargs[j][1]] <= Content[kwargs[i][1]]})

LEMMA KwargsFacts ==
    ASSUME NEW c \in Calls
    PROVE  /\ Len(c.kwargs) \in Nat /\ DOMAIN c.kwargs = 1..Len(c.kwargs)
           /\ \A i \in DOMAIN c.kwargs : Content[c.kwargs[i][1]] \in Nat
           /\ \A i, j \in DOMAIN c.kwargs :
                  i # j => Content[c.kwargs[i][1]] # Content[c.kwargs[j][1]]
  <1>1. c.kwargs \in Seq(Names \X Objects)
    BY CallsAssumption
  <1>2. Len(c.kwargs) \in Nat /\ DOMAIN c.kwargs = 1..Len(c.kwargs)
    BY <1>1, LenProperties
  <1>3. \A i \in DOMAIN c.kwargs : c.kwargs[i] \in Names \X Objects
    BY <1>1, <1>2, ElementOfSeq
  <1> QED
    BY <1>2, <1>3, CallsAssumption

LEMMA RankFacts ==
    ASSUME NEW c \in Calls
    PROVE  /\ \A i \in DOMAIN c.kwargs : Rank(c.kwargs, i) \in DOMAIN c.kwargs
           /\ \A i, j \in DOMAIN c.kwargs :
                  Content[c.kwargs[i][1]] < Content[c.kwargs[j][1]]
                      => Rank(c.kwargs, i) < Rank(c.kwargs, j)
  <1> DEFINE K == c.kwargs
             N == Len(K)
             V(i) == Content[K[i][1]]
             Upto(i) == {j \in 1..N : V(j) <= V(i)}
  <1>1. N \in Nat /\ DOMAIN K = 1..N /\ \A i \in 1..N : V(i) \in Nat
    BY KwargsFacts
  <1>2. IsFiniteSet(1..N) /\ Cardinality(1..N) = N
    <2>1. \A n \in Nat : IsFiniteSet(1..n) /\ Cardinality(1..n) = n
      BY FS_Interval
    <2> QED
      BY <1>1, <2>1
  <1>3. \A i : Rank(K, i) = Cardinality(Upto(i))
    BY <1>1 DEF Rank
  <1> HIDE DEF K, N, V
  <1>4. \A i \in 1..N : /\ IsFiniteSet(Upto(i)) /\ Cardinality(Upto(i)) \in 1..N
    <2> TAKE i \in 1..N
    <2>1. /\ IsFiniteSet(Upto(i)) /\ Cardinality(Upto(i)) <= N
      <3>1. Upto(i) \subseteq 1..N
        OBVIOUS
      <3> HIDE DEF Upto
      <3> QED
        BY <1>2, <3>1, FS_Subset
    <2>2. i \in Upto(i)
      BY <1>1
    <2> HIDE DEF Upto
    <2>3. Cardinality(Upto(i)) \in Nat /\ Cardinality(Upto(i)) # 0
      BY <2>1, <2>2, FS_CardinalityType, FS_EmptySet
    <2> QED
      BY <1>1, <2>1, <2>3
  <1>5. \A i, j \in 1..N : V(i) < V(j) => Cardinality(Upto(i)) < Cardinality(Upto(j))
    <2> SUFFICES ASSUME NEW i \in 1..N, NEW j \in 1..N, V(i) < V(j)
                 PROVE  Cardinality(Upto(i)) < Cardinality(Upto(j))
      OBVIOUS
    <2>1. Upto(i) \subseteq Upto(j) /\ j \in Upto(j) /\ j \notin Upto(i)
      BY <1>1
    <2> HIDE DEF Upto
    <2> QED
      BY <1>4, <2>1, FS_Subset, FS_CardinalityType
  <1> QED
    BY <1>1, <1>3, <1>4, <1>5 DEF K, V

\* sorted(kwargs.items()) exists.
LEMMA CanSort ==
    ASSUME NEW c \in Calls
    PROVE  \E kws \in [DOMAIN c.kwargs -> Range(c.kwargs)] : SortedFrom(kws, c.kwargs)
  <1> DEFINE K == c.kwargs
             D == DOMAIN K
             V(i) == Content[K[i][1]]
             r == [i \in D |-> Rank(K, i)]
  <1>1. /\ Len(K) \in Nat /\ D = 1..Len(K) /\ \A i \in D : V(i) \in Nat
        /\ \A i, j \in D : i # j => V(i) # V(j)
    BY KwargsFacts
  <1>2. /\ \A i \in D : r[i] \in D
        /\ \A i, j \in D : V(i) < V(j) => r[i] < r[j]
    BY RankFacts
  <1>3. r \in [D -> D]
    BY <1>2
  <1>4. IsFiniteSet(D)
    <2>1. \A n \in Nat : IsFiniteSet(1..n)
      BY FS_Interval
    <2> QED
      BY <1>1, <2>1
  <1> HIDE DEF K, D, V, r
  <1>5. \A i, j \in D : r[i] = r[j] => i = j
    <2> SUFFICES ASSUME NEW i \in D, NEW j \in D, i # j
                 PROVE  r[i] # r[j]
      OBVIOUS
    <2>1. V(i) < V(j) \/ V(j) < V(i)
      BY <1>1
    <2>2. r[i] \in Nat /\ r[j] \in Nat
      BY <1>1, <1>2
    <2> QED
      BY <1>2, <2>1, <2>2
  <1>6. \A n \in D : \E i \in D : r[i] = n
    <2>1. r \in Injection(D, D)
      BY <1>3, <1>5 DEF Injection, IsInjective
    <2>2. r \in Surjection(D, D)
      BY <1>4, <2>1, FS_Injection
    <2> QED
      BY <2>2 DEF Surjection
  <1> DEFINE at(n) == CHOOSE i \in D : r[i] = n
             kws == [n \in D |-> K[at(n)]]
  <1>7. \A n \in D : at(n) \in D /\ r[at(n)] = n
    BY <1>6
  <1>8. \A i \in D : at(r[i]) = i
    BY <1>2, <1>5, <1>7
  <1> HIDE DEF at
  <1>9. DOMAIN kws = D /\ \A n \in D : kws[n] = K[at(n)]
    OBVIOUS
  <1>10. Range(K) = {K[i] : i \in D}
    BY DEF Range, D
  <1>11. kws \in [D -> Range(K)]
    BY <1>7, <1>10
  <1>12. Range(kws) = Range(K)
    <2>1. Range(kws) = {kws[n] : n \in D}
      BY <1>9 DEF Range
    <2> HIDE DEF kws
    <2>2. Range(kws) \subseteq Range(K)
      BY <1>7, <1>9, <1>10, <2>1
    <2>3. ASSUME NEW p \in Range(K)
          PROVE  p \in Range(kws)
      <3>1. PICK i \in D : p = K[i]
        BY <1>10
      <3>2. r[i] \in D /\ kws[r[i]] = K[i]
        BY <1>2, <1>8, <1>9
      <3> QED
        BY <2>1, <3>1, <3>2
    <2> QED
      BY <2>2, <2>3
  <1>13. ASSUME NEW i \in D, NEW j \in D, i < j
         PROVE  Content[kws[i][1]] < Content[kws[j][1]]
    <2>1. kws[i] = K[at(i)] /\ kws[j] = K[at(j)]
      BY <1>9
    <2>2. ~ (V(at(j)) < V(at(i))) /\ at(i) # at(j)
      <3>1. at(i) \in D /\ at(j) \in D /\ r[at(i)] = i /\ r[at(j)] = j
        BY <1>7
      <3>2. i \in Nat /\ j \in Nat
        BY <1>1
      <3>3. V(at(j)) < V(at(i)) => j < i
        BY <1>2, <3>1
      <3> QED
        BY <1>13, <3>1, <3>2, <3>3
    <2>3. V(at(i)) < V(at(j))
      BY <1>1, <1>7, <2>2
    <2> QED
      BY <2>1, <2>3 DEF V
  <1>14. SortedFrom(kws, K)
    <2> HIDE DEF kws
    <2> QED
      BY <1>9, <1>12, <1>13 DEF SortedFrom
  <1> HIDE DEF kws
  <1> QED
    BY <1>11, <1>14 DEF D, K

LEMMA SortedFacts ==
    ASSUME NEW c \in Calls
    PROVE  Range(SortedKwargs(c)) = Range(c.kwargs)
  <1>1. SortedKwargs(c) =
          CHOOSE kws \in [DOMAIN c.kwargs -> Range(c.kwargs)] : SortedFrom(kws, c.kwargs)
    BY DEF SortedKwargs, SortedFrom
  <1>2. SortedFrom(SortedKwargs(c), c.kwargs)
    BY <1>1, CanSort
  <1> QED
    BY <1>2 DEF SortedFrom

\* Two calls with the same pairs sort them to the same sequence.
LEMMA SortedSame ==
    ASSUME NEW c \in Calls, NEW d \in Calls, Range(c.kwargs) = Range(d.kwargs)
    PROVE  SortedKwargs(c) = SortedKwargs(d)
  <1> DEFINE K == c.kwargs
             L == d.kwargs
  <1>1. /\ Len(K) \in Nat /\ DOMAIN K = 1..Len(K) /\ Len(L) \in Nat /\ DOMAIN L = 1..Len(L)
        /\ \A i, j \in DOMAIN K : i # j => K[i] # K[j]
        /\ \A i, j \in DOMAIN L : i # j => L[i] # L[j]
    BY KwargsFacts
  <1>2. Range(K) = {K[i] : i \in DOMAIN K} /\ Range(L) = {L[i] : i \in DOMAIN L}
        /\ Range(K) = Range(L)
    BY DEF Range
  <1>3. K \in [DOMAIN K -> Range(K)] /\ L \in [DOMAIN L -> Range(L)]
    <2>1. K \in Seq(Names \X Objects) /\ L \in Seq(Names \X Objects)
      BY CallsAssumption
    <2> HIDE DEF K, L
    <2>2. K \in [DOMAIN K -> Names \X Objects] /\ L \in [DOMAIN L -> Names \X Objects]
      BY <1>1, <2>1, LenProperties
    <2> QED
      BY <1>2, <2>2
  <1> HIDE DEF K, L
  <1>4. K \in Surjection(DOMAIN K, Range(K)) /\ K \in Injection(DOMAIN K, Range(K))
    BY <1>1, <1>2, <1>3 DEF Surjection, Injection, IsInjective
  <1>5. L \in Surjection(DOMAIN L, Range(L)) /\ L \in Injection(DOMAIN L, Range(L))
    BY <1>1, <1>2, <1>3 DEF Surjection, Injection, IsInjective
  <1>6. /\ IsFiniteSet(DOMAIN K) /\ Cardinality(DOMAIN K) = Len(K)
        /\ IsFiniteSet(DOMAIN L) /\ Cardinality(DOMAIN L) = Len(L)
    <2>1. \A n \in Nat : IsFiniteSet(1..n) /\ Cardinality(1..n) = n
      BY FS_Interval
    <2> QED
      BY <1>1, <2>1
  <1>7. Cardinality(Range(K)) = Len(K) /\ Cardinality(Range(L)) = Len(L)
    BY <1>4, <1>5, <1>6, FS_Surjection
  <1>8. DOMAIN K = DOMAIN L
    BY <1>1, <1>2, <1>7
  <1> QED
    BY <1>2, <1>8 DEF SortedKwargs, K, L

-----------------------------------------------------------------------------
(* CacheKeys: the key.                                                     *)

\* A key tells the function, the receiver's class and the values of the
\* arguments.
LEMMA KeyTells ==
    ASSUME NEW c \in Calls, NEW d \in Calls, DefaultKey(c) = DefaultKey(d)
    PROVE  EqualCalls(c, d)
  <1> DEFINE Worth(p) == <<Content[p[1]], Value[p[2]]>>
             k == SortedKwargs(c)
             l == SortedKwargs(d)
  <1>1. /\ Base[c.fn] = Base[d.fn] /\ ReceiverName(c) = ReceiverName(d)
        /\ [i \in DOMAIN PlainArgs(c) |-> Value[PlainArgs(c)[i]]]
               = [i \in DOMAIN PlainArgs(d) |-> Value[PlainArgs(d)[i]]]
        /\ [i \in DOMAIN k |-> Worth(k[i])] = [i \in DOMAIN l |-> Worth(l[i])]
    <2>1. Base[c.fn] = Base[d.fn] /\ Pickle(c) = Pickle(d)
      BY DEF DefaultKey
    <2>2. /\ Pickle(c).receiver = ReceiverName(c) /\ Pickle(d).receiver = ReceiverName(d)
          /\ Pickle(c).args = [i \in DOMAIN PlainArgs(c) |-> Value[PlainArgs(c)[i]]]
          /\ Pickle(d).args = [i \in DOMAIN PlainArgs(d) |-> Value[PlainArgs(d)[i]]]
          /\ Pickle(c).kwargs = [i \in DOMAIN k |-> Worth(k[i])]
          /\ Pickle(d).kwargs = [i \in DOMAIN l |-> Worth(l[i])]
      BY DEF Pickle
    <2> QED
      BY <2>1, <2>2
  <1>2. Range(k) = Range(c.kwargs) /\ Range(l) = Range(d.kwargs)
    BY SortedFacts
  <1> HIDE DEF k, l
  <1>3. {Worth(k[i]) : i \in DOMAIN k} = {Worth(l[i]) : i \in DOMAIN l}
    <2> DEFINE f == [i \in DOMAIN k |-> Worth(k[i])]
               g == [i \in DOMAIN l |-> Worth(l[i])]
    <2>1. /\ {Worth(k[i]) : i \in DOMAIN k} = {f[i] : i \in DOMAIN f}
          /\ {Worth(l[i]) : i \in DOMAIN l} = {g[i] : i \in DOMAIN g}
      OBVIOUS
    <2>2. f = g
      BY <1>1
    <2> QED
      BY <2>1, <2>2
  <1>4. /\ {Worth(p) : p \in Range(k)} = {Worth(k[i]) : i \in DOMAIN k}
        /\ {Worth(p) : p \in Range(l)} = {Worth(l[i]) : i \in DOMAIN l}
        /\ {Worth(p) : p \in Range(c.kwargs)} = {Worth(c.kwargs[i]) : i \in DOMAIN c.kwargs}
        /\ {Worth(p) : p \in Range(d.kwargs)} = {Worth(d.kwargs[i]) : i \in DOMAIN d.kwargs}
    BY DEF Range
  <1>5. {Worth(c.kwargs[i]) : i \in DOMAIN c.kwargs} = {Worth(d.kwargs[i]) : i \in DOMAIN d.kwargs}
    BY <1>2, <1>3, <1>4
  <1> QED
    BY <1>1, <1>5 DEF EqualCalls

\* The same objects by position and by name make the same key.
LEMMA KeyIgnoresOrder ==
    ASSUME NEW c \in Calls, NEW d \in Calls, c.fn = d.fn, c.args = d.args,
           Range(c.kwargs) = Range(d.kwargs)
    PROVE  DefaultKey(c) = DefaultKey(d)
  <1>1. SortedKwargs(c) = SortedKwargs(d)
    BY SortedSame
  <1>2. NamesReceiver(c) <=> NamesReceiver(d)
    BY DEF NamesReceiver
  <1>3. PlainArgs(c) = PlainArgs(d) /\ ReceiverName(c) = ReceiverName(d)
    BY <1>2 DEF PlainArgs, ReceiverName
  <1> QED
    BY <1>1, <1>3 DEF DefaultKey, Pickle

-----------------------------------------------------------------------------
(* CacheKeys: the entries.                                                 *)

\* Each entry is under the key of the call that filled it, no two under one
\* key, and the last answer came from an entry under the call's own key.
KeysIInv ==
  /\ \A e \in store : /\ e.call \in Calls /\ e.cache = CacheOf[e.call.fn]
                      /\ e.key = DefaultKey(e.call)
  /\ \A e, g \in store : e.cache = g.cache /\ e.key = g.key => e = g
  /\ answered # <<>> =>
         \E c, d \in Calls : /\ answered = <<c, d>>
                             /\ CacheOf[c.fn] = CacheOf[d.fn]
                             /\ DefaultKey(c) = DefaultKey(d)

LEMMA KeysInitIInv == KeysInit => KeysIInv
  BY DEF KeysInit, KeysIInv

LEMMA KeysNextIInv == KeysIInv /\ [KeysNext]_keysVars => KeysIInv'
  <1> SUFFICES ASSUME KeysIInv, [KeysNext]_keysVars
               PROVE  KeysIInv'
    OBVIOUS
  <1>1. ASSUME NEW c \in Calls, Reject(c) \/ MissUnstored(c)
        PROVE  KeysIInv'
    BY <1>1 DEF Reject, MissUnstored, KeysIInv
  <1>2. ASSUME NEW c \in Calls, Hit(c)
        PROVE  KeysIInv'
    <2>1. PICK e \in store : /\ e.cache = CacheOf[c.fn] /\ e.key = DefaultKey(c)
                             /\ answered' = <<c, e.call>> /\ store' = store
      BY <1>2 DEF Hit, Found
    <2> QED
      BY <2>1 DEF KeysIInv
  <1>3. ASSUME NEW c \in Calls, Miss(c)
        PROVE  KeysIInv'
    <2> DEFINE new == [cache |-> CacheOf[c.fn], key |-> DefaultKey(c), call |-> c]
    <2>1. /\ \A e \in store : ~ (e.cache = CacheOf[c.fn] /\ e.key = DefaultKey(c))
          /\ answered' = <<>> /\ store' = store \cup {new}
      BY <1>3 DEF Miss, Found
    <2>2. new.cache = CacheOf[c.fn] /\ new.key = DefaultKey(c) /\ new.call = c
      OBVIOUS
    <2> HIDE DEF new
    <2> QED
      BY <2>1, <2>2 DEF KeysIInv
  <1>4. CASE Expire
    BY <1>4 DEF Expire, KeysIInv
  <1>5. CASE UNCHANGED keysVars
    BY <1>5 DEF keysVars, KeysIInv
  <1> QED
    BY <1>1, <1>2, <1>3, <1>4, <1>5 DEF KeysNext, Wrapper

\* Whatever calls are made, and however their results expire, each entry stays
\* under the key of the call that filled it.
THEOREM KeysInvariant == KeysSpec => []KeysIInv
  BY KeysInitIInv, KeysNextIInv, PTL DEF KeysSpec

\* No call is ever answered with the result of one that passed anything else, for
\* any functions and objects: _default_key_builder and the wrapper of @cached.
THEOREM AnswersAreRight == KeysSpec => []AnswersMatch
  <1>1. KeysIInv => AnswersMatch
    BY KeyTells DEF KeysIInv, AnswersMatch
  <1> QED
    BY <1>1, KeysInvariant, PTL

\* Calls that differ in the order of their keywords alone share an entry: the
\* sorted() of _default_key_builder.
THEOREM OrderIsIrrelevant == KeysSpec => []KeywordOrderIrrelevant
  <1>1. KeysIInv => KeywordOrderIrrelevant
    BY KeyIgnoresOrder DEF KeysIInv, KeywordOrderIrrelevant
  <1> QED
    BY <1>1, KeysInvariant, PTL
=============================================================================
