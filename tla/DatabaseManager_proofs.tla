----------------------- MODULE DatabaseManager_proofs -----------------------
(* Proofs of DatabaseManager's safety for any tasks, names and engines.    *)
EXTENDS DatabaseManager, FiniteSetTheorems, TLAPS

\* The types that the other arguments need.
Types ==
    /\ engines \in [Name -> Engine \cup {NoEngine}]
    /\ factories \in [Name -> Engine \cup {NoEngine}]
    /\ setupConfigs \in [Name -> Config \cup {NoConfig}]
    /\ builtFrom \in [Engine -> Config \cup {NoConfig}]
    /\ holds \in [Task -> Name \cup {NoName}]

\* Every name has an engine of its own.
Apart == \A m, n \in Registered : engines[m] = engines[n] => m = n

InStep == Types /\ DictsInStep /\ Apart

\* A new engine takes over a free name in all three dictionaries.
LEMMA CreateInStep ==
    ASSUME InStep, NEW n \in Name, NEW c \in Config, n \notin Registered, Create(n, c),
           holds' \in [Task -> Name \cup {NoName}]
    PROVE  InStep'
  <1>1. PICK e \in Engine :
            /\ ~Reachable(e)
            /\ builtFrom' = [builtFrom EXCEPT ![e] = c]
            /\ engines' = [engines EXCEPT ![n] = e]
            /\ factories' = [factories EXCEPT ![n] = e]
            /\ setupConfigs' = [setupConfigs EXCEPT ![n] = c]
    BY DEF Create, Fresh
  <1>2. Types'
    BY <1>1 DEF InStep, Types
  <1>3. \A m \in Name : engines[m] # e
    BY <1>1 DEF Reachable
  <1>4. e # NoEngine
    BY <1>1, NoValuesAssumption
  <1>5. ASSUME NEW m \in Name
        PROVE  /\ factories'[m] = engines'[m]
               /\ setupConfigs'[m] = IF engines'[m] # NoEngine THEN builtFrom'[engines'[m]]
                                     ELSE NoConfig
    <2>1. CASE m = n
      BY <1>1, <1>4, <2>1 DEF InStep, Types
    <2>2. CASE m # n
      BY <1>1, <1>3, <2>2 DEF InStep, Types, DictsInStep, Registered
    <2> QED
      BY <2>1, <2>2
  <1>6. Apart'
    BY <1>1, <1>3, <1>4 DEF InStep, Types, Apart, Registered
  <1> QED
    BY <1>2, <1>5, <1>6 DEF InStep, DictsInStep, Registered

\* A name is taken out of all of them.
LEMMA PopInStep ==
    ASSUME InStep, NEW t \in Task, NEW n \in Name, PopAndDispose(t, n),
           holds' \in [Task -> Name \cup {NoName}]
    PROVE  InStep'
  <1>1. Types'
    BY DEF PopAndDispose, Remove, InStep, Types
  <1>2. Apart'
    BY DEF PopAndDispose, Remove, InStep, Types, Apart, Registered
  <1>3. ASSUME NEW m \in Name
        PROVE  /\ factories'[m] = engines'[m]
               /\ setupConfigs'[m] = IF engines'[m] # NoEngine THEN builtFrom'[engines'[m]]
                                     ELSE NoConfig
    <2>1. CASE m = n
      BY <2>1 DEF PopAndDispose, Remove, InStep, Types
    <2>2. CASE m # n
      <3>1. /\ engines'[m] = engines[m] /\ factories'[m] = factories[m]
            /\ setupConfigs'[m] = setupConfigs[m]
        BY <2>2 DEF PopAndDispose, Remove, InStep, Types
      <3>2. engines[m] # NoEngine => engines[m] # engines[n] /\ engines[m] \in Engine
        BY <2>2 DEF InStep, Types, Apart, Registered
      <3>3. engines[m] # NoEngine => builtFrom'[engines[m]] = builtFrom[engines[m]]
        BY <3>2 DEF PopAndDispose, Remove
      <3> QED
        BY <3>1, <3>3 DEF InStep, DictsInStep, Registered
    <2> QED
      BY <2>1, <2>2
  <1> QED
    BY <1>1, <1>2, <1>3 DEF InStep, DictsInStep, Registered

\* Every step keeps the dictionaries in step.
LEMMA InStepStep == InStep /\ [Next]_vars => InStep'
  <1> SUFFICES ASSUME InStep, [Next]_vars
               PROVE  InStep'
    OBVIOUS
  <1>h. holds' \in [Task -> Name \cup {NoName}]
    BY DEF InStep, Types, Next, vars, SetupAlone, OpenResource, ShutdownOne, ShutdownAll,
           CloseResource, DisposeReturns, DisposeRaises, OpenSession, SessionWorks,
           CloseSessions, Collect
  <1> USE <1>h
  <1>a. UNCHANGED dicts => InStep'
    BY DEF InStep, dicts, Types, DictsInStep, Registered, Apart
  <1>b. Cleared => InStep'
    BY DEF InStep, Types, DictsInStep, Registered, Cleared, Apart
  <1>c. ASSUME NEW t \in Task, NEW n \in Name, PopAndDispose(t, n)
        PROVE  InStep'
    BY <1>c, PopInStep
  <1>d. ASSUME NEW n \in Name, NEW c \in Config, Setup(n, c)
        PROVE  InStep'
    BY <1>d, <1>a, CreateInStep DEF Setup
  <1>e. ASSUME NEW t, NEW pos, NEW used, NEW left, Advance(t, pos, used, left)
        PROVE  InStep'
    BY <1>e, <1>a, <1>b DEF Advance
  <1>1. ASSUME NEW t \in Task, NEW n \in Name, NEW c \in Config,
               SetupAlone(t, n, c) \/ OpenResource(t, n, c)
        PROVE  InStep'
    BY <1>1, <1>d DEF SetupAlone, OpenResource
  <1>2. ASSUME NEW t \in Task, NEW n \in Name, ShutdownOne(t, n)
        PROVE  InStep'
    BY <1>2, <1>c DEF ShutdownOne
  <1>3. ASSUME NEW t \in Task, ShutdownAll(t)
        PROVE  InStep'
    BY <1>3, <1>e DEF ShutdownAll
  <1>4. ASSUME NEW t \in Task, DisposeReturns(t)
        PROVE  InStep'
    BY <1>4, <1>a, <1>e DEF DisposeReturns
  <1>5. ASSUME NEW t \in Task, DisposeRaises(t)
        PROVE  InStep'
    BY <1>5, <1>a DEF DisposeRaises
  <1>6. ASSUME NEW n \in Name, OpenSession(n)
        PROVE  InStep'
    BY <1>6, <1>a DEF OpenSession
  <1>7. ASSUME NEW e \in Engine, SessionWorks(e) \/ CloseSessions(e) \/ Collect(e)
        PROVE  InStep'
    BY <1>7, <1>a DEF SessionWorks, CloseSessions, Collect
  <1>8. ASSUME NEW t \in Task, CloseResource(t)
        PROVE  InStep'
    BY <1>8, <1>c DEF CloseResource, InStep, Types
  <1>9. CASE UNCHANGED vars
    BY <1>9, <1>a DEF vars
  <1> QED
    BY <1>1, <1>2, <1>3, <1>4, <1>5, <1>6, <1>7, <1>8, <1>9 DEF Next

\* The three dictionaries agree at every await of every schedule.
THEOREM DictionariesAgree == Spec => []DictsInStep
  <1>1. Init => InStep
    BY DEF Init, InStep, Types, DictsInStep, Registered, Apart
  <1>2. InStep /\ [Next]_vars => InStep'
    BY InStepStep
  <1>3. InStep => DictsInStep
    BY DEF InStep
  <1> QED
    BY <1>1, <1>2, <1>3, PTL DEF Spec

-----------------------------------------------------------------------------
(* The table of _engines.                                                  *)

\* Every entry has a used slot of its own.
Places ==
    /\ place \in [Name -> Nat] /\ slots \in Nat
    /\ \A n \in Registered : 1 <= place[n] /\ place[n] <= slots
    /\ \A m, n \in Registered : place[m] = place[n] => m = n

LEMMA SizeIsNat == IsFiniteSet(Registered) /\ Size \in Nat
  BY NamesAssumption, FS_Subset, FS_CardinalityType DEF Size, Registered

\* Rebuilding keeps the order and leaves no slot empty.
LEMMA Ranks ==
    ASSUME Places
    PROVE  /\ \A n \in Registered : Rank(n) \in Nat /\ 1 <= Rank(n) /\ Rank(n) <= Size
           /\ \A m, n \in Registered : place[m] < place[n] => Rank(m) < Rank(n)
  <1> DEFINE Below(n) == {m \in Registered : place[m] < place[n]}
  <1>1. ASSUME NEW n \in Registered
        PROVE  /\ IsFiniteSet(Below(n)) /\ Cardinality(Below(n)) \in Nat
               /\ Cardinality(Below(n)) + 1 <= Size
    <2>1. Below(n) \subseteq Registered /\ n \notin Below(n)
      BY DEF Places, Registered
    <2>2. IsFiniteSet(Below(n)) /\ Cardinality(Below(n)) <= Size
          /\ (Cardinality(Below(n)) = Size => Below(n) = Registered)
      BY <2>1, SizeIsNat, FS_Subset DEF Size
    <2>3. Cardinality(Below(n)) \in Nat
      BY <2>2, FS_CardinalityType
    <2> QED
      BY <2>1, <2>2, <2>3, SizeIsNat
  <1>2. ASSUME NEW m \in Registered, NEW n \in Registered, place[m] < place[n]
        PROVE  Rank(m) < Rank(n)
    <2>1. Below(m) \subseteq Below(n) /\ m \in Below(n) /\ m \notin Below(m)
      BY <1>2 DEF Places, Registered
    <2>2. Cardinality(Below(m)) <= Cardinality(Below(n))
          /\ (Cardinality(Below(m)) = Cardinality(Below(n)) => Below(m) = Below(n))
      BY <1>1, <2>1, FS_Subset
    <2> QED
      BY <1>1, <2>1, <2>2 DEF Rank
  <1>3. ASSUME NEW n \in Registered
        PROVE  Rank(n) \in Nat /\ 1 <= Rank(n) /\ Rank(n) <= Size
    <2>1. Rank(n) = 1 + Cardinality(Below(n))
      BY DEF Rank
    <2> HIDE DEF Below
    <2> QED
      BY <1>1, <2>1, SizeIsNat
  <1> QED
    BY <1>2, <1>3

LEMMA InsertPlaces ==
    ASSUME Places, NEW n \in Name, n \notin Registered, Insert(n),
           Registered' = Registered \cup {n}
    PROVE  Places'
  <1>1. CASE place' = [place EXCEPT ![n] = slots + 1] /\ slots' = slots + 1
    BY <1>1 DEF Places, Registered
  <1>2. CASE /\ place' = [m \in Name |-> IF m = n THEN Size + 1
                                         ELSE IF m \in Registered THEN Rank(m) ELSE 0]
             /\ slots' = Size + 1
    <2>1. Registered \subseteq Name
      BY DEF Registered
    <2>2. /\ place'[n] = Size + 1
          /\ \A m \in Registered : place'[m] = Rank(m)
      BY <1>2, <2>1
    <2>3. /\ \A m \in Registered : Rank(m) \in Nat /\ 1 <= Rank(m) /\ Rank(m) <= Size
          /\ \A m, o \in Registered : place[m] < place[o] => Rank(m) < Rank(o)
      BY Ranks
    <2>4. place' \in [Name -> Nat] /\ slots' \in Nat
      BY <1>2, <2>3, SizeIsNat
    <2>5. \A m \in Registered' : 1 <= place'[m] /\ place'[m] <= slots'
      BY <1>2, <2>2, <2>3, SizeIsNat
    <2>6. ASSUME NEW m \in Registered, NEW o \in Registered, place'[m] = place'[o]
          PROVE  m = o
      <3>1. place[m] \in Nat /\ place[o] \in Nat
        BY <2>1 DEF Places
      <3>2. ~(place[m] < place[o]) /\ ~(place[o] < place[m])
        BY <2>2, <2>3, <2>6
      <3> QED
        BY <3>1, <3>2 DEF Places
    <2>7. \A m \in Registered : place'[m] # place'[n]
      BY <2>2, <2>3, SizeIsNat
    <2> QED
      BY <2>4, <2>5, <2>6, <2>7 DEF Places
  <1> QED
    BY <1>1, <1>2 DEF Insert

LEMMA PlacesStep ==
    ASSUME InStep, Places, [Next]_vars
    PROVE  Places'
  <1>a. UNCHANGED dicts => Places'
    BY DEF dicts, table, Places, Registered
  <1>b. Cleared => Places'
    BY DEF Cleared, Places, Registered
  <1>c. ASSUME NEW t \in Task, NEW n \in Name, PopAndDispose(t, n)
        PROVE  Places'
    BY <1>c DEF PopAndDispose, Remove, Places, Registered, InStep, Types
  <1>d. ASSUME NEW n \in Name, NEW c \in Config, Setup(n, c)
        PROVE  Places'
    <2>1. CASE UNCHANGED dicts
      BY <2>1, <1>a
    <2>2. CASE n \notin Registered /\ Create(n, c)
      <3>1. Insert(n) /\ \E e \in Engine : engines' = [engines EXCEPT ![n] = e]
        BY <2>2 DEF Create, Fresh
      <3>2. Registered' = Registered \cup {n}
        BY <3>1, NoValuesAssumption DEF Registered, InStep, Types
      <3> QED
        BY <2>2, <3>1, <3>2, InsertPlaces
    <2> QED
      BY <1>d, <2>1, <2>2 DEF Setup
  <1>e. ASSUME NEW t, NEW pos, NEW used, NEW left, Advance(t, pos, used, left)
        PROVE  Places'
    BY <1>e, <1>a, <1>b DEF Advance
  <1> QED
    BY <1>a, <1>c, <1>d, <1>e
       DEF Next, vars, SetupAlone, OpenResource, ShutdownOne, ShutdownAll, CloseResource,
           DisposeReturns, DisposeRaises, OpenSession, SessionWorks, CloseSessions, Collect,
           InStep, Types

-----------------------------------------------------------------------------
(* No connection is lost.                                                  *)

JobType == [kind : {"none", "one", "all"}, at : Engine \cup {NoEngine},
            pos : Nat, used : Int, left : Int]

\* The engines a loop has passed are without connections, unless excused.
Passed(t) ==
    \A n \in Registered :
        place[n] <= job[t].pos /\ engines[n] # job[t].at /\ engines[n] \in pooled
            => engines[n] \in excused \cup moved

PoolInv ==
    /\ InStep /\ Places
    /\ pooled \subseteq Engine /\ excused \subseteq Engine /\ moved \subseteq Engine
    /\ job \in [Task -> JobType]
    /\ \A e \in pooled : Reachable(e) \/ e \in excused \cup moved
    /\ \A t \in Task : Passed(t)
    /\ \A t \in Task : Idle(t) => job[t] = Nothing

\* One step of the loop keeps every engine with connections in reach.
LEMMA AdvanceKeepsPools ==
    ASSUME PoolInv, NEW t \in Task,
           NEW pos \in Nat, NEW used \in Int, NEW left \in Int,
           Advance(t, pos, used, left),
           pooled' = pooled \ {job[t].at}, excused' = excused \ {job[t].at},
           moved' = moved \ {job[t].at},
           \A n \in Registered : place[n] <= pos /\ engines[n] \in pooled'
               => engines[n] \in excused' \cup moved',
           InStep', Places'
    PROVE  PoolInv'
  <1>0. Registered \subseteq Name /\ \A n \in Registered : engines[n] \in Engine /\ place[n] \in Nat
    BY DEF Registered, PoolInv, InStep, Types, Places
  <1>1. job' \in [Task -> JobType]
    <2>1. Nothing \in JobType
      BY DEF Nothing, JobType
    <2>2. \A n \in Registered :
              [kind |-> "all", at |-> engines[n], pos |-> place[n],
               used |-> used, left |-> left - 1] \in JobType
      BY <1>0 DEF JobType
    <2>3. \A n \in First(Ahead(pos)) : n \in Registered
      BY DEF First, Ahead
    <2> QED
      BY <2>1, <2>2, <2>3 DEF Advance, GoTo, PoolInv
  <1>2. \A u \in Task : u # t => job'[u] = job[u]
    BY DEF Advance, GoTo, PoolInv
  <1>3. \A u \in Task : Passed(u)'
    <2> SUFFICES ASSUME NEW u \in Task
                 PROVE  Passed(u)'
      OBVIOUS
    <2>0. CASE Cleared
      BY <2>0 DEF Cleared, Passed, Registered
    <2>1. CASE u # t /\ UNCHANGED dicts
      <3>1. job'[u] = job[u] /\ Passed(u)
        BY <1>2, <2>1 DEF PoolInv
      <3> QED
        BY <2>1, <3>1 DEF Passed, dicts, table, Registered
    <2>2. CASE u = t /\ UNCHANGED dicts /\ job' = [job EXCEPT ![t] = Nothing]
      <3>1. job'[t].pos = 0 /\ \A n \in Registered : 1 <= place[n]
        BY <2>2 DEF PoolInv, Places, Nothing
      <3> QED
        BY <1>0, <2>2, <3>1 DEF Passed, dicts, table, Registered
    <2>3. ASSUME u = t, UNCHANGED dicts, NEW n \in First(Ahead(pos)), GoTo(t, n, used, left - 1)
          PROVE  Passed(u)'
      <3>1. job'[t].pos = place[n] /\ job'[t].at = engines[n]
        BY <2>3 DEF GoTo, PoolInv
      <3>2. ASSUME NEW m \in Registered, place[m] <= place[n]
            PROVE  place[m] <= pos \/ m = n
        <4>1. n \in Registered /\ (m \in Ahead(pos) => place[n] <= place[m])
          BY <2>3 DEF First, Ahead
        <4>2. place[m] <= pos \/ m \in Ahead(pos)
          BY <1>0 DEF Ahead
        <4>3. m \in Ahead(pos) => place[m] = place[n]
          BY <1>0, <3>2, <4>1
        <4> QED
          BY <4>1, <4>2, <4>3 DEF PoolInv, Places
      <3> QED
        BY <2>3, <3>1, <3>2 DEF Passed, dicts, table, Registered
    <2> QED
      BY <2>0, <2>1, <2>2, <2>3 DEF Advance
  <1>4. ASSUME NEW e \in pooled'
        PROVE  Reachable(e)' \/ e \in excused' \cup moved'
    <2>1. e # job[t].at /\ (Reachable(e) \/ e \in excused' \cup moved')
      BY <1>4 DEF PoolInv
    <2>2. ASSUME NEW u \in Task, job[u].at = e
          PROVE  Reachable(e)'
      BY <1>2, <2>1, <2>2 DEF Reachable
    <2>3. ASSUME NEW n \in Name, engines[n] = e
          PROVE  Reachable(e)' \/ e \in excused' \cup moved'
      <3>1. CASE UNCHANGED dicts
        BY <2>3, <3>1 DEF Reachable, dicts
      <3>2. CASE Ahead(pos) = {}
        <4>1. n \in Registered
          BY <1>4, <2>3, NoValuesAssumption DEF Registered, PoolInv
        <4>2. place[n] <= pos
          BY <1>0, <3>2, <4>1 DEF Ahead
        <4> QED
          BY <1>4, <2>3, <4>1, <4>2
      <3> QED
        BY <3>1, <3>2 DEF Advance
    <2> QED
      BY <2>1, <2>2, <2>3 DEF Reachable
  <1>5. \A u \in Task : Idle(u)' => job'[u] = Nothing
    BY <1>2 DEF Advance, GoTo, PoolInv, Idle
  <1> QED
    BY <1>1, <1>3, <1>4, <1>5 DEF PoolInv

\* Taking a name out of the dictionaries leaves its engine with the task that
\* disposes of it.
LEMMA PopKeepsPools ==
    ASSUME PoolInv, NEW t \in Task, Idle(t), NEW n \in Name, PopAndDispose(t, n), InStep', Places'
    PROVE  PoolInv'
  <1>0. engines \in [Name -> Engine \cup {NoEngine}] /\ place \in [Name -> Nat]
    BY DEF PoolInv, InStep, Types, Places
  <1>1. job' \in [Task -> JobType]
    BY <1>0 DEF PopAndDispose, PoolInv, JobType, One, Nothing
  <1>2. \A u \in Task : u # t => job'[u] = job[u]
    BY DEF PopAndDispose, PoolInv
  <1>3. \A u \in Task : Passed(u)'
    <2>1. job'[t].pos = 0
      BY DEF PopAndDispose, PoolInv, One, Nothing
    <2>2. \A m \in Registered' : /\ m \in Registered /\ engines'[m] = engines[m]
                                 /\ place'[m] = place[m]
      BY <1>0 DEF PopAndDispose, Remove, Registered
    <2>3. Passed(t)'
      BY <1>0, <2>1, <2>2 DEF Passed, PoolInv, Places, Registered
    <2>4. ASSUME NEW u \in Task, u # t
          PROVE  Passed(u)'
      <3>1. job'[u] = job[u] /\ Passed(u)
        BY <1>2, <2>4 DEF PoolInv
      <3> QED
        BY <2>2, <3>1 DEF Passed, PopAndDispose, pools
    <2> QED
      BY <2>3, <2>4
  <1>4. ASSUME NEW e \in pooled'
        PROVE  Reachable(e)' \/ e \in excused' \cup moved'
    <2>1. e \in pooled /\ excused' = excused /\ moved' = moved
      BY <1>4 DEF PopAndDispose, pools
    <2>2. ASSUME NEW u \in Task, u # t, job[u].at = e
          PROVE  Reachable(e)'
      BY <1>2, <2>2 DEF Reachable
    <2>3. CASE engines[n] = e
      <3>1. n \in Registered
        BY <2>1, <2>3, NoValuesAssumption DEF Registered, PoolInv
      <3>2. job'[t].at = e
        BY <2>3, <3>1 DEF PopAndDispose, One, Nothing, PoolInv
      <3> QED
        BY <3>2 DEF Reachable
    <2>4. ASSUME NEW m \in Name, m # n, engines[m] = e
          PROVE  Reachable(e)'
      <3>1. engines'[m] = e
        BY <1>0, <2>4 DEF PopAndDispose, Remove
      <3> QED
        BY <3>1 DEF Reachable
    <2>5. job[t].at # e
      BY <2>1, NoValuesAssumption DEF PoolInv, Nothing
    <2> QED
      BY <2>1, <2>2, <2>3, <2>4, <2>5 DEF PoolInv, Reachable
  <1>5. \A u \in Task : Idle(u)' => job'[u] = Nothing
    BY <1>2 DEF PopAndDispose, PoolInv, Idle, One
  <1> QED
    BY <1>1, <1>3, <1>4, <1>5 DEF PoolInv, PopAndDispose, pools

\* A setup that rebuilds the table excuses the engines it moves past a loop.
LEMMA SetupKeepsPools ==
    ASSUME PoolInv, NEW n \in Name, NEW c \in Config, Setup(n, c),
           UNCHANGED <<pooled, excused, job>>, InStep', Places'
    PROVE  PoolInv'
  <1>1. CASE UNCHANGED <<dicts, moved>>
    BY <1>1 DEF PoolInv, dicts, table, Passed, Reachable, Registered, Idle
  <1>2. CASE n \notin Registered /\ Create(n, c)
    <2>1. PICK e \in Fresh : engines' = [engines EXCEPT ![n] = e]
      BY <1>2 DEF Create
    <2>2. moved' = moved \cup (pooled \cap {engines[m] : m \in Overtaken})
      BY <1>2 DEF Create
    <2>3. /\ e \notin pooled /\ engines'[n] = e
          /\ \A m \in Registered : engines'[m] = engines[m] /\ m # n
          /\ Registered' \subseteq Registered \cup {n}
      BY <1>2, <2>1 DEF Fresh, PoolInv, InStep, Types, Registered
    <2>4. \A f \in pooled : Reachable(f) => Reachable(f)'
      BY <2>3, NoValuesAssumption DEF Reachable, PoolInv, Registered
    <2>5. ASSUME NEW t \in Task
          PROVE  Passed(t)'
      <3> SUFFICES ASSUME NEW m \in Registered', place'[m] <= job[t].pos,
                          engines'[m] # job[t].at, engines'[m] \in pooled
                   PROVE  engines'[m] \in excused \cup moved'
        BY DEF Passed
      <3>1. m \in Registered /\ engines'[m] = engines[m]
        BY <2>3
      <3>2. place[m] \in Nat /\ job[t].pos \in Nat
        BY <3>1 DEF PoolInv, Places, JobType, Registered
      <3>3. CASE place[m] <= job[t].pos
        BY <2>2, <3>1, <3>3 DEF PoolInv, Passed
      <3>4. CASE place[m] > job[t].pos
        BY <2>2, <3>1, <3>4 DEF Overtaken
      <3> QED
        BY <3>2, <3>3, <3>4
    <2>6. moved' \subseteq Engine
      BY <2>2 DEF PoolInv
    <2> QED
      BY <2>2, <2>4, <2>5, <2>6 DEF PoolInv, Idle
  <1> QED
    BY <1>1, <1>2 DEF Setup

LEMMA PoolStep == PoolInv /\ [Next]_vars => PoolInv'
  <1> SUFFICES ASSUME PoolInv, [Next]_vars
               PROVE  PoolInv'
    OBVIOUS
  <1>a. InStep' /\ Places'
    BY InStepStep, PlacesStep DEF PoolInv
  <1> USE <1>a
  <1>1. ASSUME NEW t \in Task, NEW n \in Name, NEW c \in Config,
               SetupAlone(t, n, c) \/ OpenResource(t, n, c)
        PROVE  PoolInv'
    BY <1>1, SetupKeepsPools DEF SetupAlone, OpenResource
  <1>2. ASSUME NEW t \in Task, NEW n \in Name, ShutdownOne(t, n)
        PROVE  PoolInv'
    BY <1>2, PopKeepsPools DEF ShutdownOne
  <1>3. ASSUME NEW t \in Task, CloseResource(t)
        PROVE  PoolInv'
    BY <1>3, PopKeepsPools DEF CloseResource, PoolInv, InStep, Types
  <1>4. ASSUME NEW t \in Task, ShutdownAll(t)
        PROVE  PoolInv'
    <2>1. job[t].at = NoEngine
      BY <1>4 DEF ShutdownAll, PoolInv, Nothing
    <2>2. pooled' = pooled \ {job[t].at} /\ excused' = excused \ {job[t].at}
          /\ moved' = moved \ {job[t].at}
      BY <1>4, <2>1, NoValuesAssumption DEF ShutdownAll, PoolInv, pools
    <2>3. \A n \in Registered : ~(place[n] <= 0)
      BY DEF PoolInv, Places, Registered
    <2>4. Advance(t, 0, Size, Size)
      BY <1>4 DEF ShutdownAll
    <2> QED
      BY SizeIsNat, <2>2, <2>3, <2>4, AdvanceKeepsPools
  <1>5. ASSUME NEW t \in Task, DisposeReturns(t)
        PROVE  PoolInv'
    <2>1. /\ pooled' = pooled \ {job[t].at} /\ excused' = excused \ {job[t].at}
          /\ moved' = moved \ {job[t].at}
      BY <1>5 DEF DisposeReturns
    <2>2. CASE job[t].kind = "all"
      <3>1. /\ job[t].pos \in Nat /\ job[t].used \in Int /\ job[t].left \in Int
            /\ Advance(t, job[t].pos, job[t].used, job[t].left)
        BY <1>5, <2>2 DEF DisposeReturns, PoolInv, JobType
      <3>2. \A n \in Registered : place[n] <= job[t].pos /\ engines[n] \in pooled'
                => engines[n] \in excused' \cup moved'
        BY <2>1 DEF PoolInv, Passed
      <3> QED
        BY <2>1, <3>1, <3>2, AdvanceKeepsPools
    <2>3. CASE job' = [job EXCEPT ![t] = Nothing] /\ UNCHANGED dicts
      <3>1. job' \in [Task -> JobType] /\ \A u \in Task : Idle(u)' => job'[u] = Nothing
        BY <2>3 DEF PoolInv, JobType, Nothing, Idle
      <3>2. \A u \in Task : Passed(u)'
        <4>1. \A n \in Registered : ~(place[n] <= 0)
          BY DEF PoolInv, Places, Registered
        <4>2. job'[t].pos = 0 /\ \A u \in Task : u # t => job'[u] = job[u]
          BY <2>3 DEF PoolInv, Nothing
        <4> QED
          BY <2>1, <2>3, <4>1, <4>2 DEF PoolInv, Passed, dicts, table, Registered
      <3>3. \A e \in pooled' : Reachable(e)' \/ e \in excused' \cup moved'
        BY <2>1, <2>3 DEF PoolInv, Reachable, dicts
      <3> QED
        BY <2>1, <3>1, <3>2, <3>3 DEF PoolInv
    <2> QED
      BY <1>5, <2>2, <2>3 DEF DisposeReturns
  <1>6. ASSUME NEW t \in Task, DisposeRaises(t)
        PROVE  PoolInv'
    <2>1. job' \in [Task -> JobType] /\ \A u \in Task : Idle(u)' => job'[u] = Nothing
      BY <1>6 DEF DisposeRaises, PoolInv, JobType, Nothing, Idle
    <2>2. \A u \in Task : Passed(u)'
      <3>1. \A n \in Registered : ~(place[n] <= 0)
        BY DEF PoolInv, Places, Registered
      <3>2. job'[t].pos = 0 /\ \A u \in Task : u # t => job'[u] = job[u]
        BY <1>6 DEF DisposeRaises, PoolInv, Nothing
      <3> QED
        BY <1>6, <3>1, <3>2 DEF DisposeRaises, PoolInv, Passed, dicts, table, Registered
    <2>3. \A e \in pooled : Reachable(e)' \/ e \in excused' \cup moved'
      BY <1>6 DEF DisposeRaises, PoolInv, Reachable, dicts
    <2> QED
      BY <1>6, <2>1, <2>2, <2>3 DEF DisposeRaises, PoolInv
  <1>7. ASSUME NEW n \in Name, OpenSession(n)
        PROVE  PoolInv'
    BY <1>7 DEF OpenSession, PoolInv, Passed, Reachable, Idle, dicts, table, pools, Registered
  <1>8. ASSUME NEW e \in Engine, CloseSessions(e) \/ Collect(e)
        PROVE  PoolInv'
    BY <1>8 DEF CloseSessions, Collect, PoolInv, Passed, Reachable, Idle, dicts, table, pools,
                Registered
  <1>9. ASSUME NEW e \in Engine, SessionWorks(e)
        PROVE  PoolInv'
    <2>1. /\ pooled' = pooled \cup {e} /\ UNCHANGED <<dicts, moved, job>>
          /\ excused \subseteq excused' /\ excused' \subseteq excused \cup {e}
      BY <1>9 DEF SessionWorks
    <2>2. \/ e \in excused'
          \/ \E n \in Name : engines[n] = e /\ \A t \in Task : place[n] > job[t].pos
      BY <1>9 DEF SessionWorks
    <2>3. \A f \in pooled' : Reachable(f)' \/ f \in excused' \cup moved'
      BY <2>1, <2>2 DEF PoolInv, Reachable, dicts
    <2>4. ASSUME NEW t \in Task
          PROVE  Passed(t)'
      <3> SUFFICES ASSUME NEW m \in Registered, place[m] <= job[t].pos,
                          engines[m] # job[t].at, engines[m] \in pooled \cup {e}
                   PROVE  engines[m] \in excused' \cup moved
        BY <2>1 DEF Passed, dicts, table, Registered
      <3>1. CASE engines[m] \in pooled
        BY <2>1, <3>1 DEF PoolInv, Passed
      <3>2. ASSUME engines[m] = e, NEW n \in Name, engines[n] = e, place[n] > job[t].pos
            PROVE  FALSE
        <4>1. n = m
          BY <3>2 DEF PoolInv, InStep, Apart, Registered
        <4>2. place[m] \in Nat /\ job[t].pos \in Nat
          BY DEF PoolInv, Places, JobType, Registered
        <4> QED
          BY <3>2, <4>1, <4>2
      <3> QED
        BY <2>2, <3>1, <3>2
    <2> QED
      BY <2>1, <2>3, <2>4, <1>9 DEF PoolInv, Idle
  <1>10. CASE UNCHANGED vars
    BY <1>10 DEF vars, dicts, table, pools, PoolInv, Passed, Reachable, Idle, Registered
  <1> QED
    BY <1>1, <1>2, <1>3, <1>4, <1>5, <1>6, <1>7, <1>8, <1>9, <1>10 DEF Next

LEMMA PoolInit == Init => PoolInv
  <1>1. Init => InStep
    BY DEF Init, InStep, Types, DictsInStep, Registered, Apart
  <1>2. Init => Places
    BY DEF Init, Places, Registered
  <1>3. ASSUME Init
        PROVE  job \in [Task -> JobType] /\ \A t \in Task : job[t] = Nothing
    BY <1>3 DEF Init, Nothing, JobType
  <1> QED
    BY <1>1, <1>2, <1>3 DEF Init, PoolInv, Passed, Registered

\* No shutdown drops an engine with connections, except one whose own disposal
\* failed, that a session worked on after the shutdown had passed its slot, or
\* that a setup rebuilding the dictionary had moved past the running loop.
THEOREM ConnectionsNotLost == Spec => []NoPoolLost
  <1>1. Init => PoolInv
    BY PoolInit
  <1>2. PoolInv /\ [Next]_vars => PoolInv'
    BY PoolStep
  <1>3. PoolInv => NoPoolLost
    BY DEF NoPoolLost, PoolInv
  <1> QED
    BY <1>1, <1>2, <1>3, PTL DEF Spec

-----------------------------------------------------------------------------
(* A resource keeps its database.                                          *)

\* An uncrossed resource is alone with its name, and no shutdown of all
\* databases is running.
HoldInv ==
    /\ engines \in [Name -> Engine \cup {NoEngine}]
    /\ holds \in [Task -> Name \cup {NoName}]
    /\ ResourceKeepsDatabase
    /\ \A t \in Task \ crossed : \A u \in Task \ {t} :
           holds[t] = holds[u] => holds[t] = NoName
    /\ \A t, u \in Task : job[u].kind = "all" /\ holds[t] # NoName => t \in crossed
    /\ job \in [Task -> JobType]

LEMMA AdvanceKeepsHolds ==
    ASSUME HoldInv, NEW t \in Task, NEW pos \in Nat,
           NEW used \in Int, NEW left \in Int, Advance(t, pos, used, left),
           place \in [Name -> Nat], UNCHANGED holds, crossed \subseteq crossed',
           \A u \in Task : holds[u] # NoName => u \in crossed'
    PROVE  HoldInv'
  <1>1. job' \in [Task -> JobType]
    <2>1. Nothing \in JobType
      BY DEF Nothing, JobType
    <2>2. \A n \in First(Ahead(pos)) :
              [kind |-> "all", at |-> engines[n], pos |-> place[n],
               used |-> used, left |-> left - 1] \in JobType
      BY DEF First, Ahead, Registered, HoldInv, JobType
    <2> QED
      BY <2>1, <2>2 DEF Advance, GoTo, HoldInv
  <1>2. engines' \in [Name -> Engine \cup {NoEngine}]
    BY DEF Advance, Cleared, HoldInv, dicts
  <1> QED
    BY <1>1, <1>2 DEF HoldInv, ResourceKeepsDatabase

LEMMA HoldStep ==
    ASSUME HoldInv, PoolInv, [Next]_vars
    PROVE  HoldInv'
  <1> USE NoValuesAssumption
  <1>1. ASSUME NEW t \in Task, NEW n \in Name, NEW c \in Config, SetupAlone(t, n, c)
        PROVE  HoldInv'
    BY <1>1 DEF SetupAlone, Setup, Create, Fresh, HoldInv, ResourceKeepsDatabase, Registered, dicts
  <1>2. ASSUME NEW t \in Task, NEW n \in Name, NEW c \in Config, OpenResource(t, n, c)
        PROVE  HoldInv'
    <2>1. /\ engines' \in [Name -> Engine \cup {NoEngine}]
          /\ Registered \cup {n} \subseteq Registered'
      BY <1>2 DEF OpenResource, Setup, Create, Fresh, HoldInv, Registered, dicts
    <2>2. /\ holds' = [holds EXCEPT ![t] = n] /\ holds[t] = NoName
          /\ crossed \subseteq crossed' /\ job' = job
      BY <1>2 DEF OpenResource
    <2>3. Holders(n) # {} => Holders(n) \cup {t} \subseteq crossed'
      BY <1>2 DEF OpenResource
    <2>4. \A u \in Task : job[u].kind = "all" => t \in crossed'
      BY <1>2 DEF OpenResource
    <2>5. ResourceKeepsDatabase'
      BY <2>1, <2>2 DEF HoldInv, ResourceKeepsDatabase
    <2>6. \A v \in Task \ crossed' : \A u \in Task \ {v} :
              holds'[v] = holds'[u] => holds'[v] = NoName
      BY <2>2, <2>3 DEF HoldInv, Holders
    <2>7. \A v, u \in Task : job'[u].kind = "all" /\ holds'[v] # NoName => v \in crossed'
      BY <2>2, <2>4 DEF HoldInv
    <2> QED
      BY <2>1, <2>2, <2>5, <2>6, <2>7 DEF HoldInv
  <1>3. ASSUME NEW t \in Task, NEW n \in Name, PopAndDispose(t, n), Idle(t)
        PROVE  /\ engines' \in [Name -> Engine \cup {NoEngine}]
               /\ Registered \ {n} \subseteq Registered'
               /\ job' \in [Task -> JobType]
               /\ \A u \in Task : job'[u].kind = "all" => job[u].kind = "all"
    <2>1. /\ engines' = [engines EXCEPT ![n] = NoEngine]
          /\ \/ n \in Registered /\ job' = [job EXCEPT ![t] = One(engines[n])]
             \/ job' = job
      BY <1>3 DEF PopAndDispose, Remove
    <2>2. /\ One(engines[n]) = [kind |-> "one", at |-> engines[n], pos |-> 0,
                                used |-> 0, left |-> 0]
          /\ n \in Registered => engines[n] \in Engine
      <3>1. One(engines[n]) = [kind |-> "one", at |-> engines[n], pos |-> 0,
                               used |-> 0, left |-> 0]
        BY DEF One
      <3>2. n \in Registered => engines[n] \in Engine
        BY DEF HoldInv, Registered
      <3> QED
        BY <3>1, <3>2
    <2>3. n \in Registered => One(engines[n]) \in JobType
      BY <2>2 DEF JobType
    <2>4. One(engines[n]).kind # "all"
      BY <2>2
    <2>5. job' \in [Task -> JobType]
      BY <2>1, <2>3 DEF HoldInv
    <2>6. \A u \in Task : job'[u].kind = "all" => job[u].kind = "all"
      BY <2>1, <2>4 DEF HoldInv
    <2> QED
      BY <2>1, <2>5, <2>6 DEF HoldInv, Registered
  <1>4. ASSUME NEW t \in Task, NEW n \in Name, ShutdownOne(t, n)
        PROVE  HoldInv'
    <2>1. /\ engines' \in [Name -> Engine \cup {NoEngine}]
          /\ Registered \ {n} \subseteq Registered'
          /\ job' \in [Task -> JobType]
          /\ \A u \in Task : job'[u].kind = "all" => job[u].kind = "all"
      BY <1>3, <1>4 DEF ShutdownOne
    <2>2. holds' = holds /\ crossed' = crossed \cup {u \in Task : holds[u] = n}
      BY <1>4 DEF ShutdownOne, Holders
    <2>3. ResourceKeepsDatabase'
      BY <2>1, <2>2 DEF HoldInv, ResourceKeepsDatabase
    <2> QED
      BY <2>1, <2>2, <2>3 DEF HoldInv
  <1>5. ASSUME NEW t \in Task, CloseResource(t)
        PROVE  HoldInv'
    <2>1. holds[t] \in Name /\ holds' = [holds EXCEPT ![t] = NoName] /\ crossed' = crossed \ {t}
      BY <1>5 DEF CloseResource, HoldInv
    <2>2. PopAndDispose(t, holds[t]) /\ Idle(t)
      BY <1>5 DEF CloseResource
    <2> QED
      BY <1>3, <2>1, <2>2 DEF HoldInv, ResourceKeepsDatabase
  <1>6. ASSUME NEW t \in Task, ShutdownAll(t)
        PROVE  HoldInv'
    <2>1. Size \in Int /\ place \in [Name -> Nat]
      BY SizeIsNat DEF PoolInv, Places
    <2>2. Advance(t, 0, Size, Size) /\ UNCHANGED holds
          /\ crossed' = crossed \cup (Task \ Holders(NoName))
      BY <1>6 DEF ShutdownAll
    <2> QED
      BY <2>1, <2>2, AdvanceKeepsHolds DEF Holders
  <1>7. ASSUME NEW t \in Task, DisposeReturns(t)
        PROVE  HoldInv'
    <2>1. CASE job[t].kind = "all"
      BY <1>7, <2>1, AdvanceKeepsHolds DEF DisposeReturns, HoldInv, PoolInv, Places, JobType
    <2>2. CASE job[t].kind = "one"
      <3>1. job' = [job EXCEPT ![t] = Nothing] /\ UNCHANGED <<engines, holds, crossed>>
        BY <1>7, <2>2 DEF DisposeReturns, dicts
      <3>2. job' \in [Task -> JobType] /\ \A u \in Task : job'[u].kind = "all" => job[u].kind = "all"
        BY <3>1 DEF HoldInv, JobType, Nothing
      <3> QED
        BY <3>1, <3>2 DEF HoldInv, ResourceKeepsDatabase, Registered
    <2> QED
      BY <1>7, <2>1, <2>2 DEF DisposeReturns
  <1>8. ASSUME NEW t \in Task, DisposeRaises(t)
        PROVE  HoldInv'
    BY <1>8 DEF DisposeRaises, dicts, HoldInv, ResourceKeepsDatabase, Registered, JobType, Nothing
  <1>9. CASE UNCHANGED <<engines, job, holds, crossed>>
    BY <1>9 DEF HoldInv, ResourceKeepsDatabase, Registered
  <1> QED
    BY <1>1, <1>2, <1>4, <1>5, <1>6, <1>7, <1>8, <1>9
       DEF Next, OpenSession, SessionWorks, CloseSessions, Collect, vars, dicts

\* An open resource that shares its name with no other, and that nobody else
\* shuts down, has its database for as long as it is open.
THEOREM ResourcesKept == Spec => []ResourceKeepsDatabase
  <1> DEFINE Safe == PoolInv /\ HoldInv
  <1>1. Init => Safe
    <2>1. Init => PoolInv
      BY PoolInit
    <2>2. Init => HoldInv
      BY DEF Init, Registered, Nothing, JobType, HoldInv, ResourceKeepsDatabase
    <2> QED
      BY <2>1, <2>2
  <1>2. Safe /\ [Next]_vars => Safe'
    BY PoolStep, HoldStep
  <1>3. Safe => ResourceKeepsDatabase
    BY DEF HoldInv
  <1> QED
    BY <1>1, <1>2, <1>3, PTL DEF Spec
-----------------------------------------------------------------------------
(* The rest of the types: the counters of a loop never go below 0.         *)

LEMMA AdvanceTypes ==
    ASSUME TypeOK, NEW t \in Task,
           NEW pos \in Nat, NEW used \in Nat, NEW left \in Nat,
           Advance(t, pos, used, left)
    PROVE  job' \in [Task -> [kind : {"none", "one", "all"}, at : Engine \cup {NoEngine},
                              pos : Nat, used : Nat, left : Nat]]
  <1>1. CASE job' = [job EXCEPT ![t] = Nothing]
    BY <1>1 DEF TypeOK, Nothing
  <1>2. ASSUME NEW n \in First(Ahead(pos)), left # 0, GoTo(t, n, used, left - 1)
        PROVE  job' \in [Task -> [kind : {"none", "one", "all"}, at : Engine \cup {NoEngine},
                                  pos : Nat, used : Nat, left : Nat]]
    <2>1. engines[n] \in Engine /\ place[n] \in Nat
      BY DEF First, Ahead, Registered, TypeOK
    <2>2. left - 1 \in Nat
      BY <1>2
    <2> QED
      BY <1>2, <2>1, <2>2 DEF TypeOK, GoTo
  <1> QED
    BY <1>1, <1>2 DEF Advance

LEMMA TypesRest ==
    ASSUME TypeOK, Types', Places', [Next]_vars
    PROVE  TypeOK'
  <1> USE DEF TypeOK, Types, Places
  <1>1. ASSUME NEW t \in Task, NEW n \in Name, NEW c \in Config,
               SetupAlone(t, n, c) \/ OpenResource(t, n, c)
        PROVE  TypeOK'
    <2>1. UNCHANGED <<pooled, excused, job, sessions>> /\ moved' \subseteq Engine
      BY <1>1 DEF SetupAlone, OpenResource, Setup, Create
    <2>2. crossed' \subseteq {u \in Task : holds'[u] # NoName}
      BY <1>1, NoValuesAssumption DEF SetupAlone, OpenResource, Holders
    <2> QED
      BY <2>1, <2>2
  <1>2. ASSUME NEW t \in Task, NEW n \in Name, PopAndDispose(t, n)
        PROVE  job' \in [Task -> [kind : {"none", "one", "all"}, at : Engine \cup {NoEngine},
                                  pos : Nat, used : Nat, left : Nat]]
    BY <1>2 DEF PopAndDispose, One
  <1>3. ASSUME NEW t \in Task, NEW n \in Name, ShutdownOne(t, n)
        PROVE  TypeOK'
    <2>1. PopAndDispose(t, n) /\ UNCHANGED <<pooled, excused, moved, sessions, holds>>
      BY <1>3 DEF ShutdownOne, PopAndDispose, pools
    <2>2. crossed' \subseteq {u \in Task : holds'[u] # NoName}
      BY <1>3, NoValuesAssumption DEF ShutdownOne, Holders
    <2> QED
      BY <1>2, <2>1, <2>2
  <1>4. ASSUME NEW t \in Task, CloseResource(t)
        PROVE  TypeOK'
    <2>1. PopAndDispose(t, holds[t]) /\ UNCHANGED <<pooled, excused, moved, sessions>>
      BY <1>4 DEF CloseResource, PopAndDispose, pools
    <2>2. crossed' \subseteq {u \in Task : holds'[u] # NoName} /\ holds[t] \in Name
      BY <1>4 DEF CloseResource
    <2> QED
      BY <1>2, <2>1, <2>2
  <1>5. ASSUME NEW t \in Task, ShutdownAll(t)
        PROVE  TypeOK'
    <2>1. Size \in Nat
      BY SizeIsNat
    <2>2. Advance(t, 0, Size, Size) /\ UNCHANGED <<pooled, excused, moved, sessions, holds>>
      BY <1>5 DEF ShutdownAll, pools
    <2>3. crossed' \subseteq {u \in Task : holds'[u] # NoName}
      BY <1>5 DEF ShutdownAll, Holders
    <2>4. job' \in [Task -> [kind : {"none", "one", "all"}, at : Engine \cup {NoEngine},
                             pos : Nat, used : Nat, left : Nat]]
      BY <2>1, <2>2, AdvanceTypes
    <2> QED
      BY <2>2, <2>3, <2>4
  <1>6. ASSUME NEW t \in Task, DisposeReturns(t)
        PROVE  TypeOK'
    <2>1. CASE job[t].kind = "all"
      <3>1. job' \in [Task -> [kind : {"none", "one", "all"}, at : Engine \cup {NoEngine},
                               pos : Nat, used : Nat, left : Nat]]
        BY <1>6, <2>1, AdvanceTypes DEF DisposeReturns
      <3> QED
        BY <1>6, <3>1 DEF DisposeReturns
    <2>2. CASE job[t].kind = "one"
      <3>1. job' = [job EXCEPT ![t] = Nothing]
        BY <1>6, <2>2 DEF DisposeReturns
      <3>2. job' \in [Task -> [kind : {"none", "one", "all"}, at : Engine \cup {NoEngine},
                               pos : Nat, used : Nat, left : Nat]]
        BY <3>1 DEF Nothing
      <3> QED
        BY <1>6, <3>2 DEF DisposeReturns
    <2> QED
      BY <1>6, <2>1, <2>2 DEF DisposeReturns
  <1>7. ASSUME NEW t \in Task, DisposeRaises(t)
        PROVE  TypeOK'
    BY <1>7 DEF DisposeRaises, Nothing, dicts
  <1>8. ASSUME NEW n \in Name, OpenSession(n)
        PROVE  TypeOK'
    BY <1>8 DEF OpenSession, dicts, pools
  <1>9. ASSUME NEW e \in Engine, SessionWorks(e) \/ CloseSessions(e) \/ Collect(e)
        PROVE  TypeOK'
    BY <1>9 DEF SessionWorks, CloseSessions, Collect, dicts, pools
  <1>10. CASE UNCHANGED vars
    BY <1>10 DEF vars, dicts, pools
  <1> QED
    BY <1>1, <1>3, <1>4, <1>5, <1>6, <1>7, <1>8, <1>9, <1>10 DEF Next

\* The types of the dictionaries and of the running shutdowns.
THEOREM TypeCorrect == Spec => []TypeOK
  <1> DEFINE Typed == InStep /\ Places /\ TypeOK
  <1>1. Init => Typed
    BY DEF Init, InStep, Types, DictsInStep, Registered, Apart, Places, Nothing, TypeOK
  <1>2. Typed /\ [Next]_vars => Typed'
    BY InStepStep, PlacesStep, TypesRest DEF InStep
  <1>3. Typed => TypeOK
    OBVIOUS
  <1> QED
    BY <1>1, <1>2, <1>3, PTL DEF Spec
=============================================================================
