------------------------------ MODULE GetOrSet ------------------------------
(***************************************************************************)
(* ZodiacCache.get_or_set and the @cached wrapper over it, for one key of  *)
(* one cache, called by several asyncio tasks of one process.              *)
(*                                                                         *)
(* A task runs between two awaits without interruption; every await of     *)
(* get_or_set is a step of its own, so the other tasks, the expiry of the  *)
(* lock's lease, the eviction of the entry and direct set/delete calls may *)
(* come in between.  Keys do not interact, so one is enough.               *)
(*                                                                         *)
(* The backend and RedLock belong to aiocache and are modelled from the    *)
(* way get_or_set uses them, for the default in-process backend: adding    *)
(* the lock and publishing its event is one step, and so is releasing it   *)
(* and setting the event.                                                  *)
(***************************************************************************)
EXTENDS Naturals, FiniteSets

CONSTANTS
    Task,          \* the asyncio tasks that call get_or_set with this key
    NoTask,        \* the lock is free
    Value,         \* values other than None, which every serializer restores
    None,          \* Python's None: a value, and what the backend reads as absent
    Sentinel,      \* _CACHED_NONE
    EncodedNone,   \* what a lossless serializer (pickle, json) dumps None to
    TextNone,      \* the string "None", what StringSerializer dumps None to
    Raised,        \* the outcome of a call that ended in an exception
    NoneForms,     \* what the serializers in question may make of None
    Skipped,       \* the products for which skip_cache_func returns True
    UniformLease,  \* every caller passes the same lease
    LeaseRunsOut   \* producers may outlive the lease of the lock

Product == Value \cup {None}

ASSUME NoTaskAssumption == NoTask \notin Task

ASSUME ValuesAssumption ==
    /\ {None, Sentinel, EncodedNone, TextNone, Raised} \cap Value = {}
    /\ None \notin {Sentinel, EncodedNone, TextNone, Raised}
    /\ Sentinel \notin {EncodedNone, TextNone, Raised}
    /\ EncodedNone \notin {TextNone, Raised}
    /\ TextNone # Raised

\* Untouched (NullSerializer), restorable (pickle, json), or lost (string).
ASSUME SerializerAssumption ==
    NoneForms \subseteq {None, EncodedNone, TextNone}

ASSUME CallerAssumption ==
    /\ Skipped \subseteq Product
    /\ UniformLease \in BOOLEAN
    /\ LeaseRunsOut \in BOOLEAN

VARIABLES
    noneForm,  \* what the serializer of the cache makes of None
    pc,        \* where each task is in get_or_set
    val,       \* the value a task holds, and the outcome of its last call
    raw,       \* what the backend stores under the key, None when absent
    lock,      \* the task whose token is stored under "<key>-lock"
    waiters,   \* the tasks waiting on the event of the current lock
    disturbed  \* history: the running calls that lost the lock's protection

vars == <<noneForm, pc, val, raw, lock, waiters, disturbed>>

Control == {"idle", "get", "acquire", "waiting", "recheck",
            "producing", "storing", "leaving"}

InFlight == {t \in Task : pc[t] # "idle"}

\* Inside the body of `async with RedLock`: __aexit__ will run.
Inside == {"recheck", "producing", "storing", "leaving"}

-----------------------------------------------------------------------------
(* Values and the serializer.                                              *)

Dumps(v) == IF v = None THEN noneForm ELSE v

Loads(r) == IF r = EncodedNone THEN None ELSE r

\* _loads_cache_value: None only for an absent entry.
Reads(r) ==
    IF r = None THEN None
    ELSE IF Loads(r) = None THEN Sentinel ELSE Loads(r)

\* The backend can hold v so that it is read back: else set raises TypeError.
Storable(v) == v = None => Dumps(None) = None \/ Loads(Dumps(None)) = None

\* Mutant: None is written as the serializer leaves it.
StoredPlain(v) == Dumps(v)

\* What set hands to the backend, _dumps_cached_none for None.
Stored(v) == IF v = None /\ Dumps(None) = None THEN Sentinel ELSE Dumps(v)

Hit(r) == Reads(r) # None

\* The value get_or_set returns for a hit.
Answer(r) == IF Reads(r) = Sentinel THEN None ELSE Reads(r)

-----------------------------------------------------------------------------
Init ==
    /\ noneForm \in NoneForms
    /\ pc = [t \in Task |-> "idle"]
    /\ val = [t \in Task |-> None]
    /\ raw = None
    /\ lock = NoTask
    /\ waiters = {}
    /\ disturbed = {}

Goto(t, l) == pc' = [pc EXCEPT ![t] = l]

Ends(t, l, v) == Goto(t, l) /\ val' = [val EXCEPT ![t] = v]

Call(t) ==
    /\ pc[t] = "idle"
    /\ Ends(t, "get", None)
    /\ disturbed' = disturbed \ {t}
    /\ UNCHANGED <<noneForm, raw, lock, waiters>>

\* The first _get_raw: a hit returns without touching the lock.
FirstGet(t) ==
    /\ pc[t] = "get"
    /\ \/ Hit(raw) /\ Ends(t, "idle", Answer(raw))
       \/ ~Hit(raw) /\ Goto(t, "acquire") /\ UNCHANGED val
    /\ UNCHANGED <<noneForm, raw, lock, waiters, disturbed>>

\* RedLock.__aenter__: take the free lock, or wait on its holder's event.
Acquire(t) ==
    /\ pc[t] = "acquire"
    /\ \/ /\ lock = NoTask
          /\ lock' = t
          /\ waiters' = {}
          /\ Goto(t, "recheck")
       \/ /\ lock # NoTask
          /\ waiters' = waiters \cup {t}
          /\ Goto(t, "waiting")
          /\ UNCHANGED lock
    /\ UNCHANGED <<noneForm, val, raw, disturbed>>

\* The wait is bounded by the waiter's lease; on timeout it enters the body.
\* With one lease for all, the lock it waits for expires before the wait does.
WaitTimeout(t) ==
    /\ pc[t] = "waiting"
    /\ UniformLease => t \notin waiters
    /\ Goto(t, "recheck")
    /\ waiters' = waiters \ {t}
    /\ disturbed' = disturbed \cup {t}
    /\ UNCHANGED <<noneForm, val, raw, lock>>

\* Mutant: no second look at the cache under the lock.
RecheckForgotten(t) ==
    /\ pc[t] = "recheck"
    /\ Goto(t, "producing")
    /\ UNCHANGED <<noneForm, val, raw, lock, waiters, disturbed>>

\* The _get_raw under the lock: on a miss the producer starts at once.
Recheck(t) ==
    /\ pc[t] = "recheck"
    /\ \/ Hit(raw) /\ Ends(t, "leaving", Answer(raw))
       \/ ~Hit(raw) /\ Goto(t, "producing") /\ UNCHANGED val
    /\ UNCHANGED <<noneForm, raw, lock, waiters, disturbed>>

ProducerReturns(t) ==
    /\ pc[t] = "producing"
    /\ \E v \in Product : Ends(t, IF v \in Skipped THEN "leaving" ELSE "storing", v)
    /\ UNCHANGED <<noneForm, raw, lock, waiters, disturbed>>

ProducerRaises(t) ==
    /\ pc[t] = "producing"
    /\ Ends(t, "leaving", Raised)
    /\ UNCHANGED <<noneForm, raw, lock, waiters, disturbed>>

\* self.set(key, fresh): a None the serializer cannot restore is a TypeError.
Store(t) ==
    /\ pc[t] = "storing"
    /\ \/ /\ Storable(val[t])
          /\ raw' = Stored(val[t])
          /\ Ends(t, "leaving", val[t])
       \/ /\ ~Storable(val[t])
          /\ Ends(t, "leaving", Raised)
          /\ UNCHANGED raw
    /\ UNCHANGED <<noneForm, lock, waiters, disturbed>>

\* Mutant: only the holder of the lock gets out of the body.
ReleaseIfHolder(t) ==
    /\ pc[t] = "leaving"
    /\ lock = t
    /\ lock' = NoTask
    /\ waiters' = {}
    /\ pc' = [u \in Task |-> IF u = t THEN "idle"
                             ELSE IF u \in waiters THEN "recheck" ELSE pc[u]]
    /\ disturbed' = IF Hit(raw) THEN disturbed ELSE disturbed \cup InFlight
    /\ UNCHANGED <<noneForm, val, raw>>

\* RedLock.__aexit__, on every way out of the body.  Only the holder of the
\* current token removes the lock and wakes its waiters, who then enter the
\* body without a lock of their own.
Release(t) ==
    /\ pc[t] = "leaving"
    /\ \/ /\ lock = t
          /\ lock' = NoTask
          /\ waiters' = {}
          /\ pc' = [u \in Task |-> IF u = t THEN "idle"
                                   ELSE IF u \in waiters THEN "recheck"
                                   ELSE pc[u]]
          /\ disturbed' = IF Hit(raw) THEN disturbed ELSE disturbed \cup InFlight
       \/ /\ lock # t
          /\ Goto(t, "idle")
          /\ UNCHANGED <<lock, waiters, disturbed>>
    /\ UNCHANGED <<noneForm, val, raw>>

\* Mutant: a lock taken and given back without async with.
InterruptedHolding(t) ==
    /\ pc[t] \in {"get", "acquire", "waiting", "recheck", "producing", "storing"}
    /\ Ends(t, "idle", Raised)
    /\ waiters' = waiters \ {t}
    /\ UNCHANGED <<noneForm, raw, lock, disturbed>>

\* An exception arrives at an await: a backend error or timeout of get and
\* set, or the cancellation of the task.  Before the body there is nothing to
\* release; in the body __aexit__ runs.
Interrupted(t) ==
    /\ pc[t] \in {"get", "acquire", "waiting", "recheck", "producing", "storing"}
    /\ Ends(t, IF pc[t] \in Inside THEN "leaving" ELSE "idle", Raised)
    /\ waiters' = waiters \ {t}
    /\ UNCHANGED <<noneForm, raw, lock, disturbed>>

-----------------------------------------------------------------------------
(* What happens around the calls.                                          *)

\* The lease ends and the backend drops the lock; the event of the expired
\* lock is orphaned, its waiters can leave only by their own timeout.
ExpireLock ==
    /\ LeaseRunsOut
    /\ lock # NoTask
    /\ lock' = NoTask
    /\ waiters' = {}
    /\ disturbed' = disturbed \cup InFlight
    /\ UNCHANGED <<noneForm, pc, val, raw>>

\* The entry's ttl ends, or ZodiacCache.delete.
DropEntry ==
    /\ raw # None
    /\ raw' = None
    /\ disturbed' = disturbed \cup InFlight
    /\ UNCHANGED <<noneForm, pc, val, lock, waiters>>

\* ZodiacCache.set called by somebody else with the same key.
DirectSet ==
    /\ \E v \in Product : Storable(v) /\ raw' = Stored(v)
    /\ UNCHANGED <<noneForm, pc, val, lock, waiters, disturbed>>

TaskStep(t) ==
    \/ Call(t) \/ FirstGet(t) \/ Acquire(t) \/ WaitTimeout(t) \/ Recheck(t)
    \/ ProducerReturns(t) \/ ProducerRaises(t) \/ Store(t) \/ Release(t)
    \/ Interrupted(t)

Next == (\E t \in Task : TaskStep(t)) \/ ExpireLock \/ DropEntry \/ DirectSet

Spec == Init /\ [][Next]_vars

(***************************************************************************)
(* The event loop resumes every task whose await is over, backend calls    *)
(* and timers complete.  Nothing is assumed of the producers: one may hang *)
(* for ever.                                                               *)
(***************************************************************************)
Fairness ==
    /\ WF_vars(ExpireLock)
    /\ \A t \in Task : /\ WF_vars(FirstGet(t) \/ Acquire(t) \/ Recheck(t))
                       /\ WF_vars(Store(t) \/ Release(t))
                       /\ WF_vars(WaitTimeout(t))

FairSpec == Spec /\ Fairness

-----------------------------------------------------------------------------
(* Properties.                                                             *)

\* The types of the state; what the backend holds is never "None" as text, the
\* sentinel stands in for a None the serializer would not bring back, and only
\* waiting calls are woken (_dumps_cached_none, get_or_set).
TypeOK ==
    /\ noneForm \in NoneForms
    /\ pc \in [Task -> Control]
    /\ val \in [Task -> Product \cup {Raised}]
    /\ raw \in Value \cup {None, Sentinel, EncodedNone}
    /\ lock \in Task \cup {NoTask}
    /\ waiters \subseteq {t \in Task : pc[t] = "waiting"}
    /\ disturbed \subseteq Task
    /\ \A t \in Task : pc[t] = "storing" => val[t] \in Product

\* The stampede protection of get_or_set: two calls run their producers at
\* the same time only if, during one of them, the lease ran out, a wait timed
\* out, the entry was dropped, or the lock was given up without an entry.
SingleFlight ==
    \A t, u \in Task :
        t # u /\ pc[t] \in {"producing", "storing"}
              /\ pc[u] \in {"producing", "storing"}
        => {t, u} \cap disturbed # {}

\* No way out of get_or_set (hit, skip, error, cancellation) leaves the lock
\* behind: whoever holds it is still going to run __aexit__.
LockOwnerInside == lock # NoTask => pc[lock] \in Inside

\* docs/api/cache.md: "one producer per key while the lock is held".
OneProducerWhileLocked ==
    lock # NoTask => Cardinality({t \in Task : pc[t] = "producing"}) <= 1

\* A waiter depends on its timeout only after the lock it waited for expired
\* or was given up: otherwise its holder is there to wake it.
WaiterHasHolder ==
    \A t \in Task :
        pc[t] = "waiting" /\ t \notin disturbed => t \in waiters /\ lock # NoTask

\* Inside the body an undisturbed call holds the lock until it has stored its
\* product, or it was woken and the entry it waited for is there to be found.
Protection ==
    \A t \in Task :
        pc[t] \in {"recheck", "producing", "storing"} /\ t \notin disturbed
            => lock = t \/ (pc[t] = "recheck" /\ Hit(raw))

\* What the safety properties need to be inductive together.
IInv == TypeOK /\ LockOwnerInside /\ WaiterHasHolder /\ Protection

\* The phases and the entry of the abstract promise that this state shows.
PhaseAt(l) ==
    IF l \in {"idle", "leaving"} THEN "idle"
    ELSE IF l = "producing" THEN "missed"
    ELSE IF l = "storing" THEN "made"
    ELSE "open"

PromisePhase == [t \in Task |-> PhaseAt(pc[t])]

PromiseEntry == IF Hit(raw) THEN Answer(raw) ELSE Sentinel

Promise == INSTANCE CachePromise
    WITH Absent <- Sentinel, Nothing <- None,
         entry <- PromiseEntry, phase <- PromisePhase, holds <- val

\* get_or_set keeps the promise, through every interleaving, lost lock and
\* failure: answers are entries present during the call or own products, the
\* sentinel never escapes, a stored None is a hit, skipped products stay out.
PromiseKept == Promise!Spec

\* A call returns, whatever the other calls do, if its own producer does: a
\* holder that hangs, fails or is cancelled holds nobody else up for ever
\* (RedLock's bounded wait and __aexit__ in get_or_set).
EveryCallReturns ==
    \A t \in Task :
        (pc[t] = "producing" ~> pc[t] # "producing")
            => (pc[t] # "idle" ~> pc[t] = "idle")
=============================================================================
