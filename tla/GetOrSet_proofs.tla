--------------------------- MODULE GetOrSet_proofs ---------------------------
(* Proofs of the safety of get_or_set for any tasks and any values.        *)
EXTENDS GetOrSet, TLAPS

\* What set hands to the backend is found again by the next get.
LEMMA StoredIsHit ==
    ASSUME noneForm \in NoneForms, NEW v \in Product, Storable(v)
    PROVE  /\ Stored(v) \in Value \cup {None, Sentinel, EncodedNone}
           /\ Hit(Stored(v))
  BY ValuesAssumption, SerializerAssumption
     DEF Product, Storable, Stored, Dumps, Loads, Hit, Reads

\* What get_or_set answers for a hit is a value a producer may return.
LEMMA AnswerIsProduct ==
    ASSUME NEW r \in Value \cup {None, Sentinel, EncodedNone}, Hit(r)
    PROVE  Answer(r) \in Product
  BY ValuesAssumption DEF Product, Answer, Loads, Hit, Reads

\* The variables keep their types in every step.
LEMMA TypeStep == TypeOK /\ [Next]_vars => TypeOK'
  <1> SUFFICES ASSUME TypeOK, [Next]_vars
               PROVE  TypeOK'
    OBVIOUS
  <1> USE DEF TypeOK, Goto, Ends, Control, Inside, InFlight
  <1>1. ASSUME NEW t \in Task, Call(t) PROVE TypeOK'
    BY <1>1 DEF Call, Product
  <1>2. ASSUME NEW t \in Task, FirstGet(t) PROVE TypeOK'
    BY <1>2, AnswerIsProduct DEF FirstGet
  <1>3. ASSUME NEW t \in Task, Acquire(t) PROVE TypeOK'
    BY <1>3 DEF Acquire
  <1>4. ASSUME NEW t \in Task, WaitTimeout(t) PROVE TypeOK'
    BY <1>4 DEF WaitTimeout
  <1>5. ASSUME NEW t \in Task, Recheck(t) PROVE TypeOK'
    BY <1>5, AnswerIsProduct DEF Recheck
  <1>6. ASSUME NEW t \in Task, ProducerReturns(t) PROVE TypeOK'
    BY <1>6 DEF ProducerReturns
  <1>7. ASSUME NEW t \in Task, ProducerRaises(t) PROVE TypeOK'
    BY <1>7 DEF ProducerRaises
  <1>8. ASSUME NEW t \in Task, Store(t) PROVE TypeOK'
    <2>1. val[t] \in Product
      BY <1>8 DEF Store
    <2>2. CASE Storable(val[t])
      BY <1>8, <2>1, <2>2, StoredIsHit DEF Store
    <2>3. CASE ~Storable(val[t])
      BY <1>8, <2>3 DEF Store
    <2> QED
      BY <2>2, <2>3
  <1>9. ASSUME NEW t \in Task, Release(t) PROVE TypeOK'
    BY <1>9 DEF Release
  <1>10. ASSUME NEW t \in Task, Interrupted(t) PROVE TypeOK'
    BY <1>10 DEF Interrupted
  <1>11. CASE ExpireLock
    BY <1>11 DEF ExpireLock
  <1>12. CASE DropEntry
    BY <1>12 DEF DropEntry, Product
  <1>13. CASE DirectSet
    BY <1>13, StoredIsHit DEF DirectSet
  <1>14. CASE UNCHANGED vars
    BY <1>14 DEF vars
  <1> QED
    BY <1>1, <1>2, <1>3, <1>4, <1>5, <1>6, <1>7, <1>8, <1>9, <1>10, <1>11,
       <1>12, <1>13, <1>14 DEF Next, TaskStep

\* Whatever the schedule, the state keeps its types.
THEOREM TypeCorrect == Spec => []TypeOK
  <1>1. Init => TypeOK
    BY DEF Init, TypeOK, Control, Product
  <1>2. TypeOK /\ [Next]_vars => TypeOK'
    BY TypeStep
  <1> QED
    BY <1>1, <1>2, PTL DEF Spec

-----------------------------------------------------------------------------
(* The strengthened invariant is inductive: one step per action.           *)

LEMMA IInvStep == IInv /\ [Next]_vars => IInv'
  <1> SUFFICES ASSUME IInv, [Next]_vars
               PROVE  LockOwnerInside' /\ WaiterHasHolder' /\ Protection'
    BY TypeStep DEF IInv
  <1> USE NoTaskAssumption
      DEF IInv, LockOwnerInside, WaiterHasHolder, Protection, TypeOK,
          Goto, Ends, Control, Inside, InFlight
  <1> DEFINE Goal == LockOwnerInside' /\ WaiterHasHolder' /\ Protection'
  <1>1. ASSUME NEW t \in Task, Call(t) PROVE Goal
    BY <1>1 DEF Call
  <1>2. ASSUME NEW t \in Task, FirstGet(t) PROVE Goal
    BY <1>2 DEF FirstGet
  <1>3. ASSUME NEW t \in Task, Acquire(t) PROVE Goal
    BY <1>3 DEF Acquire
  <1>4. ASSUME NEW t \in Task, WaitTimeout(t) PROVE Goal
    BY <1>4 DEF WaitTimeout
  <1>5. ASSUME NEW t \in Task, Recheck(t) PROVE Goal
    BY <1>5 DEF Recheck
  <1>6. ASSUME NEW t \in Task, ProducerReturns(t) PROVE Goal
    BY <1>6 DEF ProducerReturns
  <1>7. ASSUME NEW t \in Task, ProducerRaises(t) PROVE Goal
    BY <1>7 DEF ProducerRaises
  <1>8. ASSUME NEW t \in Task, Store(t) PROVE Goal
    <2>1. Hit(raw) => Hit(raw')
      BY <1>8, StoredIsHit DEF Store
    <2> QED
      BY <1>8, <2>1 DEF Store
  <1>9. ASSUME NEW t \in Task, Release(t) PROVE Goal
    <2>1. Hit(raw) = Hit(raw)'
      BY <1>9 DEF Release, Hit, Reads
    <2>2. CASE lock = t
      BY <1>9, <2>1, <2>2 DEF Release
    <2>3. CASE lock # t
      BY <1>9, <2>1, <2>3 DEF Release
    <2> QED
      BY <2>2, <2>3
  <1>10. ASSUME NEW t \in Task, Interrupted(t) PROVE Goal
    BY <1>10 DEF Interrupted
  <1>11. CASE ExpireLock
    BY <1>11 DEF ExpireLock
  <1>12. CASE DropEntry
    BY <1>12 DEF DropEntry
  <1>13. CASE DirectSet
    <2>1. Hit(raw')
      BY <1>13, StoredIsHit DEF DirectSet
    <2> QED
      BY <1>13, <2>1 DEF DirectSet
  <1>14. CASE UNCHANGED vars
    BY <1>14 DEF vars
  <1> QED
    BY <1>1, <1>2, <1>3, <1>4, <1>5, <1>6, <1>7, <1>8, <1>9, <1>10, <1>11,
       <1>12, <1>13, <1>14 DEF Next, TaskStep

LEMMA Inductive == Spec => []IInv
  <1>1. Init => IInv
    BY NoTaskAssumption
       DEF Init, IInv, TypeOK, LockOwnerInside, WaiterHasHolder, Protection,
           Control, Product
  <1>2. IInv /\ [Next]_vars => IInv'
    BY IInvStep
  <1> QED
    BY <1>1, <1>2, PTL DEF Spec

\* An undisturbed call keeps the lock, or an entry to find, until it stores.
THEOREM AlwaysProtected == Spec => []Protection
  <1>1. IInv => Protection
    BY DEF IInv
  <1> QED
    BY <1>1, Inductive, PTL

\* Two calls produce together only if one of them lost the protection: both
\* would have to hold the one lock.
THEOREM StampedeProtection == Spec => []SingleFlight
  <1>1. IInv => SingleFlight
    BY DEF IInv, Protection, SingleFlight
  <1> QED
    BY <1>1, Inductive, PTL

\* On every way out the lock goes, and with a live lock its holder is there
\* to wake the waiters.
THEOREM LockNeverLeaks == Spec => [](LockOwnerInside /\ WaiterHasHolder)
  <1>1. IInv => LockOwnerInside /\ WaiterHasHolder
    BY DEF IInv
  <1> QED
    BY <1>1, Inductive, PTL

-----------------------------------------------------------------------------
(* get_or_set implements the abstract promise.                             *)

\* What is stored is what the promise then has as its entry.
LEMMA StoredIsEntry ==
    ASSUME noneForm \in NoneForms, NEW v \in Product, Storable(v)
    PROVE  Answer(Stored(v)) = v
  BY ValuesAssumption, SerializerAssumption
     DEF Product, Storable, Stored, Dumps, Loads, Answer, Reads

\* An entry that may be read is a product, and is not the absent mark.
LEMMA EntryIsProduct ==
    ASSUME TypeOK
    PROVE  /\ PromiseEntry \in Product \cup {Sentinel}
           /\ Hit(raw) <=> PromiseEntry # Sentinel
           /\ Hit(raw) => PromiseEntry = Answer(raw)
           /\ Sentinel \notin Product
  <1>1. Sentinel \notin Product
    BY ValuesAssumption DEF Product
  <1> QED
    BY <1>1, AnswerIsProduct DEF TypeOK, PromiseEntry

\* A step of one task is a step of its phase.
LEMMA PhaseMoves ==
    ASSUME TypeOK, NEW t \in Task, NEW l, Goto(t, l)
    PROVE  /\ PromisePhase[t] = PhaseAt(pc[t])
           /\ PromisePhase' = [PromisePhase EXCEPT ![t] = PhaseAt(l)]
           /\ PhaseAt(l) = PhaseAt(pc[t]) => PromisePhase' = PromisePhase
  <1>1. /\ pc' = [pc EXCEPT ![t] = l]
        /\ pc \in [Task -> Control]
    BY DEF Goto, TypeOK
  <1>2. \A u \in Task : pc'[u] = IF u = t THEN l ELSE pc[u]
    BY <1>1
  <1>3. PromisePhase' = [u \in Task |-> IF u = t THEN PhaseAt(l) ELSE PhaseAt(pc[u])]
    BY <1>2 DEF PromisePhase
  <1> QED
    BY <1>3 DEF PromisePhase

LEMMA PromiseStep ==
    TypeOK /\ TypeOK' /\ [Next]_vars => [Promise!Next]_(Promise!vars)
  <1> SUFFICES ASSUME TypeOK, TypeOK', [Next]_vars
               PROVE  Promise!Next \/ UNCHANGED Promise!vars
    BY DEF Promise!vars
  <1> USE DEF Ends, Promise!Moves, PhaseAt
  <1>a. raw' = raw => PromiseEntry' = PromiseEntry
    BY DEF PromiseEntry, Hit, Answer, Reads
  <1>b. val \in [Task -> Product \cup {Raised}]
    BY DEF TypeOK
  <1>1. ASSUME NEW t \in Task, Call(t) PROVE Promise!Begin(t)
    BY <1>1, <1>a, PhaseMoves DEF Call, Promise!Begin
  <1>2. ASSUME NEW t \in Task, FirstGet(t)
        PROVE  Promise!Hit(t) \/ UNCHANGED Promise!vars
    BY <1>2, <1>a, EntryIsProduct, PhaseMoves DEF FirstGet, Promise!Hit, Promise!vars
  <1>3. ASSUME NEW t \in Task, Acquire(t) PROVE UNCHANGED Promise!vars
    BY <1>3, <1>a, PhaseMoves DEF Acquire, Promise!vars
  <1>4. ASSUME NEW t \in Task, WaitTimeout(t) PROVE UNCHANGED Promise!vars
    BY <1>4, <1>a, PhaseMoves DEF WaitTimeout, Promise!vars
  <1>5. ASSUME NEW t \in Task, Recheck(t)
        PROVE  Promise!Hit(t) \/ Promise!Miss(t)
    <2>1. CASE Hit(raw)
      BY <1>5, <1>a, <2>1, EntryIsProduct, PhaseMoves DEF Recheck, Promise!Hit
    <2>2. CASE ~Hit(raw)
      <3>1. val' = [val EXCEPT ![t] = val[t]]
        BY <1>5, <1>b, <2>2 DEF Recheck
      <3> QED
        BY <1>5, <1>a, <2>2, <3>1, EntryIsProduct, PhaseMoves DEF Recheck, Promise!Miss
    <2> QED
      BY <2>1, <2>2
  <1>6. ASSUME NEW t \in Task, ProducerReturns(t)
        PROVE  Promise!Make(t) \/ Promise!MakeSkipped(t)
    <2>1. PICK v \in Product : Ends(t, IF v \in Skipped THEN "leaving" ELSE "storing", v)
      BY <1>6 DEF ProducerReturns
    <2>2. CASE v \in Skipped
      BY <1>6, <1>a, <2>1, <2>2, PhaseMoves DEF ProducerReturns, Promise!MakeSkipped
    <2>3. CASE v \notin Skipped
      BY <1>6, <1>a, <2>1, <2>3, PhaseMoves DEF ProducerReturns, Promise!Make
    <2> QED
      BY <2>2, <2>3
  <1>7. ASSUME NEW t \in Task, ProducerRaises(t) PROVE Promise!Fail(t)
    BY <1>7, <1>a, PhaseMoves DEF ProducerRaises, Promise!Fail
  <1>8. ASSUME NEW t \in Task, Store(t) PROVE Promise!Keep(t) \/ Promise!Fail(t)
    <2>1. val[t] \in Product
      BY <1>8 DEF Store, TypeOK
    <2>2. CASE Storable(val[t])
      <3>a. noneForm \in NoneForms
        BY DEF TypeOK
      <3>1. PromiseEntry' = val[t]
        BY <1>8, <2>1, <2>2, <3>a, StoredIsHit, StoredIsEntry
           DEF Store, PromiseEntry, Hit, Answer, Reads
      <3> QED
        BY <1>8, <2>2, <3>1, PhaseMoves DEF Store, Promise!Keep
    <2>3. CASE ~Storable(val[t])
      BY <1>8, <1>a, <2>3, PhaseMoves DEF Store, Promise!Fail
    <2> QED
      BY <2>2, <2>3
  <1>9. ASSUME NEW t \in Task, Release(t) PROVE UNCHANGED Promise!vars
    <2>1. CASE lock = t
      <3>1. \A u \in Task : PhaseAt(pc'[u]) = PhaseAt(pc[u])
        BY <1>9, <2>1 DEF Release, TypeOK
      <3> QED
        BY <1>9, <1>a, <2>1, <3>1 DEF Release, Promise!vars, PromisePhase
    <2>2. CASE lock # t
      BY <1>9, <1>a, <2>2, PhaseMoves DEF Release, Promise!vars
    <2> QED
      BY <2>1, <2>2
  <1>10. ASSUME NEW t \in Task, Interrupted(t) PROVE Promise!Fail(t)
    BY <1>10, <1>a, PhaseMoves DEF Interrupted, Inside, Promise!Fail
  <1>11. CASE ExpireLock
    BY <1>11, <1>a DEF ExpireLock, Promise!vars, PromisePhase
  <1>12. CASE DropEntry \/ DirectSet
    <2>1. PromiseEntry' \in Product \cup {Sentinel}
      <3>1. raw' \in Value \cup {None, Sentinel, EncodedNone}
        BY DEF TypeOK
      <3>2. PromiseEntry' = IF Hit(raw') THEN Answer(raw') ELSE Sentinel
        BY DEF PromiseEntry, Hit, Answer, Reads, Loads
      <3> QED
        BY <3>1, <3>2, AnswerIsProduct
    <2> QED
      BY <1>12, <2>1 DEF DropEntry, DirectSet, Promise!Next, Promise!Outside, PromisePhase
  <1>13. CASE UNCHANGED vars
    BY <1>13, <1>a DEF vars, Promise!vars, PromisePhase
  <1> QED
    BY <1>1, <1>2, <1>3, <1>4, <1>5, <1>6, <1>7, <1>8, <1>9, <1>10, <1>11,
       <1>12, <1>13 DEF Next, TaskStep, Promise!Next

\* Every behaviour of get_or_set is one the promise allows.
THEOREM KeepsPromise == Spec => PromiseKept
  <1>1. Init => Promise!Init
    BY ValuesAssumption
       DEF Init, Promise!Init, PromisePhase, PhaseAt, PromiseEntry, Hit, Answer,
           Reads, Loads
  <1>2. TypeOK /\ TypeOK' /\ [Next]_vars => [Promise!Next]_(Promise!vars)
    BY PromiseStep
  <1> QED
    BY <1>1, <1>2, TypeCorrect, PTL DEF Spec, PromiseKept, Promise!Spec
=============================================================================
