---------------------------- MODULE CachePromise ----------------------------
(***************************************************************************)
(* What get_or_set promises its callers about one key, without locks,      *)
(* waiting or serializers: a call answers with an entry that was present   *)
(* at some moment of the call, or with the product of its own producer,    *)
(* or with an exception.  It runs the producer only after it found the     *)
(* entry absent, and its product becomes the entry before the call         *)
(* answers, unless it is a product to be skipped.                          *)
(***************************************************************************)
CONSTANTS
    Task,       \* the callers
    Product,    \* what producers return
    Absent,     \* there is no entry
    Nothing,    \* a caller holds no value
    Raised,     \* the answer of a call that failed
    Skipped     \* products that must not become entries

VARIABLES
    entry,      \* the value other callers are answered with, or Absent
    phase,      \* how far each call is
    holds       \* the product in a caller's hands, or its last answer

vars == <<entry, phase, holds>>

Init ==
    /\ entry = Absent
    /\ phase = [t \in Task |-> "idle"]
    /\ holds = [t \in Task |-> Nothing]

Moves(t, from, to, v) ==
    /\ phase[t] = from
    /\ phase' = [phase EXCEPT ![t] = to]
    /\ holds' = [holds EXCEPT ![t] = v]

Begin(t) == Moves(t, "idle", "open", Nothing) /\ UNCHANGED entry

Hit(t) ==
    /\ entry # Absent
    /\ Moves(t, "open", "idle", entry)
    /\ UNCHANGED entry

Miss(t) ==
    /\ entry = Absent
    /\ Moves(t, "open", "missed", holds[t])
    /\ UNCHANGED entry

Make(t) ==
    /\ \E v \in Product \ Skipped : Moves(t, "missed", "made", v)
    /\ UNCHANGED entry

\* A skipped product is the caller's answer, and nobody else's.
MakeSkipped(t) ==
    /\ \E v \in Product \cap Skipped : Moves(t, "missed", "idle", v)
    /\ UNCHANGED entry

Keep(t) ==
    /\ Moves(t, "made", "idle", holds[t])
    /\ entry' = holds[t]

Fail(t) ==
    /\ \E from \in {"open", "missed", "made"} : Moves(t, from, "idle", Raised)
    /\ UNCHANGED entry

\* Expiry, delete and set from outside the calls.
Outside ==
    /\ entry' \in Product \cup {Absent}
    /\ UNCHANGED <<phase, holds>>

Next ==
    \/ \E t \in Task :
           \/ Begin(t) \/ Hit(t) \/ Miss(t) \/ Make(t) \/ MakeSkipped(t)
           \/ Keep(t) \/ Fail(t)
    \/ Outside

Spec == Init /\ [][Next]_vars
=============================================================================
