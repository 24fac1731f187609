----------------------------- MODULE MCGetOrSet -----------------------------
(* Small instances of GetOrSet for TLC.                                    *)
EXTENDS GetOrSet, TLC

\* @cached without skip_cache_func: _skip_none.
SkipNone == {None}

\* Only for runs without liveness properties.
Symmetry == Permutations(Task)
=============================================================================
