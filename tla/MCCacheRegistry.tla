--------------------------- MODULE MCCacheRegistry ---------------------------
(* Small instances of CacheRegistry for TLC.                               *)
EXTENDS CacheRegistry, TLC

TaskSymmetry == Permutations(Task) \cup Permutations(Backend)
=============================================================================
