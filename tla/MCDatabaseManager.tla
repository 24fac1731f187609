-------------------------- MODULE MCDatabaseManager --------------------------
(* Small instances of DatabaseManager for TLC.                             *)
EXTENDS DatabaseManager, TLC

Symmetry ==
    UNION {Permutations(Task), Permutations(Name), Permutations(Config), Permutations(Engine)}
=============================================================================
