----------------------------- MODULE RenderPlan -----------------------------
(***************************************************************************)
(* write_render_plan: `zodiac new` and `zodiac add sub-app` write all the  *)
(* files of a plan, or undo what they wrote and raise.                     *)
(*                                                                         *)
(* A file has a content out of four: the user's, the template's, torn (a   *)
(* write that was cut short), or it is missing.  Every call on the file    *)
(* system is a step that may fail; other programs may write files between  *)
(* two of them, and the process may be killed at any of them.  The plan is *)
(* a set of files, that Rank orders.                                       *)
(***************************************************************************)
EXTENDS Naturals

CONSTANTS
    File,             \* paths of files
    Dir,              \* paths of directories
    Above,            \* the directories on the path to each file or directory
    Plan,             \* the plans, sets of files
    Rank,             \* where a file stands in every plan that has it
    Others            \* the files other programs write

ASSUME PathsAssumption ==
    /\ File \cap Dir = {}
    /\ Above \in [File \cup Dir -> SUBSET Dir]
    /\ \A p \in File \cup Dir : \A d \in Above[p] : Above[d] \subseteq Above[p] \ {d}

ASSUME PlansAssumption ==
    /\ Plan \subseteq (SUBSET File) \ {{}}
    /\ Rank \in [File -> Nat]
    /\ \A p \in Plan : \A f, g \in p : Rank[f] = Rank[g] => f = g

ASSUME OthersAssumption == Others \subseteq File

Content == {"user", "template", "torn"}
Missing == "missing"

VARIABLES
    files,         \* what the tree holds under each file's path
    dirs,          \* the directories there are
    pc,            \* where the run is
    plan,          \* the destinations of the run
    force,         \* its --force
    originals,     \* original_contents, Missing for a file that is not a key
    todo,          \* the destinations, files or directories a loop has left
    at,            \* the destination whose parents are being made, or are made
    createdFiles,  \* created_files
    createdDirs,   \* created_directories
    outcome,       \* how the last run ended, "none" while one runs;
                   \* "broken" when its rollback met an error
    before,        \* history: the tree at the start of the run
    touched        \* history: the files others wrote during the run

tree == <<files, dirs>>
run == <<plan, force>>
undo == <<originals, createdFiles, createdDirs>>
vars == <<tree, pc, run, undo, todo, at, outcome, before, touched>>

NoFiles == [f \in File |-> Missing]

Existing(fs) == {f \in File : fs[f] # Missing}

First(fs) == {f \in fs : \A g \in fs : Rank[f] <= Rank[g]}
Last(fs) == {f \in fs : \A g \in fs : Rank[f] >= Rank[g]}

\* A tree in which every entry has its directories.
Tree(fs, ds) == \A p \in Existing(fs) \cup ds : Above[p] \subseteq ds

Init ==
    /\ files \in [File -> {"user", Missing}]
    /\ dirs \in SUBSET Dir
    /\ Tree(files, dirs)
    /\ pc = "idle"
    /\ plan = {} /\ force = FALSE
    /\ originals = NoFiles /\ createdFiles = {} /\ createdDirs = {}
    /\ todo = {} /\ at = {}
    /\ outcome = "none"
    /\ before = [files |-> files, dirs |-> dirs]
    /\ touched = {}

-----------------------------------------------------------------------------
(* The run.                                                                *)

\* What the call kept for its rollback goes with it.
Ends(how) ==
    /\ pc' = "idle"
    /\ outcome' = how
    /\ todo' = {}
    /\ originals' = NoFiles /\ createdFiles' = {} /\ createdDirs' = {}

\* Mutant: a conflict is an error only when every destination exists.
PreflightAll(p, forced) ==
    /\ pc = "idle"
    /\ plan' = p /\ force' = forced
    /\ originals' = NoFiles /\ createdFiles' = {} /\ createdDirs' = {} /\ at' = {}
    /\ before' = [files |-> files, dirs |-> dirs]
    /\ touched' = {}
    /\ IF p \subseteq Existing(files) /\ ~forced
       THEN Ends("conflict")
       ELSE pc' = "read" /\ outcome' = "none" /\ UNCHANGED todo
    /\ UNCHANGED tree

\* A call looks for conflicts before anything else.
Preflight(p, forced) ==
    /\ pc = "idle"
    /\ plan' = p /\ force' = forced
    /\ originals' = NoFiles /\ createdFiles' = {} /\ createdDirs' = {} /\ at' = {}
    /\ before' = [files |-> files, dirs |-> dirs]
    /\ touched' = {}
    /\ IF p \cap Existing(files) # {} /\ ~forced
       THEN Ends("conflict")
       ELSE pc' = "read" /\ outcome' = "none" /\ UNCHANGED todo
    /\ UNCHANGED tree

\* The contents to restore, of whatever exists by now.  An error here is
\* raised outside the try block.
ReadOriginals ==
    /\ pc = "read"
    /\ \/ /\ originals' = [f \in File |-> IF f \in plan THEN files[f] ELSE Missing]
          /\ pc' = "mkdir"
          /\ todo' = plan
          /\ UNCHANGED <<outcome, createdFiles, createdDirs>>
       \/ Ends("failed")
    /\ UNCHANGED <<tree, run, at, before, touched>>

\* The except clause starts with the original contents.
Rollback ==
    /\ pc' = "restore"
    /\ todo' = Existing(originals)
    /\ UNCHANGED outcome

Missed(f) == Above[f] \ dirs

\* mkdir makes the missing parents from the top.  One that fails halfway
\* leaves those it made, and they are not recorded.
MakeParents(f) ==
    /\ pc = "mkdir"
    /\ f \in First(todo)
    /\ \/ /\ dirs' = dirs \cup Missed(f)
          /\ createdDirs' = createdDirs \cup Missed(f)
          /\ pc' = "write"
          /\ UNCHANGED <<todo, outcome>>
       \/ /\ \E made \in SUBSET Missed(f) :
                 /\ made # Missed(f)
                 /\ \A d \in made : Above[d] \subseteq dirs \cup made
                 /\ dirs' = dirs \cup made
          /\ Rollback
          /\ UNCHANGED createdDirs
    /\ at' = {f}
    /\ UNCHANGED <<files, run, originals, createdFiles, before, touched>>

\* The file system's part in writing f, all of it or an error, when the run
\* has recorded these files as created, or those if there is an error.
Writes(f, created, createdOnError) ==
    /\ pc = "write"
    /\ at = {f}
    /\ \/ /\ files' = [files EXCEPT ![f] = "template"]
          /\ IF todo = {f} THEN Ends("done")
             ELSE /\ pc' = "mkdir" /\ todo' = todo \ {f}
                  /\ createdFiles' = created
                  /\ UNCHANGED <<outcome, originals, createdDirs>>
       \/ /\ files' \in {files, [files EXCEPT ![f] = "torn"]}
          /\ Rollback
          /\ createdFiles' = createdOnError
          /\ UNCHANGED <<originals, createdDirs>>
    /\ at' = {}
    /\ UNCHANGED <<dirs, run, before, touched>>

\* The files created so far once f is, unless it was there before.
WithCreated(f) == createdFiles \cup {g \in {f} : originals[g] = Missing}

\* Mutant: a file counts as created once its content is written.
WriteThenRecord(f) == Writes(f, WithCreated(f), createdFiles)

\* Mutant: every file counts as created.
WriteRecordAny(f) == Writes(f, createdFiles \cup {f}, createdFiles \cup {f})

\* A file is recorded as created before its content is written.
WriteFile(f) == Writes(f, WithCreated(f), WithCreated(f))

\* An error in the rollback replaces the first one and ends the call.
RollbackFails == Ends("broken")

\* write_bytes of every original, written over by the run or not.
Restore ==
    /\ pc = "restore"
    /\ \/ \E f \in First(todo) :
              \/ files' = [files EXCEPT ![f] = originals[f]]
                 /\ todo' = todo \ {f} /\ UNCHANGED <<pc, outcome, undo>>
              \/ RollbackFails /\ files' \in {files, [files EXCEPT ![f] = "torn"]}
       \/ /\ todo = {}
          /\ pc' = "unlink" /\ todo' = createdFiles
          /\ UNCHANGED <<files, outcome, undo>>
    /\ UNCHANGED <<dirs, run, at, before, touched>>

Unlink ==
    /\ pc = "unlink"
    /\ \/ \E f \in Last(todo) :
              \/ files' = [files EXCEPT ![f] = Missing]
                 /\ todo' = todo \ {f} /\ UNCHANGED <<pc, outcome, undo>>
              \/ RollbackFails /\ UNCHANGED files
       \/ /\ todo = {}
          /\ pc' = "rmdir" /\ todo' = createdDirs
          /\ UNCHANGED <<files, outcome, undo>>
    /\ UNCHANGED <<dirs, run, at, before, touched>>

Occupied(d) == \E p \in Existing(files) \cup dirs : d \in Above[p]

\* rmdir of the created directories, the deepest first; one that is not empty
\* stays, and so may one that rmdir refuses.  Then the error is raised.
RemoveDirs ==
    /\ pc = "rmdir"
    /\ \/ \E d \in todo :
              /\ \A e \in todo : d \notin Above[e]
              /\ \/ dirs' = (IF Occupied(d) THEN dirs ELSE dirs \ {d}) /\ UNCHANGED outcome
                 \/ outcome' = "broken" /\ UNCHANGED dirs
              /\ todo' = todo \ {d}
              /\ UNCHANGED <<pc, undo>>
       \/ todo = {} /\ Ends(IF outcome = "none" THEN "failed" ELSE outcome) /\ UNCHANGED dirs
    /\ UNCHANGED <<files, run, at, before, touched>>

\* KeyboardInterrupt is no Exception, and a killed process runs nothing: no
\* rollback, and the file being written may be torn.
Interrupted ==
    /\ pc # "idle"
    /\ \/ UNCHANGED files
       \/ pc = "write" /\ \E f \in at : files' = [files EXCEPT ![f] = "torn"]
       \/ pc = "restore" /\ \E f \in First(todo) : files' = [files EXCEPT ![f] = "torn"]
    /\ Ends("interrupted")
    /\ UNCHANGED <<dirs, run, at, before, touched>>

-----------------------------------------------------------------------------
\* Another program writes a file, with the directories it needs.
OtherWrites(f) ==
    /\ files' = [files EXCEPT ![f] = "user"]
    /\ dirs' = dirs \cup Above[f]
    /\ touched' = touched \cup {f}
    /\ UNCHANGED <<pc, run, undo, todo, at, outcome, before>>

\* What goes on once a call has begun, and beside it.
Goes ==
    \/ ReadOriginals
    \/ \E f \in File : MakeParents(f) \/ WriteFile(f)
    \/ Restore \/ Unlink \/ RemoveDirs
    \/ Interrupted
    \/ \E f \in Others : OtherWrites(f)

Next == (\E p \in Plan, forced \in BOOLEAN : Preflight(p, forced)) \/ Goes

Spec == Init /\ [][Next]_vars

-----------------------------------------------------------------------------
(* Properties.                                                             *)

\* The types of the state; a run records as created only what it could have
\* created, and the directories of a file are there as long as it is
\* (write_render_plan).
TypeOK ==
    /\ files \in [File -> Content \cup {Missing}]
    /\ dirs \subseteq Dir
    /\ pc \in {"idle", "read", "mkdir", "write", "restore", "unlink", "rmdir"}
    /\ plan \subseteq File /\ force \in BOOLEAN
    /\ originals \in [File -> Content \cup {Missing}]
    /\ todo \subseteq File \cup Dir
    /\ at \subseteq File
    /\ createdFiles \subseteq File /\ createdDirs \subseteq Dir
    /\ outcome \in {"none", "conflict", "done", "failed", "broken", "interrupted"}
    /\ before \in [files : [File -> Content \cup {Missing}], dirs : SUBSET Dir]
    /\ touched \subseteq File
    /\ Tree(files, dirs)

\* A call that returns wrote the whole plan and nothing else; one that raises
\* leaves every file as it was before the call, unless the rollback itself
\* met an error or others wrote the file meanwhile, and of new directories
\* only those of a mkdir that failed halfway or those others use.
AllOrNothing ==
    pc = "idle" =>
        /\ outcome = "done" =>
               \A f \in File \ touched :
                   files[f] = IF f \in plan THEN "template" ELSE before.files[f]
        /\ outcome \in {"conflict", "failed"} =>
               /\ \A f \in File \ touched : files[f] = before.files[f]
               /\ before.dirs \subseteq dirs
               /\ dirs \subseteq before.dirs \cup UNION {Above[f] : f \in at \cup touched}

\* "Overwrite generated files" is --force: without it, whatever fails and
\* wherever the run is cut short, no file that was there when the call began
\* is written or removed by it.
UnforcedKeepsFiles ==
    ~force => \A f \in Existing(before.files) \ touched : files[f] = before.files[f]

\* Even a rollback that fails, or a forced run, removes no file that was there
\* when the call began.
RemovesOnlyItsOwn ==
    [][\A f \in Existing(before.files) \cap Existing(files) : files'[f] # Missing]_vars
=============================================================================
