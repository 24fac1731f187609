--------------------------- MODULE Scaffold_proofs ---------------------------
(* Proofs of RenderPlan's safety for any tree of files and any plans, and *)
(* of what it means for every sequence of commands of `zodiac new` and     *)
(* `zodiac add`, whatever the templates are.                               *)
EXTENDS Scaffold, TLAPS

-----------------------------------------------------------------------------
(* One call of write_render_plan.                                          *)

Forward == {"read", "mkdir", "write"}
Working == Forward \cup {"restore", "unlink"}

\* What a call keeps for its rollback is about its own plan, and a file that
\* counts as created was not there when the originals were read.
Keeps ==
    /\ createdFiles \subseteq plan
    /\ Existing(originals) \subseteq plan
    /\ createdFiles \cap Existing(originals) = {}
    /\ pc \in {"idle", "read"} => createdFiles = {} /\ createdDirs = {}
    /\ pc \in {"mkdir", "write"} => todo \subseteq plan
    /\ pc = "write" => at \subseteq todo
    /\ pc = "restore" => todo \subseteq Existing(originals)
    /\ pc = "unlink" => todo \subseteq createdFiles
    /\ pc = "rmdir" => todo \subseteq createdDirs

\* What is about to be written, and the originals that are to be restored,
\* have their directories: none is removed before the files are back.
Rooted ==
    /\ pc = "write" => \A f \in at : Above[f] \subseteq dirs
    /\ pc \in {"mkdir", "write", "restore"} =>
           \A f \in Existing(originals) : Above[f] \subseteq dirs

\* Nothing that was there before goes missing: its original is kept from the
\* moment the originals are read on.
Remembers ==
    /\ pc = "read" => Existing(before.files) \subseteq Existing(files)
    /\ pc \in {"mkdir", "write", "restore", "unlink"} =>
           plan \cap Existing(before.files) \subseteq Existing(originals)

\* A call without --force has nothing in its plan that was there before.
Unforced == ~force /\ pc # "idle" => plan \cap Existing(before.files) = {}

\* The call and its rollback write no file but those of the plan.
StaysInPlan == \A f \in File \ (plan \cup touched) : files[f] = before.files[f]

Basics ==
    /\ TypeOK /\ Keeps /\ Rooted /\ Remembers
    /\ Unforced /\ UnforcedKeepsFiles /\ StaysInPlan

-----------------------------------------------------------------------------
USE PathsAssumption, PlansAssumption, OthersAssumption

LEMMA InitBasics == Init => Basics
  <1> SUFFICES ASSUME Init
               PROVE  Basics
    OBVIOUS
  <1> USE DEF Init, NoFiles, Existing
  <1>1. files \in [File -> Content \cup {Missing}]
    BY DEF Content
  <1>2. TypeOK
    BY <1>1 DEF TypeOK
  <1>3. Keeps /\ Rooted /\ Remembers
    BY DEF Keeps, Rooted, Remembers
  <1>4. Unforced /\ UnforcedKeepsFiles /\ StaysInPlan
    BY DEF Unforced, UnforcedKeepsFiles, StaysInPlan
  <1> QED
    BY <1>2, <1>3, <1>4 DEF Basics

LEMMA PreflightBasics ==
    ASSUME Basics, NEW p \in SUBSET File, NEW forced \in BOOLEAN, Preflight(p, forced)
    PROVE  Basics'
  <1> USE DEF Basics, Preflight, Ends, tree, Missing
  <1>1. TypeOK'
    BY DEF TypeOK, Tree, Existing, NoFiles, Content
  <1>2. Keeps' /\ Rooted'
    BY DEF TypeOK, Keeps, Rooted, Existing, NoFiles
  <1>3. Remembers' /\ Unforced' /\ UnforcedKeepsFiles' /\ StaysInPlan'
    BY DEF TypeOK, Remembers, Unforced, UnforcedKeepsFiles, StaysInPlan, Existing
  <1> QED
    BY <1>1, <1>2, <1>3

LEMMA ReadOriginalsBasics ==
    ASSUME Basics, ReadOriginals
    PROVE  Basics'
  <1> USE DEF Basics, ReadOriginals, Ends, tree, run, Missing
  <1>1. TypeOK'
    BY DEF TypeOK, Tree, Existing, NoFiles, Content
  <1>2. Keeps' /\ Rooted'
    BY DEF TypeOK, Keeps, Rooted, Existing, NoFiles, Tree
  <1>3. Remembers' /\ Unforced' /\ UnforcedKeepsFiles' /\ StaysInPlan'
    BY DEF TypeOK, Remembers, Unforced, UnforcedKeepsFiles, StaysInPlan, Existing
  <1> QED
    BY <1>1, <1>2, <1>3

LEMMA MakeParentsBasics ==
    ASSUME Basics, NEW f \in File, MakeParents(f)
    PROVE  Basics'
  <1> USE DEF Basics, MakeParents, Missed, Rollback, run, Missing
  <1>0. f \in todo
    BY DEF First
  <1>1. TypeOK'
    BY <1>0 DEF TypeOK, Tree, Existing, Content
  <1>2. Keeps' /\ Rooted'
    BY <1>0 DEF TypeOK, Keeps, Rooted, Existing
  <1>3. Remembers' /\ Unforced' /\ UnforcedKeepsFiles' /\ StaysInPlan'
    BY DEF TypeOK, Remembers, Unforced, UnforcedKeepsFiles, StaysInPlan, Existing
  <1> QED
    BY <1>1, <1>2, <1>3

LEMMA WriteFileBasics ==
    ASSUME Basics, NEW f \in File, WriteFile(f)
    PROVE  Basics'
  <1> USE DEF Basics, WriteFile, Writes, WithCreated, Rollback, Ends, run, Missing
  <1>1. TypeOK'
    BY DEF TypeOK, Rooted, Tree, Existing, NoFiles, Content
  <1>2. Keeps' /\ Rooted'
    BY DEF TypeOK, Keeps, Rooted, Existing, NoFiles
  <1>3. Remembers' /\ Unforced' /\ UnforcedKeepsFiles' /\ StaysInPlan'
    BY DEF TypeOK, Keeps, Remembers, Unforced, UnforcedKeepsFiles, StaysInPlan, Existing
  <1> QED
    BY <1>1, <1>2, <1>3

LEMMA RestoreBasics ==
    ASSUME Basics, Restore
    PROVE  Basics'
  <1> USE DEF Basics, Restore, RollbackFails, Ends, First, run, undo, Missing
  <1>1. TypeOK'
    BY DEF TypeOK, Keeps, Rooted, Tree, Existing, NoFiles, Content
  <1>2. Keeps' /\ Rooted'
    BY DEF TypeOK, Keeps, Rooted, Existing, NoFiles
  <1>3. Remembers' /\ Unforced' /\ UnforcedKeepsFiles' /\ StaysInPlan'
    BY DEF TypeOK, Keeps, Remembers, Unforced, UnforcedKeepsFiles, StaysInPlan, Existing
  <1> QED
    BY <1>1, <1>2, <1>3

LEMMA UnlinkBasics ==
    ASSUME Basics, Unlink
    PROVE  Basics'
  <1> USE DEF Basics, Unlink, RollbackFails, Ends, Last, run, undo, Missing
  <1>1. TypeOK'
    BY DEF TypeOK, Keeps, Tree, Existing, NoFiles, Content
  <1>2. Keeps' /\ Rooted'
    BY DEF TypeOK, Keeps, Rooted, Existing, NoFiles
  <1>3. Remembers' /\ Unforced' /\ UnforcedKeepsFiles' /\ StaysInPlan'
    BY DEF TypeOK, Keeps, Remembers, Unforced, UnforcedKeepsFiles, StaysInPlan, Existing
  <1> QED
    BY <1>1, <1>2, <1>3

LEMMA RemoveDirsBasics ==
    ASSUME Basics, RemoveDirs
    PROVE  Basics'
  <1> USE DEF Basics, RemoveDirs, Ends, run, undo, Missing
  <1>1. TypeOK'
    BY DEF TypeOK, Keeps, Tree, Occupied, Existing, NoFiles, Content
  <1>2. Keeps' /\ Rooted'
    BY DEF TypeOK, Keeps, Rooted, Existing, NoFiles
  <1>3. Remembers' /\ Unforced' /\ UnforcedKeepsFiles' /\ StaysInPlan'
    BY DEF TypeOK, Keeps, Remembers, Unforced, UnforcedKeepsFiles, StaysInPlan, Existing
  <1> QED
    BY <1>1, <1>2, <1>3

LEMMA InterruptedBasics ==
    ASSUME Basics, Interrupted
    PROVE  Basics'
  <1> USE DEF Basics, Interrupted, Ends, First, run, Missing
  <1>1. TypeOK'
    BY DEF TypeOK, Keeps, Rooted, Tree, Existing, NoFiles, Content
  <1>2. Keeps' /\ Rooted'
    BY DEF TypeOK, Keeps, Rooted, Existing, NoFiles
  <1>3. Remembers' /\ Unforced' /\ UnforcedKeepsFiles' /\ StaysInPlan'
    BY DEF TypeOK, Keeps, Remembers, Unforced, UnforcedKeepsFiles, StaysInPlan, Existing
  <1> QED
    BY <1>1, <1>2, <1>3

LEMMA OtherWritesBasics ==
    ASSUME Basics, NEW f \in Others, OtherWrites(f)
    PROVE  Basics'
  <1> USE DEF Basics, OtherWrites, run, undo, Missing
  <1>1. TypeOK'
    BY DEF TypeOK, Tree, Existing, Content
  <1>2. Keeps' /\ Rooted'
    BY DEF TypeOK, Keeps, Rooted, Existing
  <1>3. Remembers' /\ Unforced' /\ UnforcedKeepsFiles' /\ StaysInPlan'
    BY DEF TypeOK, Keeps, Remembers, Unforced, UnforcedKeepsFiles, StaysInPlan, Existing
  <1> QED
    BY <1>1, <1>2, <1>3

LEMMA StutterBasics == Basics /\ UNCHANGED vars => Basics'
  BY DEF Basics, TypeOK, Keeps, Rooted, Remembers, Unforced, UnforcedKeepsFiles, StaysInPlan, Existing,
         Tree, vars, tree, run, undo

LEMMA GoesBasics == Basics /\ Goes => Basics'
  BY ReadOriginalsBasics, MakeParentsBasics, WriteFileBasics, RestoreBasics, UnlinkBasics,
     RemoveDirsBasics, InterruptedBasics, OtherWritesBasics DEF Goes

-----------------------------------------------------------------------------
(* All or nothing.                                                         *)

\* The files the call answers for, and those of them that are as it found them.
Own == File \ touched
Same == {f \in Own : files[f] = before.files[f]}

\* How far the call has got: forward, what it is done with is written and its
\* original kept; back, what is not as it was is still to be restored, or to
\* be removed.
Progress ==
    /\ pc = "read" => Own \subseteq Same
    /\ pc \in {"mkdir", "write"} =>
           /\ \A f \in Own : IF f \in plan \ todo THEN files[f] = "template" ELSE f \in Same
           /\ (plan \ todo) \ Existing(originals) \subseteq createdFiles \cup touched
    /\ pc \in {"mkdir", "write", "restore", "unlink"} =>
           \A f \in plan \cap Own : originals[f] = before.files[f]
    /\ pc = "restore" => Own \subseteq Same \cup todo \cup createdFiles
    /\ pc = "unlink" => Own \subseteq Same \cup todo
    /\ pc = "rmdir" => Own \subseteq Same

\* Where directories may be that the call does not record as its own.
Foreign == before.dirs \cup UNION {Above[f] : f \in touched}
Unrecorded == Foreign \cup UNION {Above[f] : f \in at}

\* Of the directories there are now, the call records those it made, but for
\* the mkdir that failed, and it made none of those that were there before.
Records ==
    /\ Tree(before.files, before.dirs)
    /\ pc \in Working => outcome = "none"
    /\ pc = "rmdir" => outcome \in {"none", "broken"}
    /\ pc # "idle" => before.dirs \subseteq dirs /\ createdDirs \cap before.dirs = {}
    /\ pc \in Forward => dirs \subseteq Foreign \cup createdDirs
    /\ pc \in {"restore", "unlink"} => dirs \subseteq Unrecorded \cup createdDirs
    /\ pc = "rmdir" /\ outcome = "none" => dirs \subseteq Unrecorded \cup todo

Whole == Progress /\ Records /\ AllOrNothing

IInv == Basics /\ Whole

LEMMA PreflightWhole ==
    ASSUME IInv, NEW p \in SUBSET File, NEW forced \in BOOLEAN, Preflight(p, forced)
    PROVE  Whole'
  <1> USE DEF Preflight, Ends, run, undo, tree, Missing
  <1>1. Progress'
    BY DEF IInv, Whole, Basics, TypeOK, Keeps, Progress, Own, Same, Existing, NoFiles
  <1>2. Records'
    BY DEF IInv, Whole, Basics, TypeOK, Keeps, Records, Working, Forward, Foreign, Unrecorded, Tree,
           Existing
  <1>3. AllOrNothing'
    BY DEF IInv, Whole, Basics, TypeOK, Keeps, Progress, Records, AllOrNothing, Own, Same, Forward,
           Working, Foreign, Unrecorded
  <1> QED
    BY <1>1, <1>2, <1>3 DEF Whole

LEMMA ReadOriginalsWhole ==
    ASSUME IInv, ReadOriginals
    PROVE  Whole'
  <1> USE DEF ReadOriginals, Ends, run, undo, tree, Missing
  <1>1. Progress'
    BY DEF IInv, Whole, Basics, TypeOK, Keeps, Progress, Own, Same, Existing, NoFiles
  <1>2. Records'
    BY DEF IInv, Whole, Basics, TypeOK, Keeps, Records, Working, Forward, Foreign, Unrecorded, Tree,
           Existing
  <1>3. AllOrNothing'
    BY DEF IInv, Whole, Basics, TypeOK, Keeps, Progress, Records, AllOrNothing, Own, Same, Forward,
           Working, Foreign, Unrecorded
  <1> QED
    BY <1>1, <1>2, <1>3 DEF Whole

LEMMA MakeParentsWhole ==
    ASSUME IInv, NEW f \in File, MakeParents(f)
    PROVE  Whole'
  <1> USE DEF MakeParents, Missed, Rollback, First, run, undo, tree, Missing
  <1>1. Progress'
    BY DEF IInv, Whole, Basics, TypeOK, Keeps, Progress, Own, Same, Existing, NoFiles
  <1>2. Records'
    BY DEF IInv, Whole, Basics, TypeOK, Keeps, Records, Working, Forward, Foreign, Unrecorded, Tree,
           Existing
  <1>3. AllOrNothing'
    BY DEF IInv, Whole, Basics, TypeOK, Keeps, Progress, Records, AllOrNothing, Own, Same, Forward,
           Working, Foreign, Unrecorded
  <1> QED
    BY <1>1, <1>2, <1>3 DEF Whole

LEMMA WriteFileWhole ==
    ASSUME IInv, NEW f \in File, WriteFile(f)
    PROVE  Whole'
  <1> USE DEF WriteFile, Writes, WithCreated, Rollback, Ends, run, undo, tree, Missing
  <1>1. Progress'
    BY DEF IInv, Whole, Basics, TypeOK, Keeps, Progress, Own, Same, Existing, NoFiles
  <1>2. Records'
    BY DEF IInv, Whole, Basics, TypeOK, Keeps, Records, Working, Forward, Foreign, Unrecorded, Tree,
           Existing
  <1>3. AllOrNothing'
    BY DEF IInv, Whole, Basics, TypeOK, Keeps, Progress, Records, AllOrNothing, Own, Same, Forward,
           Working, Foreign, Unrecorded
  <1> QED
    BY <1>1, <1>2, <1>3 DEF Whole

LEMMA RestoreWhole ==
    ASSUME IInv, Restore
    PROVE  Whole'
  <1> USE DEF Restore, RollbackFails, Ends, First, run, undo, tree, Missing
  <1>1. Progress'
    BY DEF IInv, Whole, Basics, TypeOK, Keeps, Progress, Own, Same, Existing, NoFiles
  <1>2. Records'
    BY DEF IInv, Whole, Basics, TypeOK, Keeps, Records, Working, Forward, Foreign, Unrecorded, Tree,
           Existing
  <1>3. AllOrNothing'
    BY DEF IInv, Whole, Basics, TypeOK, Keeps, Progress, Records, AllOrNothing, Own, Same, Forward,
           Working, Foreign, Unrecorded
  <1> QED
    BY <1>1, <1>2, <1>3 DEF Whole

LEMMA UnlinkWhole ==
    ASSUME IInv, Unlink
    PROVE  Whole'
  <1> USE DEF Unlink, RollbackFails, Ends, Last, run, undo, tree, Missing
  <1>1. Progress'
    BY DEF IInv, Whole, Basics, TypeOK, Keeps, Progress, Own, Same, Existing, NoFiles
  <1>2. Records'
    BY DEF IInv, Whole, Basics, TypeOK, Keeps, Records, Working, Forward, Foreign, Unrecorded, Tree,
           Existing
  <1>3. AllOrNothing'
    BY DEF IInv, Whole, Basics, TypeOK, Keeps, Progress, Records, AllOrNothing, Own, Same, Forward,
           Working, Foreign, Unrecorded
  <1> QED
    BY <1>1, <1>2, <1>3 DEF Whole

\* A directory that is occupied though no recorded one is left below it was
\* there before, or is one the call does not record.
LEMMA OccupiedIsUnrecorded ==
    ASSUME IInv, pc = "rmdir", outcome = "none", NEW d \in todo, Occupied(d),
           \A e \in todo : d \notin Above[e]
    PROVE  d \in Unrecorded
  <1> USE DEF IInv, Whole, Basics, TypeOK
  <1>1. PICK p \in Existing(files) \cup dirs : d \in Above[p]
    BY DEF Occupied
  <1>2. CASE p \in Existing(files) \ touched
    <2>1. p \in Existing(before.files)
      BY <1>2 DEF Progress, Own, Same, Existing
    <2> QED
      BY <1>1, <2>1 DEF Records, Tree, Unrecorded, Foreign
  <1>3. CASE p \in Existing(files) \cap touched
    BY <1>1, <1>3 DEF Unrecorded, Foreign
  <1>4. CASE p \in dirs
    <2>1. p \in before.dirs \/ \E f \in touched \cup at : p \in Above[f]
      BY <1>1, <1>4 DEF Records, Unrecorded, Foreign
    <2>2. CASE p \in before.dirs
      BY <1>1, <2>2 DEF Records, Tree, Unrecorded, Foreign
    <2>3. ASSUME NEW f \in touched \cup at, p \in Above[f]
          PROVE  d \in Unrecorded
      <3>1. d \in Above[f]
        BY <1>1, <2>3
      <3> QED
        BY <3>1 DEF Unrecorded, Foreign
    <2> QED
      BY <2>1, <2>2, <2>3
  <1> QED
    BY <1>1, <1>2, <1>3, <1>4

LEMMA RemoveDirsWhole ==
    ASSUME IInv, RemoveDirs
    PROVE  Whole'
  <1> USE DEF RemoveDirs, Ends, run, undo
  <1>1. Progress'
    BY DEF IInv, Whole, Progress, Own, Same
  <1>2. Records'
    <2>1. ASSUME NEW d \in todo, \A e \in todo : d \notin Above[e], outcome' = "none",
                 dirs' = IF Occupied(d) THEN dirs ELSE dirs \ {d},
                 outcome = "none", todo' = todo \ {d}
          PROVE  dirs' \subseteq Unrecorded \cup todo'
      <3>1. Occupied(d) => d \in Unrecorded
        BY <2>1, OccupiedIsUnrecorded
      <3> QED
        BY <2>1, <3>1 DEF IInv, Whole, Records
    <2>2. UNCHANGED Unrecorded
      BY DEF Unrecorded, Foreign
    <2>3. pc' = "rmdir" /\ outcome' = "none" => dirs' \subseteq Unrecorded' \cup todo'
      BY <2>1, <2>2 DEF IInv, Whole, Records
    <2>4. pc' # "idle" => before'.dirs \subseteq dirs' /\ createdDirs' \cap before'.dirs = {}
      BY DEF IInv, Whole, Basics, Keeps, Records
    <2> QED
      BY <2>3, <2>4 DEF IInv, Whole, Records, Working, Forward
  <1>3. AllOrNothing'
    BY DEF IInv, Whole, Progress, Records, AllOrNothing, Own, Same, Foreign, Unrecorded
  <1> QED
    BY <1>1, <1>2, <1>3 DEF Whole

LEMMA InterruptedWhole ==
    ASSUME IInv, Interrupted
    PROVE  Whole'
  <1> USE DEF Interrupted, Ends, First, run, undo, tree, Missing
  <1>1. Progress'
    BY DEF IInv, Whole, Basics, TypeOK, Keeps, Progress, Own, Same, Existing, NoFiles
  <1>2. Records'
    BY DEF IInv, Whole, Basics, TypeOK, Keeps, Records, Working, Forward, Foreign, Unrecorded, Tree,
           Existing
  <1>3. AllOrNothing'
    BY DEF IInv, Whole, Basics, TypeOK, Keeps, Progress, Records, AllOrNothing, Own, Same, Forward,
           Working, Foreign, Unrecorded
  <1> QED
    BY <1>1, <1>2, <1>3 DEF Whole

LEMMA OtherWritesWhole ==
    ASSUME IInv, NEW f \in Others, OtherWrites(f)
    PROVE  Whole'
  <1> USE DEF OtherWrites, run, undo, tree, Missing
  <1>1. Progress'
    BY DEF IInv, Whole, Basics, TypeOK, Keeps, Progress, Own, Same, Existing, NoFiles
  <1>2. Records'
    BY DEF IInv, Whole, Basics, TypeOK, Keeps, Records, Working, Forward, Foreign, Unrecorded, Tree,
           Existing
  <1>3. AllOrNothing'
    BY DEF IInv, Whole, Basics, TypeOK, Keeps, Progress, Records, AllOrNothing, Own, Same, Forward,
           Working, Foreign, Unrecorded
  <1> QED
    BY <1>1, <1>2, <1>3 DEF Whole

LEMMA StutterWhole == IInv /\ UNCHANGED vars => Whole'
  BY DEF IInv, Whole, Progress, Records, AllOrNothing, Own, Same, Existing, Foreign, Unrecorded,
         Tree, vars, tree, run, undo

LEMMA GoesWhole == IInv /\ Goes => Whole'
  BY ReadOriginalsWhole, MakeParentsWhole, WriteFileWhole, RestoreWhole, UnlinkWhole,
     RemoveDirsWhole, InterruptedWhole, OtherWritesWhole DEF Goes

\* The invariant holds at first, and is kept by a call that begins, by what
\* goes on after it and beside it, and by whatever leaves the variables alone.
LEMMA InitIInv == Init => IInv
  <1> SUFFICES ASSUME Init
               PROVE  Whole
    BY InitBasics DEF IInv
  <1>1. Progress
    BY DEF Init, Progress
  <1>2. Records
    BY DEF Init, Records, Working, Forward, Tree, Existing
  <1>3. AllOrNothing
    BY DEF Init, AllOrNothing
  <1> QED
    BY <1>1, <1>2, <1>3 DEF Whole

LEMMA PreflightIInv ==
    ASSUME IInv, NEW p \in SUBSET File, NEW forced \in BOOLEAN, Preflight(p, forced)
    PROVE  IInv'
  BY PreflightBasics, PreflightWhole DEF IInv

LEMMA GoesIInv == IInv /\ (Goes \/ UNCHANGED vars) => IInv'
  BY GoesBasics, GoesWhole, StutterBasics, StutterWhole DEF IInv

LEMMA Inductive == Spec => []IInv
  <1>1. IInv /\ [Next]_vars => IInv'
    BY PreflightIInv, GoesIInv DEF Next
  <1> QED
    BY <1>1, InitIInv, PTL DEF Spec

-----------------------------------------------------------------------------
(* The theorems.                                                           *)

\* A call that begins writes nothing yet.
LEMMA PreflightKeepsFiles ==
    ASSUME NEW p, NEW forced, Preflight(p, forced)
    PROVE  files' = files
  BY DEF Preflight, tree

\* Only the rollback removes files, and only those that count as created: no
\* step makes a file go that was there before.
LEMMA GoesRemovesOnlyItsOwn ==
    ASSUME IInv, Goes
    PROVE  \A f \in Existing(before.files) \cap Existing(files) : files'[f] # Missing
  <1> SUFFICES ASSUME NEW f \in Existing(before.files) \cap Existing(files)
               PROVE  files'[f] # Missing
    OBVIOUS
  <1> USE DEF IInv, Basics, TypeOK, Existing, Content, Missing
  <1>1. CASE Unlink
    BY <1>1 DEF Unlink, Last, Keeps, Remembers
  <1>2. CASE Restore
    BY <1>2 DEF Restore, First, Keeps
  <1>3. CASE \E g \in File : MakeParents(g) \/ WriteFile(g)
    BY <1>3 DEF MakeParents, WriteFile, Writes
  <1>4. CASE ReadOriginals \/ RemoveDirs \/ Interrupted
    BY <1>4 DEF ReadOriginals, RemoveDirs, Interrupted, tree
  <1>5. CASE \E g \in Others : OtherWrites(g)
    BY <1>5 DEF OtherWrites
  <1> QED
    BY <1>1, <1>2, <1>3, <1>4, <1>5 DEF Goes

\* The types of write_render_plan's state, for every tree and every plan.
THEOREM TypeCorrect == Spec => []TypeOK
  <1>1. IInv => TypeOK
    BY DEF IInv, Basics
  <1> QED
    BY <1>1, Inductive, PTL

\* write_render_plan writes its whole plan, or leaves the tree as it found it.
THEOREM WholeOrNothing == Spec => []AllOrNothing
  <1>1. IInv => AllOrNothing
    BY DEF IInv, Whole
  <1> QED
    BY <1>1, Inductive, PTL

\* Without --force no file that was there is changed, whatever fails.
THEOREM UnforcedIsSafe == Spec => []UnforcedKeepsFiles
  <1>1. IInv => UnforcedKeepsFiles
    BY DEF IInv, Basics
  <1> QED
    BY <1>1, Inductive, PTL

\* The rollback unlinks no file that was there when the call began.
THEOREM OwnFilesRemoved == Spec => RemovesOnlyItsOwn
  <1>1. IInv /\ [Next]_vars =>
            [\A f \in Existing(before.files) \cap Existing(files) : files'[f] # Missing]_vars
    BY GoesRemovesOnlyItsOwn, PreflightKeepsFiles DEF Next, Existing
  <1> QED
    BY <1>1, Inductive, PTL DEF Spec, RemovesOnlyItsOwn

-----------------------------------------------------------------------------
(* Sequences of commands.                                                  *)

HIDE PathsAssumption
HIDE PlansAssumption
HIDE OthersAssumption
USE TemplatesAssumption

\* Each command hands a plan of files to write_render_plan.
LEMMA CommandIInv ==
    ASSUME IInv, NEW package \in Package, NEW forced \in BOOLEAN,
           \/ New(package, forced)
           \/ \E service \in Service : AddSubApp(package, service, forced)
    PROVE  IInv' /\ files' = files
  <1>1. PICK p \in SUBSET File : Preflight(p, forced)
    <2>1. BasePlan(package) \cup UNION {SubAppPlan(package, s) : s \in Bundled} \in SUBSET File
      OBVIOUS
    <2>2. \A s \in Service : SubAppPlan(package, s) \in SUBSET File
      OBVIOUS
    <2> QED
      BY <2>1, <2>2 DEF New, NewPlan, AddSubApp
  <1> QED
    BY <1>1, PreflightIInv, PreflightKeepsFiles

LEMMA ScaffoldInductive == ScaffoldSpec => []IInv
  <1>1. ScaffoldInit => IInv
    BY InitIInv DEF ScaffoldInit
  <1>2. IInv /\ [ScaffoldNext]_scaffoldVars => IInv'
    BY CommandIInv, GoesIInv DEF ScaffoldNext, scaffoldVars
  <1> QED
    BY <1>1, <1>2, PTL DEF ScaffoldSpec

\* What the two commands do to the tree is what write_render_plan does, called
\* with one plan after the other: every behaviour of theirs is one of RenderPlan.
THEOREM CommandsAreRuns == ScaffoldSpec => Spec
  <1>1. ScaffoldInit => Init
    BY DEF ScaffoldInit
  <1>2. [ScaffoldNext]_scaffoldVars => [Next]_vars
    <2>1. ASSUME NEW package \in Package, NEW forced \in BOOLEAN, New(package, forced)
          PROVE  Next
      BY <2>1, CommandsAssumption DEF New, Next
    <2>2. ASSUME NEW package \in Package, NEW forced \in BOOLEAN, NEW service \in Service,
                 AddSubApp(package, service, forced)
          PROVE  Next
      BY <2>2, CommandsAssumption DEF AddSubApp, Next
    <2>3. Goes => Next
      BY DEF Next
    <2> QED
      BY <2>1, <2>2, <2>3 DEF ScaffoldNext, scaffoldVars
  <1> QED
    BY <1>1, <1>2, PTL DEF ScaffoldSpec, Spec

\* Every command writes the whole of its plan, or none of it.
THEOREM CommandsWholeOrNothing == ScaffoldSpec => []AllOrNothing
  <1>1. IInv => AllOrNothing
    BY DEF IInv, Whole
  <1> QED
    BY <1>1, ScaffoldInductive, PTL

\* A command without --force changes no file it finds.
THEOREM CommandsUnforcedAreSafe == ScaffoldSpec => []UnforcedKeepsFiles
  <1>1. IInv => UnforcedKeepsFiles
    BY DEF IInv, Basics
  <1> QED
    BY <1>1, ScaffoldInductive, PTL

\* No command removes a file it found.
THEOREM CommandsRemoveOwnFiles == ScaffoldSpec => RemovesOnlyItsOwn
  <1>1. IInv /\ [ScaffoldNext]_scaffoldVars =>
            [\A f \in Existing(before.files) \cap Existing(files) : files'[f] # Missing]_vars
    BY CommandIInv, GoesRemovesOnlyItsOwn DEF ScaffoldNext, scaffoldVars, Existing
  <1> QED
    BY <1>1, ScaffoldInductive, PTL DEF ScaffoldSpec, RemovesOnlyItsOwn

-----------------------------------------------------------------------------
(* `zodiac add` leaves the project's files alone.                          *)

\* A path below a service that may be added is none of the project's.
LEMMA PlansApart ==
    ASSUME NEW package \in Package, NEW other \in Package, NEW service \in Service,
           ServiceAccepted(service)
    PROVE  SubAppPlan(package, service) \cap BasePlan(other) = {}
  <1> SUFFICES ASSUME NEW p \in SubAppTemplate, NEW q \in BaseTemplate,
                      RenderPath(p, package, service) = RenderPath(q, other, "")
               PROVE  FALSE
    BY DEF SubAppPlan, BasePlan
  <1>1. 2 \in DOMAIN p /\ p[2] = "sub_app"
    OBVIOUS
  <1>2. RenderPath(p, package, service)[2] = service
    BY <1>1 DEF RenderPath
  <1>3. 2 \in DOMAIN q
    BY <1>1 DEF RenderPath
  <1>4. RenderPath(q, other, "")[2] = q[2]
    BY <1>3 DEF RenderPath
  <1> QED
    BY <1>2, <1>3, <1>4 DEF ServiceAccepted, ReservedSubAppNames

AddedPlan ==
    command = "add" =>
        \E package \in Package, service \in Service :
            ServiceAccepted(service) /\ plan = SubAppPlan(package, service)

\* Adding a sub-application touches none of the files of `zodiac new`.
THEOREM AddIsApart == ScaffoldSpec => []AddLeavesProject
  <1>1. ScaffoldInit => AddedPlan
    BY DEF ScaffoldInit, AddedPlan
  <1>2. AddedPlan /\ [ScaffoldNext]_scaffoldVars => AddedPlan'
    <2> SUFFICES ASSUME AddedPlan, [ScaffoldNext]_scaffoldVars
                 PROVE  AddedPlan'
      OBVIOUS
    <2>1. CASE \E package \in Package, forced \in BOOLEAN : New(package, forced)
      BY <2>1 DEF New, AddedPlan
    <2>2. CASE \E package \in Package, forced \in BOOLEAN, service \in Service :
                   AddSubApp(package, service, forced)
      BY <2>2 DEF AddSubApp, Preflight, AddedPlan
    <2>3. CASE Goes /\ UNCHANGED command
      <3>1. UNCHANGED plan
        BY <2>3 DEF Goes, ReadOriginals, MakeParents, WriteFile, Writes, Restore, Unlink,
               RemoveDirs, Interrupted, OtherWrites, run
      <3> QED
        BY <2>3, <3>1 DEF AddedPlan
    <2>4. CASE UNCHANGED scaffoldVars
      BY <2>4 DEF scaffoldVars, vars, run, AddedPlan
    <2> QED
      BY <2>1, <2>2, <2>3, <2>4 DEF ScaffoldNext
  <1>3. IInv /\ AddedPlan => AddLeavesProject
    <2> SUFFICES ASSUME IInv, AddedPlan, command = "add",
                        NEW package \in Package, NEW f \in BasePlan(package) \ touched
                 PROVE  files[f] = before.files[f]
      BY DEF AddLeavesProject
    <2>1. f \notin plan
      BY PlansApart DEF AddedPlan
    <2>2. f \in File
      OBVIOUS
    <2> QED
      BY <2>1, <2>2 DEF IInv, Basics, StaysInPlan
  <1> QED
    BY <1>1, <1>2, <1>3, ScaffoldInductive, PTL DEF ScaffoldSpec
=============================================================================
