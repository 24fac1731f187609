----------------------------- MODULE SkillLinks -----------------------------
(***************************************************************************)
(* `zodiac skills install` and `uninstall`: links from the skill directory *)
(* of each agent to the skills of the installed package, and the patterns  *)
(* in .gitignore that keep the links out of the repository.                *)
(*                                                                         *)
(* Every change of the file system is a step that may fail, and the        *)
(* process may be killed between two of them.  Runs follow one another     *)
(* while the package is upgraded in between; users put directories of      *)
(* their own at a destination at any time.                                 *)
(***************************************************************************)
EXTENDS FiniteSets

CONSTANTS
    Agent,       \* those of AGENT_SKILL_DIRS
    Skill,       \* the skills any version of the package ships
    Header,      \* GITIGNORE_HEADER
    Own,         \* the agents in whose directory users keep other skills
    Platforms    \* whether os.name is "nt", FALSE or TRUE

ASSUME AgentAssumption == Agent # {}

ASSUME HeaderAssumption == Header \notin Agent

ASSUME OwnAssumption == Own \subseteq Agent

ASSUME PlatformsAssumption == Platforms \subseteq BOOLEAN

VARIABLES
    windows,    \* links are junctions, or symlinks when those fail
    entries,    \* what there is at each destination
    roots,      \* the agents whose skill directory exists
    gitignore,  \* the header and, by agent, the patterns in .gitignore
    packaged,   \* the skills of the installed package
    pc,         \* where the command is
    command,    \* what it was called with
    todo,       \* the destinations, or agents, its loop has left
    at,         \* the destination being linked
    outcome,    \* how the last command ended
    leftovers,  \* history: partial directories of runs that were killed or could
                \* not remove them
    copies,     \* history: user directories there since before the run began
    spoilt      \* history: agents whose last run broke off, or with a link
                \* to a skill the package has dropped

run == <<command, copies>>
destinations == <<entries, leftovers>>
vars == <<windows, destinations, roots, gitignore, packaged, pc, run, todo, at, outcome, spoilt>>

Destination == Agent \X Skill

\* To the current package, elsewhere, a user's, or left by a junction failure.
Entry == {"absent", "linked", "stale", "copied", "partial"}

IsLink(d) == entries[d] \in {"linked", "stale"}

Present(d) == entries[d] # "absent"

\* _copied_skill_paths.
Copied(ds) == {d \in ds : Present(d) /\ ~IsLink(d)}

Command == [install : BOOLEAN, agents : (SUBSET Agent) \ {{}}, force : BOOLEAN]

Init ==
    /\ entries = [d \in Destination |-> "absent"]
    /\ leftovers = {}
    /\ roots = Own
    /\ gitignore = {}
    /\ windows \in Platforms
    /\ packaged = Skill
    /\ pc = "idle"
    /\ command = [install |-> TRUE, agents |-> Agent, force |-> FALSE]
    /\ todo = {} /\ at = {}
    /\ outcome = "none"
    /\ copies = {} /\ spoilt = {}

Selected == command.agents

Ends(how) ==
    /\ pc' = "idle" /\ todo' = {} /\ outcome' = how
    /\ spoilt' = IF how = "done"
                 THEN spoilt \ {a \in Selected : \A s \in Skill \ packaged : ~IsLink(<<a, s>>)}
                 ELSE spoilt \cup Selected

\* An OSError ends the command where it is.
Fails == Ends("failed")

-----------------------------------------------------------------------------
\* Mutant: refused only when every destination is a copy.
RefusedForAll(c, ds) == ~c.force /\ ds \subseteq Copied(ds)

Refused(c, ds) == ~c.force /\ Copied(ds) # {}

Begin(c) ==
    /\ pc = "idle"
    /\ command' = c
    /\ copies' = {d \in Destination : entries[d] = "copied"}
    /\ at' = {}
    /\ LET ds == c.agents \X packaged
       IN  IF Refused(c, ds) THEN outcome' = "refused" /\ UNCHANGED <<pc, todo>>
           ELSE pc' = "links" /\ todo' = ds /\ outcome' = "none"
    /\ UNCHANGED <<destinations, roots, gitignore, packaged, windows, spoilt>>

SetEntry(d, e) ==
    /\ entries' = [entries EXCEPT ![d] = e]
    /\ leftovers' = leftovers \ {d}

\* The command ends with what is at the destination it works on.
Leaves ==
    /\ leftovers' = leftovers \cup {d \in at : entries[d] = "partial"}
    /\ UNCHANGED <<entries, at>>

\* Mutant: any link counts as the link to the package.
AnyLink(d) == IsLink(d)

AlreadyLinked(d) == entries[d] = "linked"

Installing == command.install

\* Nothing to do at this destination.
SkipDestination(d) ==
    /\ pc = "links" /\ d \in todo
    /\ IF Installing THEN AlreadyLinked(d) ELSE ~Present(d)
    /\ todo' = todo \ {d}
    /\ UNCHANGED <<destinations, roots, gitignore, packaged, windows, pc, run, at, outcome, spoilt>>

\* _remove_destination; in an install the new link comes next.
Remove(d) ==
    /\ pc = "links" /\ d \in todo
    /\ Present(d) /\ ~(Installing /\ AlreadyLinked(d))
    /\ \/ /\ SetEntry(d, "absent")
          /\ IF Installing THEN pc' = "link" /\ at' = {d} /\ UNCHANGED todo
             ELSE todo' = todo \ {d} /\ UNCHANGED <<pc, at>>
          /\ UNCHANGED <<outcome, spoilt>>
       \/ Fails /\ UNCHANGED <<destinations, at>>
    /\ UNCHANGED <<roots, gitignore, packaged, windows, run>>

Linked(d) ==
    /\ SetEntry(d, "linked")
    /\ pc' = "links" /\ at' = {} /\ todo' = todo \ {d}
    /\ UNCHANGED <<outcome, spoilt>>

\* link_skill_directory makes the parents first.  A junction that fails may
\* leave a partial directory; so does one onto what a user put there.
Link(d) ==
    /\ \/ pc = "links" /\ d \in todo /\ Installing /\ ~Present(d)
       \/ pc = "link" /\ d \in at
    /\ \/ /\ roots' = roots \cup {d[1]}
          /\ \/ ~Present(d) /\ Linked(d)
             \/ /\ windows
                /\ pc' = "fallback" /\ at' = {d}
                /\ \/ UNCHANGED destinations
                   \/ ~Present(d) /\ SetEntry(d, "partial")
                /\ UNCHANGED <<todo, outcome, spoilt>>
             \/ ~windows /\ Fails /\ UNCHANGED <<destinations, at>>
       \/ Fails /\ UNCHANGED <<roots, destinations, at>>
    /\ UNCHANGED <<gitignore, packaged, windows, run>>

\* Mutant: the symlink is tried over what the junction left.
FallbackUncleared(d) ==
    /\ pc = "fallback" /\ d \in at
    /\ \/ ~Present(d) /\ Linked(d)
       \/ Fails /\ UNCHANGED <<destinations, at>>
    /\ UNCHANGED <<roots, gitignore, packaged, windows, run>>

\* What the junction left is cleared, whatever it is, and a symlink tried.  Both
\* may fail.
Fallback(d) ==
    /\ pc = "fallback" /\ d \in at
    /\ \/ Linked(d)
       \/ Fails /\ SetEntry(d, "absent") /\ UNCHANGED at
       \/ Fails /\ Present(d) /\ Leaves
    /\ UNCHANGED <<roots, gitignore, packaged, windows, run>>

\* The loop is over: an uninstall goes on to the directories.
LinksDone ==
    /\ pc = "links" /\ todo = {}
    /\ IF Installing THEN pc' = "ignore" /\ UNCHANGED todo
       ELSE pc' = "tidy" /\ todo' = Selected
    /\ UNCHANGED <<destinations, roots, gitignore, packaged, windows, run, at, outcome, spoilt>>

Occupied(a) == a \in Own \/ \E s \in Skill : Present(<<a, s>>)

\* Mutant: the directory goes with what else is in it.
TidyTree(a) ==
    /\ pc = "tidy" /\ a \in todo
    /\ roots' = roots \ {a} /\ todo' = todo \ {a}
    /\ UNCHANGED <<destinations, gitignore, packaged, windows, pc, run, at, outcome, spoilt>>

\* _rmdir_empty_parents.
Tidy(a) ==
    /\ pc = "tidy" /\ a \in todo
    /\ \/ /\ roots' = IF Occupied(a) THEN roots ELSE roots \ {a}
          /\ todo' = todo \ {a}
          /\ UNCHANGED <<pc, outcome, spoilt>>
       \/ Fails /\ UNCHANGED roots
    /\ UNCHANGED <<destinations, gitignore, packaged, windows, run, at>>

TidyDone ==
    /\ pc = "tidy" /\ todo = {}
    /\ pc' = "ignore"
    /\ UNCHANGED <<destinations, roots, gitignore, packaged, windows, run, todo, at, outcome, spoilt>>

\* Mutant: the header stands for all the patterns.
EnsuredByHeader == IF Header \in gitignore THEN gitignore ELSE gitignore \cup Selected \cup {Header}

\* ensure_gitignore.
Ensured == IF Selected \subseteq gitignore THEN gitignore ELSE gitignore \cup Selected \cup {Header}

\* prune_gitignore: the header goes with the last pattern.
Pruned ==
    LET kept == gitignore \ Selected
    IN  IF kept \cap Agent = {} THEN kept \ {Header} ELSE kept

\* The last step.  A write that fails may have emptied the file.
WriteGitignore ==
    /\ pc = "ignore"
    /\ \/ gitignore' = (IF Installing THEN Ensured ELSE Pruned) /\ Ends("done")
       \/ Fails /\ UNCHANGED gitignore
       \/ /\ gitignore' = {}
          /\ pc' = "idle" /\ outcome' = "failed" /\ UNCHANGED todo
          /\ spoilt' = Agent
    /\ UNCHANGED <<destinations, roots, packaged, windows, run, at>>

Killed ==
    /\ pc # "idle"
    /\ Ends("killed")
    /\ Leaves
    /\ UNCHANGED <<roots, gitignore, packaged, windows, run>>

-----------------------------------------------------------------------------
(* Around the commands.                                                    *)

\* Another version is installed, elsewhere or in the same place.
Upgrade(skills) ==
    /\ pc = "idle" /\ skills # packaged
    /\ packaged' = skills
    /\ \E moved \in BOOLEAN :
           entries' = [d \in Destination |->
                          IF entries[d] = "linked" /\ (moved \/ d[2] \notin skills)
                          THEN "stale" ELSE entries[d]]
    /\ UNCHANGED leftovers
    /\ spoilt' = spoilt \cup {a \in Agent : \E s \in Skill \ skills : IsLink(<<a, s>>)}
    /\ outcome' = "none"
    /\ UNCHANGED <<roots, gitignore, windows, pc, run, todo, at>>

\* A user copies a skill to a free destination.
Copy(d) ==
    /\ ~Present(d)
    /\ SetEntry(d, "copied")
    /\ roots' = roots \cup {d[1]}
    /\ outcome' = "none"
    /\ copies' = copies \ {d}
    /\ UNCHANGED <<gitignore, packaged, windows, pc, command, todo, at, spoilt>>

Next ==
    \/ \E c \in Command : Begin(c)
    \/ \E d \in Destination :
           SkipDestination(d) \/ Remove(d) \/ Link(d) \/ Fallback(d) \/ Copy(d)
    \/ \E a \in Agent : Tidy(a)
    \/ LinksDone \/ TidyDone \/ WriteGitignore \/ Killed
    \/ \E skills \in (SUBSET Skill) \ {{}} : Upgrade(skills)

Spec == Init /\ [][Next]_vars

-----------------------------------------------------------------------------
(* Properties.                                                             *)

\* The types of the state; no skill is left in a directory that is gone
\* (_rmdir_empty_parents).
TypeOK ==
    /\ entries \in [Destination -> Entry]
    /\ roots \subseteq Agent /\ \A a \in Agent : Occupied(a) => a \in roots
    /\ gitignore \subseteq Agent \cup {Header}
    /\ packaged \subseteq Skill
    /\ pc \in {"idle", "links", "link", "fallback", "tidy", "ignore"}
    /\ command \in Command
    /\ todo \subseteq Destination \cup Agent /\ at \subseteq Destination
    /\ outcome \in {"none", "refused", "done", "failed", "killed"}
    /\ leftovers \subseteq Destination
    /\ copies \subseteq Destination /\ spoilt \subseteq Agent

\* "Replace a copied skill directory" takes --force: without it no directory
\* that was there when the command began is removed, however it ends.
UnforcedKeepsCopies == ~command.force => \A d \in copies : entries[d] = "copied"

\* A command that reports success did all of it, after whatever earlier runs
\* left behind: every skill of the package is linked to it and ignored, or
\* gone with its pattern, but for what users put there meanwhile.
DoneMeansDone ==
    outcome = "done" /\ pc = "idle" =>
        IF Installing
        THEN Selected \subseteq gitignore
             /\ \A d \in Selected \X packaged : entries[d] = "linked"
        ELSE Selected \cap gitignore = {}
             /\ \A d \in Selected \X packaged : Present(d) => entries[d] = "copied" /\ d \notin copies

\* "so the symlink fallback (or a later retry) is not mistaken for a copied skill
\* directory that would then require --force": a command is refused because of a
\* directory a user put there, never because of what an earlier run left, unless
\* that run was killed or could not remove it.
NoFalseRefusal ==
    outcome = "refused" =>
        \E d \in Copied(Selected \X packaged) : entries[d] = "copied" \/ d \in leftovers

\* "a conflict cannot leave a partial un-gitignored link": between commands
\* every link is ignored, unless the last command for its agent broke off or
\* the package dropped a skill.
LinksIgnored ==
    pc = "idle" =>
        \A a \in Agent \ spoilt : (\E s \in Skill : IsLink(<<a, s>>)) => a \in gitignore
=============================================================================
