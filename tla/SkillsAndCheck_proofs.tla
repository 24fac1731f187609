------------------------ MODULE SkillsAndCheck_proofs ------------------------
(***************************************************************************)
(* Proofs of two commands: of SkillLinks's safety for any agents and       *)
(* skills, and below of what the reports of ServiceCheck say, for any      *)
(* services.                                                               *)
(***************************************************************************)
EXTENDS SkillLinks, ServiceCheck, SequenceTheorems, WellFoundedInduction, TLAPS

-----------------------------------------------------------------------------
(* SkillLinks.                                                             *)

USE AgentAssumption, HeaderAssumption, OwnAssumption, PlatformsAssumption

\* The destinations of the run.
Wanted == Selected \X packaged

Linking == pc \in {"links", "link", "fallback"}

\* The loops are over the run's own destinations, and only an
\* install links, one of them at a time, whose directory is there by then.
Loops ==
    /\ Linking => todo \subseteq Wanted
    /\ pc = "tidy" => todo \subseteq Agent
    /\ pc \in {"link", "fallback"} =>
           Installing /\ at \subseteq todo /\ \A d, e \in at : d = e
    /\ pc = "fallback" => \A d \in at : d[1] \in roots

\* A run without --force has none of the users' directories among them.
Unforced == ~command.force /\ pc # "idle" => copies \cap Wanted = {}

\* The destinations the loop has passed are as the command wants them.
Settled(d) ==
    IF Installing THEN entries[d] = "linked"
    ELSE Present(d) => entries[d] = "copied" /\ d \notin copies

Passed ==
    /\ Linking => \A d \in Wanted \ todo : Settled(d)
    /\ pc \in {"tidy", "ignore"} => \A d \in Wanted : Settled(d)

HasLink(a) == \E s \in Skill : IsLink(<<a, s>>)

\* A link to a skill the package has dropped spoils its agent, and the links of
\* the agents a run is not about stay ignored.
Dropped == \A a \in Agent : (\E s \in Skill \ packaged : IsLink(<<a, s>>)) => a \in spoilt

OthersIgnored ==
    pc # "idle" => \A a \in Agent \ (spoilt \cup Selected) : HasLink(a) => a \in gitignore

IInv ==
    /\ TypeOK /\ Loops
    /\ Unforced /\ UnforcedKeepsCopies
    /\ Passed /\ DoneMeansDone
    /\ Dropped /\ OthersIgnored /\ LinksIgnored

LEMMA Pairs ==
    /\ \A d \in Destination : d[1] \in Agent /\ d[2] \in Skill /\ d = <<d[1], d[2]>>
    /\ \A a \in Agent, s \in Skill :
           <<a, s>> \in Destination /\ <<a, s>>[1] = a /\ <<a, s>>[2] = s
  BY DEF Destination

\* What a run works on are destinations.
LEMMA WantedPairs ==
    ASSUME TypeOK
    PROVE  /\ Wanted \subseteq Destination
           /\ \A a \in Agent, s \in Skill :
                  <<a, s>> \in Wanted <=> a \in Selected /\ s \in packaged
  BY DEF TypeOK, Wanted, Selected, Command, Destination

LEMMA InitIInv == Init => IInv
  <1> SUFFICES ASSUME Init PROVE IInv
    OBVIOUS
  <1>1. \A d \in Destination : ~Present(d) /\ ~IsLink(d)
    BY DEF Init, Present, IsLink
  <1>2. TypeOK
    <2>1. command \in Command
      BY DEF Init, Command
    <2>2. \A a \in Agent : Occupied(a) => a \in roots
      BY <1>1, Pairs DEF Init, Occupied
    <2> QED
      BY <2>1, <2>2 DEF Init, TypeOK, Entry
  <1>3. Dropped /\ OthersIgnored /\ LinksIgnored
    BY <1>1, Pairs DEF Init, Dropped, OthersIgnored, LinksIgnored
  <1>4. Loops /\ Unforced /\ UnforcedKeepsCopies /\ Passed /\ DoneMeansDone
    BY DEF Init, Loops, Linking, Unforced, UnforcedKeepsCopies, Passed, DoneMeansDone
  <1> QED
    BY <1>2, <1>3, <1>4 DEF IInv

\* A run that breaks off leaves the links of the others' agents ignored.
LEMMA EndsBroken ==
    ASSUME IInv, pc # "idle", NEW how \in {"failed", "killed"}, Ends(how),
           TypeOK', UnforcedKeepsCopies', UNCHANGED <<packaged, gitignore, command>>,
           \A d \in Destination : IsLink(d)' => IsLink(d)
    PROVE  IInv'
  <1>1. spoilt' = spoilt \cup Selected /\ pc' = "idle" /\ outcome' # "done"
    BY DEF Ends
  <1>2. LinksIgnored' /\ Dropped'
    <2>1. \A a \in Agent, s \in Skill : IsLink(<<a, s>>)' => IsLink(<<a, s>>)
      BY Pairs
    <2>2. LinksIgnored'
      BY <1>1, <2>1 DEF IInv, LinksIgnored, OthersIgnored, HasLink
    <2>3. Dropped'
      BY <1>1, <2>1 DEF IInv, Dropped
    <2> QED
      BY <2>2, <2>3
  <1>3. Loops' /\ Unforced' /\ Passed' /\ DoneMeansDone' /\ OthersIgnored'
    BY <1>1 DEF Loops, Linking, Unforced, Passed, DoneMeansDone, OthersIgnored
  <1> QED
    BY <1>2, <1>3 DEF IInv

LEMMA KilledIInv == IInv /\ Killed => IInv'
  <1> SUFFICES ASSUME IInv, Killed PROVE IInv'
    OBVIOUS
  <1>1. /\ Ends("killed") /\ UNCHANGED <<entries, roots, gitignore, packaged, command, copies, at>>
        /\ leftovers' = leftovers \cup {d \in at : entries[d] = "partial"}
    BY DEF Killed, Leaves, run
  <1>2. TypeOK'
    BY <1>1, Pairs DEF IInv, TypeOK, Ends, Occupied, Present, Selected, Command
  <1>3. UnforcedKeepsCopies'
    BY <1>1 DEF IInv, UnforcedKeepsCopies
  <1> QED
    BY <1>1, <1>2, <1>3, EndsBroken DEF Killed, IsLink

LEMMA BeginIInv == ASSUME IInv, NEW c \in Command, Begin(c) PROVE IInv'
  <1>1. /\ pc = "idle" /\ command' = c /\ UNCHANGED <<entries, leftovers, roots, gitignore, packaged, spoilt>>
        /\ copies' = {d \in Destination : entries[d] = "copied"} /\ at' = {}
    BY DEF Begin, destinations
  <1>2. Wanted' = c.agents \X packaged
    BY <1>1 DEF Wanted, Selected
  <1>3. CASE Refused(c, c.agents \X packaged)
    <2>1. pc' = "idle" /\ outcome' = "refused" /\ todo' = todo
      BY <1>3, <1>1 DEF Begin
    <2>2. TypeOK'
      BY <1>1, <2>1 DEF IInv, TypeOK, Occupied, Present
    <2>3. (Loops /\ Unforced /\ Passed /\ DoneMeansDone /\ OthersIgnored)'
      BY <2>1 DEF Loops, Linking, Unforced, Passed, DoneMeansDone, OthersIgnored
    <2>4. (UnforcedKeepsCopies /\ Dropped /\ LinksIgnored)'
      BY <1>1, <2>1 DEF IInv, UnforcedKeepsCopies, Dropped, LinksIgnored, IsLink
    <2> QED
      BY <2>2, <2>3, <2>4 DEF IInv
  <1>4. CASE ~Refused(c, c.agents \X packaged)
    <2>1. pc' = "links" /\ outcome' = "none" /\ todo' = Wanted'
      BY <1>4, <1>1, <1>2 DEF Begin
    <2>2. TypeOK'
      <3>1. Wanted' \subseteq Destination
        BY <1>1, <1>2 DEF IInv, TypeOK, Command, Destination
      <3> QED
        BY <1>1, <2>1, <3>1 DEF IInv, TypeOK, Occupied, Present
    <2>3. (Loops /\ Passed /\ DoneMeansDone)'
      BY <2>1 DEF Loops, Linking, Passed, DoneMeansDone
    <2>4. (UnforcedKeepsCopies /\ Dropped /\ LinksIgnored)'
      BY <1>1, <2>1 DEF IInv, UnforcedKeepsCopies, Dropped, LinksIgnored, IsLink
    <2>5. OthersIgnored'
      BY <1>1, <2>1 DEF IInv, OthersIgnored, LinksIgnored, HasLink, IsLink
    <2>6. Unforced'
      BY <1>1, <1>2, <1>4 DEF Unforced, Refused, Copied, Present, IsLink
    <2> QED
      BY <2>2, <2>3, <2>4, <2>5, <2>6 DEF IInv
  <1> QED
    BY <1>3, <1>4

LEMMA CopyIInv == ASSUME IInv, NEW d \in Destination, Copy(d) PROVE IInv'
  <1>1. /\ UNCHANGED <<gitignore, packaged, pc, command, todo, at, spoilt>>
        /\ roots' = roots \cup {d[1]} /\ copies' = copies \ {d} /\ outcome' = "none"
        /\ entries[d] = "absent"
    BY DEF Copy, Present
  <1>2. /\ entries'[d] = "copied" /\ entries' \in [Destination -> Entry]
        /\ leftovers' \subseteq leftovers
        /\ \A e \in Destination \ {d} : entries'[e] = entries[e]
    BY DEF Copy, SetEntry, IInv, TypeOK, Entry
  <1>3. \A e \in Destination : IsLink(e)' => IsLink(e)
    BY <1>2 DEF IsLink
  <1>4. TypeOK'
    <2>1. ASSUME NEW a \in Agent, NEW s \in Skill, Present(<<a, s>>)'
          PROVE  a \in roots'
      <3>1. CASE <<a, s>> = d
        BY <1>1, <3>1, Pairs
      <3>2. CASE <<a, s>> # d
        <4>1. Present(<<a, s>>)
          BY <1>2, <2>1, <3>2, Pairs DEF Present
        <4> QED
          BY <1>1, <4>1 DEF IInv, TypeOK, Occupied
      <3> QED
        BY <3>1, <3>2
    <2>2. \A a \in Agent : Occupied(a)' => a \in roots'
      BY <1>1, <2>1 DEF IInv, TypeOK, Occupied
    <2> QED
      BY <1>1, <1>2, <2>2, Pairs DEF IInv, TypeOK
  <1>5. Wanted' = Wanted /\ Wanted \subseteq Destination
    BY <1>1, WantedPairs DEF IInv, Wanted, Selected
  <1>6. (Loops /\ Unforced /\ DoneMeansDone)'
    BY <1>1, <1>5 DEF IInv, Loops, Linking, Installing, Unforced, DoneMeansDone
  <1>7. UnforcedKeepsCopies'
    BY <1>1, <1>2 DEF IInv, UnforcedKeepsCopies, TypeOK
  <1>8. (Dropped /\ OthersIgnored /\ LinksIgnored)'
    <2>1. \A a \in Agent, s \in Skill : IsLink(<<a, s>>)' => IsLink(<<a, s>>)
      BY <1>3, Pairs
    <2> QED
      BY <1>1, <2>1 DEF IInv, Dropped, OthersIgnored, LinksIgnored, HasLink, Selected
  <1>9. Passed'
    <2>1. \A e \in Destination : Settled(e) => Settled(e)'
      BY <1>1, <1>2 DEF Settled, Present, Installing
    <2> QED
      BY <1>1, <1>5, <2>1 DEF IInv, Passed, Linking
  <1> QED
    BY <1>4, <1>6, <1>7, <1>8, <1>9 DEF IInv

\* A step of the loop that leaves the destinations alone.
LEMMA SkipIInv == ASSUME IInv, NEW d \in Destination, SkipDestination(d) PROVE IInv'
  <1>1. /\ UNCHANGED <<entries, leftovers, roots, gitignore, packaged, pc, command, copies, at, outcome, spoilt>>
        /\ pc = "links" /\ todo' = todo \ {d} /\ Settled(d)
    BY DEF SkipDestination, destinations, run, Settled, AlreadyLinked
  <1>2. Wanted' = Wanted /\ \A e \in Destination : Settled(e)' <=> Settled(e)
    BY <1>1 DEF Wanted, Selected, Settled, Present, Installing
  <1>3. (TypeOK /\ UnforcedKeepsCopies)'
    BY <1>1 DEF IInv, TypeOK, Occupied, Present, UnforcedKeepsCopies
  <1>4. (Loops /\ Unforced /\ DoneMeansDone)'
    BY <1>1, <1>2 DEF IInv, Loops, Linking, Installing, Unforced, DoneMeansDone
  <1>5. Passed'
    BY <1>1, <1>2, WantedPairs DEF IInv, Passed, Linking
  <1>6. (Dropped /\ OthersIgnored /\ LinksIgnored)'
    BY <1>1 DEF IInv, Dropped, OthersIgnored, LinksIgnored, HasLink, IsLink, Selected
  <1> QED
    BY <1>3, <1>4, <1>5, <1>6 DEF IInv

\* A step of the loops changes one destination of the run, which stays in todo
\* or is as the command wants it, and links only the agents it is about.
LEMMA LoopStepIInv ==
    ASSUME IInv, NEW d \in Wanted, Linking, Linking',
           UNCHANGED <<gitignore, packaged, command, copies, outcome, spoilt>>,
           roots \subseteq roots', roots' \subseteq Agent, Present(d)' => d[1] \in roots',
           entries' \in [Destination -> Entry], leftovers' \subseteq leftovers,
           \A e \in Destination \ {d} : entries'[e] = entries[e],
           todo' \in {todo, todo \ {d}}, d \notin todo' => Settled(d)',
           at' \subseteq Destination, Loops', d \in todo
    PROVE  IInv'
  <1>1. d \in Destination /\ Wanted' = Wanted /\ Wanted \subseteq Destination
    BY WantedPairs DEF IInv, Wanted, Selected
  <1>2. TypeOK'
    <2>1. ASSUME NEW a \in Agent, NEW s \in Skill, Present(<<a, s>>)'
          PROVE  a \in roots'
      <3>1. CASE <<a, s>> = d
        <4>1. Present(d)'
          BY <2>1, <3>1
        <4> QED
          BY <3>1, <4>1, Pairs
      <3>2. CASE <<a, s>> # d
        <4>1. Present(<<a, s>>)
          BY <2>1, <3>2, Pairs DEF Present
        <4> QED
          BY <4>1 DEF IInv, TypeOK, Occupied
      <3> QED
        BY <3>1, <3>2
    <2>2. \A a \in Agent : Occupied(a)' => a \in roots'
      BY <2>1 DEF IInv, TypeOK, Occupied
    <2> QED
      BY <2>2 DEF IInv, TypeOK, Linking
  <1>3. Unforced' /\ UnforcedKeepsCopies'
    <2>1. Unforced'
      BY <1>1 DEF IInv, Unforced, Linking
    <2>2. UnforcedKeepsCopies'
      BY <1>1 DEF IInv, Unforced, Linking, UnforcedKeepsCopies, TypeOK
    <2> QED
      BY <2>1, <2>2
  <1>4. Passed' /\ DoneMeansDone'
    <2>1. \A e \in Destination \ {d} : Settled(e)' <=> Settled(e)
      BY DEF Settled, Present, Installing
    <2> QED
      BY <1>1, <2>1 DEF IInv, Passed, DoneMeansDone, Linking
  <1>5. \A a \in Agent, s \in Skill :
            a \notin Selected \/ s \notin packaged => (IsLink(<<a, s>>)' <=> IsLink(<<a, s>>))
    BY Pairs, WantedPairs DEF IInv, IsLink
  <1>6. Dropped'
    BY <1>5 DEF IInv, Dropped
  <1>7. OthersIgnored'
    BY <1>5 DEF IInv, OthersIgnored, HasLink, Linking, Selected
  <1>8. LinksIgnored'
    BY DEF LinksIgnored, Linking
  <1> QED
    BY <1>2, <1>3, <1>4, <1>6, <1>7, <1>8 DEF IInv

LEMMA RemoveIInv == ASSUME IInv, NEW d \in Destination, Remove(d) PROVE IInv'
  <1>1. /\ UNCHANGED <<roots, gitignore, packaged, command, copies>>
        /\ pc = "links" /\ d \in todo /\ Linking
    BY DEF Remove, run, Linking
  <1>2. CASE Fails /\ UNCHANGED <<entries, leftovers, at>>
    <2>1. TypeOK'
      BY <1>1, <1>2, Pairs DEF IInv, TypeOK, Fails, Ends, Occupied, Present, Selected, Command
    <2>2. UnforcedKeepsCopies'
      BY <1>1, <1>2 DEF IInv, UnforcedKeepsCopies
    <2> QED
      BY <1>1, <1>2, <2>1, <2>2, EndsBroken DEF Fails, IsLink
  <1>3. CASE /\ SetEntry(d, "absent") /\ UNCHANGED <<outcome, spoilt>>
             /\ IF Installing THEN pc' = "link" /\ at' = {d} /\ UNCHANGED todo
                ELSE todo' = todo \ {d} /\ UNCHANGED <<pc, at>>
    <2>1. /\ entries'[d] = "absent" /\ entries' \in [Destination -> Entry] /\ leftovers' \subseteq leftovers
          /\ \A e \in Destination \ {d} : entries'[e] = entries[e]
      BY <1>3 DEF SetEntry, IInv, TypeOK, Entry
    <2>2. d \in Wanted /\ Wanted' = Wanted
      BY <1>1 DEF IInv, Loops, Wanted, Selected
    <2>3. Loops' /\ Linking'
      BY <1>1, <1>3, <2>2 DEF IInv, Loops, Linking, Installing
    <2>4. d \notin todo' => Settled(d)'
      BY <1>1, <1>3, <2>1 DEF Settled, Present, Installing
    <2>5. todo' \in {todo, todo \ {d}} /\ at' \subseteq Destination
      BY <1>3 DEF IInv, TypeOK
    <2>6. roots' \subseteq Agent /\ ~Present(d)'
      BY <1>1, <2>1 DEF IInv, TypeOK, Present
    <2> QED
      BY <1>1, <1>3, <2>1, <2>2, <2>3, <2>4, <2>5, <2>6, LoopStepIInv
  <1> QED
    BY <1>2, <1>3 DEF Remove, destinations

LEMMA LinkIInv == ASSUME IInv, NEW d \in Destination, Link(d) PROVE IInv'
  <1>1. /\ UNCHANGED <<gitignore, packaged, command, copies>>
        /\ pc \in {"links", "link"} /\ d \in todo /\ Linking /\ Installing
    BY Pairs DEF Link, run, Linking, IInv, Loops, TypeOK
  <1>2. d \in Wanted /\ Wanted' = Wanted
    BY <1>1 DEF IInv, Loops, Wanted, Selected
  <1>a. roots \cup {d[1]} \subseteq Agent
    BY Pairs DEF IInv, TypeOK
  <1>3. CASE roots' = roots \cup {d[1]} /\ ~Present(d) /\ Linked(d)
    <2>1. /\ entries'[d] = "linked" /\ entries' \in [Destination -> Entry]
          /\ leftovers' \subseteq leftovers
          /\ \A e \in Destination \ {d} : entries'[e] = entries[e]
      BY <1>3 DEF Linked, SetEntry, IInv, TypeOK, Entry
    <2>2. /\ pc' = "links" /\ at' = {} /\ todo' = todo \ {d}
          /\ UNCHANGED <<outcome, spoilt>>
      BY <1>3 DEF Linked
    <2>3. Loops' /\ Linking' /\ Settled(d)'
      BY <1>1, <1>2, <2>1, <2>2 DEF IInv, Loops, Linking, Settled, Installing
    <2> QED
      BY <1>1, <1>2, <1>3, <1>a, <2>1, <2>2, <2>3, LoopStepIInv
  <1>4. CASE /\ roots' = roots \cup {d[1]} /\ pc' = "fallback" /\ at' = {d}
             /\ UNCHANGED destinations \/ (~Present(d) /\ SetEntry(d, "partial"))
             /\ UNCHANGED <<todo, outcome, spoilt>>
    <2>1. /\ entries' \in [Destination -> Entry] /\ leftovers' \subseteq leftovers
          /\ \A e \in Destination \ {d} : entries'[e] = entries[e]
      BY <1>4 DEF destinations, SetEntry, IInv, TypeOK, Entry
    <2>2. Loops' /\ Linking'
      BY <1>1, <1>2, <1>4 DEF IInv, Loops, Linking, Installing
    <2> QED
      BY <1>1, <1>2, <1>4, <1>a, <2>1, <2>2, LoopStepIInv
  <1>5. CASE /\ roots' \in {roots, roots \cup {d[1]}}
             /\ Ends("failed") /\ UNCHANGED <<entries, leftovers, at>>
    <2>1. TypeOK'
      BY <1>1, <1>5, <1>a, Pairs DEF IInv, TypeOK, Ends, Occupied, Present, Selected, Command
    <2>2. UnforcedKeepsCopies'
      BY <1>1, <1>5 DEF IInv, UnforcedKeepsCopies
    <2> QED
      BY <1>1, <1>5, <2>1, <2>2, EndsBroken DEF IsLink
  <1> QED
    BY <1>3, <1>4, <1>5 DEF Link, Fails, destinations

LEMMA FallbackIInv == ASSUME IInv, NEW d \in Destination, Fallback(d) PROVE IInv'
  <1>1. /\ UNCHANGED <<roots, gitignore, packaged, command, copies>>
        /\ pc = "fallback" /\ d \in at /\ d \in todo /\ Linking /\ Installing
        /\ d[1] \in roots
    BY DEF Fallback, run, Linking, IInv, Loops
  <1>2. d \in Wanted /\ Wanted' = Wanted
    BY <1>1 DEF IInv, Loops, Wanted, Selected
  <1>3. CASE Linked(d)
    <2>1. /\ entries'[d] = "linked" /\ entries' \in [Destination -> Entry]
          /\ leftovers' \subseteq leftovers
          /\ \A e \in Destination \ {d} : entries'[e] = entries[e]
      BY <1>3 DEF Linked, SetEntry, IInv, TypeOK, Entry
    <2>2. /\ pc' = "links" /\ at' = {} /\ todo' = todo \ {d}
          /\ UNCHANGED <<outcome, spoilt>>
      BY <1>3 DEF Linked
    <2>3. Loops' /\ Linking' /\ Settled(d)'
      BY <1>1, <1>2, <2>1, <2>2 DEF IInv, Loops, Linking, Settled, Installing
    <2>4. roots \subseteq roots' /\ roots' \subseteq Agent
      BY <1>1 DEF IInv, TypeOK
    <2> QED
      BY <1>1, <1>2, <2>1, <2>2, <2>3, <2>4, LoopStepIInv
  <1>4. CASE Ends("failed") /\ SetEntry(d, "absent") /\ UNCHANGED at
    <2>1. /\ entries'[d] = "absent" /\ entries' \in [Destination -> Entry]
          /\ leftovers' \subseteq leftovers
          /\ \A e \in Destination \ {d} : entries'[e] = entries[e]
      BY <1>4 DEF SetEntry, IInv, TypeOK, Entry
    <2>2. TypeOK'
      <3>1. \A e \in Destination : Present(e)' => Present(e)
        BY <2>1 DEF Present
      <3>2. \A a \in Agent : Occupied(a)' => Occupied(a)
        BY <3>1, Pairs DEF Occupied
      <3> QED
        BY <1>1, <1>4, <2>1, <3>2 DEF IInv, TypeOK, Ends, Selected, Command
    <2>3. UnforcedKeepsCopies'
      BY <1>1, <1>2, <2>1 DEF IInv, Unforced, UnforcedKeepsCopies, TypeOK
    <2>4. \A e \in Destination : IsLink(e)' => IsLink(e)
      BY <2>1 DEF IsLink
    <2> QED
      BY <1>1, <1>4, <2>2, <2>3, <2>4, EndsBroken
  <1>5. CASE Ends("failed") /\ Leaves
    <2>1. /\ UNCHANGED <<entries, at>>
          /\ leftovers' = leftovers \cup {e \in at : entries[e] = "partial"}
      BY <1>5 DEF Leaves
    <2>2. TypeOK'
      BY <1>1, <1>5, <2>1, Pairs DEF IInv, TypeOK, Ends, Occupied, Present, Selected, Command
    <2>3. UnforcedKeepsCopies'
      BY <1>1, <2>1 DEF IInv, UnforcedKeepsCopies
    <2> QED
      BY <1>1, <1>5, <2>1, <2>2, <2>3, EndsBroken DEF IsLink
  <1> QED
    BY <1>3, <1>4, <1>5 DEF Fallback, Fails

LEMMA LinksDoneIInv == IInv /\ LinksDone => IInv'
  <1> SUFFICES ASSUME IInv, LinksDone PROVE IInv'
    OBVIOUS
  <1>1. /\ UNCHANGED <<entries, leftovers, roots, gitignore, packaged, command, copies, at, outcome, spoilt>>
        /\ pc = "links" /\ todo = {} /\ pc' \in {"tidy", "ignore"}
        /\ todo' \subseteq Agent
    BY DEF destinations, LinksDone, run, Selected, IInv, TypeOK, Command
  <1>2. Wanted' = Wanted /\ \A e \in Wanted : Settled(e)' <=> Settled(e)
    BY <1>1 DEF Wanted, Selected, Settled, Present, Installing
  <1>3. (TypeOK /\ UnforcedKeepsCopies)'
    BY <1>1 DEF IInv, TypeOK, Occupied, Present, UnforcedKeepsCopies
  <1>4. (Loops /\ Unforced /\ DoneMeansDone)'
    BY <1>1, <1>2 DEF IInv, Loops, Linking, Unforced, DoneMeansDone
  <1>5. Passed'
    BY <1>1, <1>2 DEF IInv, Passed, Linking
  <1>6. (Dropped /\ OthersIgnored /\ LinksIgnored)'
    BY <1>1 DEF IInv, Dropped, OthersIgnored, LinksIgnored, HasLink, IsLink, Selected
  <1> QED
    BY <1>3, <1>4, <1>5, <1>6 DEF IInv

LEMMA TidyDoneIInv == IInv /\ TidyDone => IInv'
  <1> SUFFICES ASSUME IInv, TidyDone PROVE IInv'
    OBVIOUS
  <1>1. /\ UNCHANGED <<entries, leftovers, roots, gitignore, packaged, command, copies, at, outcome, spoilt, todo>>
        /\ pc = "tidy" /\ pc' = "ignore"
    BY DEF destinations, TidyDone, run
  <1>2. Wanted' = Wanted /\ \A e \in Wanted : Settled(e)' <=> Settled(e)
    BY <1>1 DEF Wanted, Selected, Settled, Present, Installing
  <1>3. (TypeOK /\ UnforcedKeepsCopies)'
    BY <1>1 DEF IInv, TypeOK, Occupied, Present, UnforcedKeepsCopies
  <1>4. (Loops /\ Unforced /\ DoneMeansDone /\ Passed)'
    BY <1>1, <1>2 DEF IInv, Loops, Linking, Unforced, DoneMeansDone, Passed
  <1>5. (Dropped /\ OthersIgnored /\ LinksIgnored)'
    BY <1>1 DEF IInv, Dropped, OthersIgnored, LinksIgnored, HasLink, IsLink, Selected
  <1> QED
    BY <1>3, <1>4, <1>5 DEF IInv

LEMMA TidyIInv == ASSUME IInv, NEW a \in Agent, Tidy(a) PROVE IInv'
  <1>1. /\ UNCHANGED <<entries, leftovers, gitignore, packaged, command, copies, at>>
        /\ pc = "tidy" /\ a \in todo
    BY DEF Tidy, run, destinations
  <1>2. CASE Fails /\ UNCHANGED roots
    <2>1. TypeOK'
      BY <1>1, <1>2 DEF IInv, TypeOK, Fails, Ends, Occupied, Present, Selected, Command
    <2>2. UnforcedKeepsCopies'
      BY <1>1 DEF IInv, UnforcedKeepsCopies
    <2> QED
      BY <1>1, <1>2, <2>1, <2>2, EndsBroken DEF Fails, IsLink
  <1>3. CASE /\ roots' = IF Occupied(a) THEN roots ELSE roots \ {a}
             /\ todo' = todo \ {a} /\ UNCHANGED <<pc, outcome, spoilt>>
    <2>1. Wanted' = Wanted /\ \A e \in Wanted : Settled(e)' <=> Settled(e)
      BY <1>1 DEF Wanted, Selected, Settled, Present, Installing
    <2>2. TypeOK'
      <3>1. \A b \in Agent : Occupied(b)' => Occupied(b)
        BY <1>1 DEF Occupied, Present
      <3> QED
        BY <1>1, <1>3, <3>1 DEF IInv, TypeOK
    <2>3. (Loops /\ Unforced /\ UnforcedKeepsCopies /\ Passed /\ DoneMeansDone)'
      BY <1>1, <1>3, <2>1
         DEF IInv, Loops, Linking, Unforced, UnforcedKeepsCopies, DoneMeansDone, Passed
    <2>4. (Dropped /\ OthersIgnored /\ LinksIgnored)'
      BY <1>1, <1>3 DEF IInv, Dropped, OthersIgnored, LinksIgnored, HasLink, IsLink, Selected
    <2> QED
      BY <2>2, <2>3, <2>4 DEF IInv
  <1> QED
    BY <1>2, <1>3 DEF Tidy

\* Once everything is settled nothing that is still a link may be forgotten.
LEMMA DoneIInv ==
    ASSUME IInv, pc = "ignore", gitignore' = (IF Installing THEN Ensured ELSE Pruned),
           Ends("done"), UNCHANGED <<entries, leftovers, roots, packaged, command, copies, at>>
    PROVE  IInv'
  <1>1. /\ pc' = "idle" /\ outcome' = "done" /\ todo' = {}
        /\ spoilt' = spoilt \ {a \in Selected : \A s \in Skill \ packaged : ~IsLink(<<a, s>>)}
    BY DEF Ends
  <1>2. \A d \in Wanted : Settled(d)
    BY DEF IInv, Passed
  <1>3. /\ Installing => Selected \subseteq gitignore'
        /\ ~Installing => Selected \cap gitignore' = {}
        /\ \A a \in Agent \ Selected : a \in gitignore => a \in gitignore'
        /\ gitignore' \subseteq Agent \cup {Header}
    BY DEF Ensured, Pruned, IInv, TypeOK, Selected, Command
  <1>4. TypeOK'
    BY <1>1, <1>3 DEF IInv, TypeOK, Occupied, Present
  <1>5. Dropped'
    BY <1>1 DEF IInv, Dropped, IsLink
  <1>6. LinksIgnored'
    <2> SUFFICES ASSUME NEW a \in Agent \ spoilt', NEW s \in Skill, IsLink(<<a, s>>)
                 PROVE  a \in gitignore'
      BY DEF LinksIgnored, IsLink
    <2>1. CASE a \notin Selected
      BY <1>1, <1>3, <2>1 DEF IInv, OthersIgnored, HasLink
    <2>2. CASE a \in Selected /\ ~Installing
      <3>1. s \in packaged
        BY <1>1, <2>2 DEF IInv, Dropped
      <3>2. Settled(<<a, s>>)
        BY <1>2, <2>2, <3>1, WantedPairs DEF IInv
      <3> QED
        BY <2>2, <3>2 DEF Settled, Present, IsLink
    <2> QED
      BY <1>3, <2>1, <2>2
  <1>7. DoneMeansDone'
    BY <1>2, <1>3 DEF DoneMeansDone, Settled, Wanted, Selected, Installing, Present
  <1>8. (Loops /\ Unforced /\ UnforcedKeepsCopies /\ Passed /\ OthersIgnored)'
    BY <1>1 DEF IInv, Loops, Linking, Unforced, UnforcedKeepsCopies, Passed, OthersIgnored
  <1> QED
    BY <1>4, <1>5, <1>6, <1>7, <1>8 DEF IInv

LEMMA WriteGitignoreIInv == IInv /\ WriteGitignore => IInv'
  <1> SUFFICES ASSUME IInv, WriteGitignore PROVE IInv'
    OBVIOUS
  <1>1. UNCHANGED <<entries, leftovers, roots, packaged, command, copies, at>> /\ pc = "ignore"
    BY DEF destinations, WriteGitignore, run
  <1>2. CASE gitignore' = (IF Installing THEN Ensured ELSE Pruned) /\ Ends("done")
    BY <1>1, <1>2, DoneIInv
  <1>3. CASE Fails /\ UNCHANGED gitignore
    <2>1. TypeOK'
      BY <1>1, <1>3 DEF IInv, TypeOK, Fails, Ends, Occupied, Present, Selected, Command
    <2>2. UnforcedKeepsCopies'
      BY <1>1 DEF IInv, UnforcedKeepsCopies
    <2> QED
      BY <1>1, <1>3, <2>1, <2>2, EndsBroken DEF Fails, IsLink
  <1>4. CASE /\ gitignore' = {}
             /\ pc' = "idle" /\ outcome' = "failed" /\ UNCHANGED todo
             /\ spoilt' = Agent
    <2>1. TypeOK'
      BY <1>1, <1>4 DEF IInv, TypeOK, Occupied, Present
    <2>2. (Loops /\ Unforced /\ UnforcedKeepsCopies /\ Passed /\ DoneMeansDone)'
      BY <1>1, <1>4 DEF IInv, Loops, Linking, Unforced, UnforcedKeepsCopies, Passed, DoneMeansDone
    <2>3. (Dropped /\ OthersIgnored /\ LinksIgnored)'
      BY <1>4 DEF Dropped, OthersIgnored, LinksIgnored
    <2> QED
      BY <2>1, <2>2, <2>3 DEF IInv
  <1> QED
    BY <1>2, <1>3, <1>4 DEF WriteGitignore

LEMMA UpgradeIInv == ASSUME IInv, NEW skills \in (SUBSET Skill) \ {{}}, Upgrade(skills) PROVE IInv'
  <1>1. /\ UNCHANGED <<leftovers, roots, gitignore, pc, command, copies, todo, at>>
        /\ pc = "idle" /\ packaged' = skills /\ outcome' = "none"
        /\ spoilt' = spoilt \cup {a \in Agent : \E s \in Skill \ skills : IsLink(<<a, s>>)}
    BY DEF Upgrade, run
  <1>2. PICK moved \in BOOLEAN :
            entries' = [d \in Destination |->
                          IF entries[d] = "linked" /\ (moved \/ d[2] \notin skills)
                          THEN "stale" ELSE entries[d]]
    BY DEF Upgrade
  <1>3. /\ entries' \in [Destination -> Entry]
        /\ \A d \in Destination : Present(d)' <=> Present(d)
        /\ \A d \in Destination : IsLink(d)' <=> IsLink(d)
        /\ \A d \in Destination : entries[d] = "copied" => entries'[d] = "copied"
    <2> SUFFICES ASSUME NEW d \in Destination
                 PROVE  /\ entries'[d] \in Entry
                        /\ Present(d)' <=> Present(d)
                        /\ IsLink(d)' <=> IsLink(d)
                        /\ entries[d] = "copied" => entries'[d] = "copied"
      BY <1>2
    <2>1. entries[d] \in Entry
      BY DEF IInv, TypeOK
    <2>2. entries'[d] = entries[d] \/ (entries[d] = "linked" /\ entries'[d] = "stale")
      <3>1. entries'[d] = IF entries[d] = "linked" /\ (moved \/ d[2] \notin skills)
                          THEN "stale" ELSE entries[d]
        BY <1>2, Zenon
      <3> QED
        BY <3>1, Zenon
    <2> QED
      BY <2>1, <2>2 DEF Entry, Present, IsLink
  <1>4. \A a \in Agent : Occupied(a)' <=> Occupied(a)
    BY <1>3, Pairs DEF Occupied
  <1>5. \A a \in Agent, s \in Skill : IsLink(<<a, s>>)' <=> IsLink(<<a, s>>)
    BY <1>3, Pairs, Zenon
  <1>6. TypeOK'
    BY <1>1, <1>3, <1>4 DEF IInv, TypeOK
  <1>7. UnforcedKeepsCopies'
    BY <1>1, <1>3 DEF IInv, UnforcedKeepsCopies, TypeOK
  <1>8. (Dropped /\ LinksIgnored)'
    BY <1>1, <1>5 DEF IInv, Dropped, LinksIgnored
  <1>9. (Loops /\ Unforced /\ Passed /\ DoneMeansDone /\ OthersIgnored)'
    BY <1>1 DEF Loops, Linking, Unforced, Passed, DoneMeansDone, OthersIgnored
  <1> QED
    BY <1>6, <1>7, <1>8, <1>9 DEF IInv

LEMMA NextIInv == IInv /\ [Next]_vars => IInv'
  <1> SUFFICES ASSUME IInv, [Next]_vars PROVE IInv'
    OBVIOUS
  <1>1. CASE \E c \in Command : Begin(c)
    BY <1>1, BeginIInv
  <1>2. CASE \E d \in Destination :
               SkipDestination(d) \/ Remove(d) \/ Link(d) \/ Fallback(d) \/ Copy(d)
    BY <1>2, SkipIInv, RemoveIInv, LinkIInv, FallbackIInv, CopyIInv
  <1>3. CASE \E a \in Agent : Tidy(a)
    BY <1>3, TidyIInv
  <1>4. CASE LinksDone \/ TidyDone \/ WriteGitignore \/ Killed
    BY <1>4, LinksDoneIInv, TidyDoneIInv, WriteGitignoreIInv, KilledIInv
  <1>5. CASE \E skills \in (SUBSET Skill) \ {{}} : Upgrade(skills)
    BY <1>5, UpgradeIInv
  <1>6. CASE UNCHANGED vars
    BY <1>6 DEF vars, destinations, run, IInv, TypeOK, Loops, Linking, Unforced, UnforcedKeepsCopies, Passed,
           Settled, Wanted, DoneMeansDone, Dropped, OthersIgnored, LinksIgnored, HasLink,
           Occupied, Present, IsLink, Selected, Installing
  <1> QED
    BY <1>1, <1>2, <1>3, <1>4, <1>5, <1>6 DEF Next

LEMMA Inductive == Spec => []IInv
  BY InitIInv, NextIInv, PTL DEF Spec

\* The types, and no skill is left in a directory that is gone.
THEOREM TypeCorrect == Spec => []TypeOK
  <1>1. IInv => TypeOK
    BY DEF IInv
  <1> QED
    BY <1>1, Inductive, PTL

\* Without --force no directory a user made is removed, however the run ends.
THEOREM CopiesAreSafe == Spec => []UnforcedKeepsCopies
  <1>1. IInv => UnforcedKeepsCopies
    BY DEF IInv
  <1> QED
    BY <1>1, Inductive, PTL

\* A run that reports success did all of it, whatever earlier ones left.
THEOREM SuccessIsTrue == Spec => []DoneMeansDone
  <1>1. IInv => DoneMeansDone
    BY DEF IInv
  <1> QED
    BY <1>1, Inductive, PTL

\* Between the commands no link is in the repository's way, unless a run broke
\* off or the package dropped its skill.
THEOREM LinksStayIgnored == Spec => []LinksIgnored
  <1>1. IInv => LinksIgnored
    BY DEF IInv
  <1> QED
    BY <1>1, Inductive, PTL

\* A partial directory is the failed junction's of this run, or accounted for.
Partials ==
    \A d \in Destination :
        entries[d] = "partial" => d \in leftovers \/ (pc = "fallback" /\ d \in at)

\* The retries of a command are refused for what users put there only, after runs
\* that were not killed and could remove what a junction left.
THEOREM RefusalsAreTrue == Spec => []NoFalseRefusal
  <1> DEFINE Refusals == outcome = "refused" => pc = "idle" /\ NoFalseRefusal
  <1>1. Init => Partials /\ Refusals
    BY DEF Init, Partials
  <1>2. IInv /\ Partials /\ Refusals /\ [Next]_vars => Partials' /\ Refusals'
    <2> SUFFICES ASSUME IInv, Partials, Refusals, [Next]_vars
                 PROVE  Partials' /\ Refusals'
      OBVIOUS
    <2>1. ASSUME NEW c \in Command, Begin(c)
          PROVE  Partials' /\ Refusals'
      <3>1. /\ pc = "idle" /\ UNCHANGED <<entries, leftovers, packaged>> /\ command' = c
            /\ Refused(c, c.agents \X packaged) \/ outcome' = "none"
            /\ outcome' = "refused" => UNCHANGED pc
        BY <2>1 DEF Begin, destinations
      <3>2. ASSUME NEW d \in Copied(c.agents \X packaged)
            PROVE  entries[d] = "copied" \/ d \in leftovers
        <4>1. d \in Destination
          BY <3>2 DEF Copied, Command, Destination, IInv, TypeOK
        <4>2. entries[d] \in {"copied", "partial"}
          BY <3>2, <4>1 DEF Copied, Present, IsLink, Entry, IInv, TypeOK
        <4> QED
          BY <3>1, <4>1, <4>2 DEF Partials
      <3>3. Copied(Selected \X packaged)' = Copied(c.agents \X packaged)
        BY <3>1 DEF Copied, Selected, Present, IsLink
      <3>4. Refusals'
        BY <3>1, <3>2, <3>3 DEF Refused, NoFalseRefusal
      <3> QED
        BY <3>1, <3>4 DEF Partials
    <2>2. ASSUME NEW d \in Destination, SkipDestination(d) \/ Remove(d) \/ Link(d)
          PROVE  Partials' /\ Refusals'
      <3>1. outcome' # "refused"
        BY <2>2 DEF SkipDestination, Remove, Link, Linked, Fails, Ends
      <3>2. pc \in {"links", "link"}
        BY <2>2 DEF SkipDestination, Remove, Link
      <3>3. \/ UNCHANGED <<entries, leftovers>>
            \/ \E e \in {"absent", "linked"} : SetEntry(d, e)
            \/ SetEntry(d, "partial") /\ pc' = "fallback" /\ at' = {d}
        BY <2>2 DEF SkipDestination, Remove, Link, Linked, destinations
      <3> QED
        BY <3>1, <3>2, <3>3 DEF Partials, SetEntry, IInv, TypeOK
    <2>3. ASSUME NEW d \in Destination, Fallback(d)
          PROVE  Partials' /\ Refusals'
      <3>1. outcome' # "refused" /\ pc = "fallback" /\ at = {d}
        BY <2>3 DEF Fallback, Linked, Fails, Ends, IInv, Loops
      <3>2. \/ \E e \in {"absent", "linked"} : SetEntry(d, e)
            \/ Leaves
        BY <2>3 DEF Fallback, Linked
      <3> QED
        BY <3>1, <3>2 DEF Partials, SetEntry, Leaves, IInv, TypeOK
    <2>4. ASSUME NEW d \in Destination, Copy(d)
          PROVE  Partials' /\ Refusals'
      BY <2>4 DEF Copy, SetEntry, Partials, IInv, TypeOK
    <2>5. ASSUME Killed
          PROVE  Partials' /\ Refusals'
      BY <2>5 DEF Killed, Ends, Leaves, Partials
    <2>6. ASSUME NEW a \in Agent, Tidy(a)
          PROVE  Partials' /\ Refusals'
      BY <2>6 DEF Tidy, Fails, Ends, destinations, Partials
    <2>7. ASSUME LinksDone \/ TidyDone \/ WriteGitignore
          PROVE  Partials' /\ Refusals'
      BY <2>7 DEF LinksDone, TidyDone, WriteGitignore, Fails, Ends, destinations, Partials
    <2>8. ASSUME NEW skills \in (SUBSET Skill) \ {{}}, Upgrade(skills)
          PROVE  Partials' /\ Refusals'
      <3>1. \A d \in Destination : entries'[d] = "partial" => entries[d] = "partial"
        BY <2>8 DEF Upgrade
      <3> QED
        BY <2>8, <3>1 DEF Upgrade, Partials
    <2>9. CASE UNCHANGED vars
      <3>1. UNCHANGED <<entries, leftovers, pc, at, outcome, command, packaged>>
        BY <2>9 DEF vars, destinations, run
      <3> QED
        BY <3>1 DEF Partials, NoFalseRefusal, Copied, Selected, Present, IsLink
    <2> QED
      BY <2>1, <2>2, <2>3, <2>4, <2>5, <2>6, <2>7, <2>8, <2>9 DEF Next
  <1>3. Refusals => NoFalseRefusal
    BY DEF NoFalseRefusal
  <1> QED
    BY <1>1, <1>2, <1>3, Inductive, PTL DEF Spec

-----------------------------------------------------------------------------
(* ServiceCheck.                                                           *)

HIDE AgentAssumption
HIDE HeaderAssumption
HIDE OwnAssumption
HIDE PlatformsAssumption

-----------------------------------------------------------------------------
(* Names: what the check resolves is what Python does.                     *)

LEMMA LastOfOne ==
    ASSUME NEW imports, NEW i \in Nat
    PROVE  LastOf(imports, {i}) = imports[i]
  <1>1. \E j \in {i} : \A k \in {i} : k <= j
    OBVIOUS
  <1> QED
    BY <1>1 DEF LastOf

LEMMA FrontOfFront ==
    ASSUME NEW here \in Seq(STRING), NEW n \in 1..Len(here), NEW m \in 1..n
    PROVE  SubSeq(SubSeq(here, 1, n), 1, m) = SubSeq(here, 1, m)
  <1>1. SubSeq(here, 1, n) \in Seq(STRING) /\ Len(SubSeq(here, 1, n)) = n
    OBVIOUS
  <1>2. \A k \in 1..m : SubSeq(SubSeq(here, 1, n), 1, m)[k] = SubSeq(here, 1, m)[k]
    BY <1>1
  <1>3. /\ SubSeq(SubSeq(here, 1, n), 1, m) \in Seq(STRING)
        /\ Len(SubSeq(SubSeq(here, 1, n), 1, m)) = m
        /\ SubSeq(here, 1, m) \in Seq(STRING) /\ Len(SubSeq(here, 1, m)) = m
    BY <1>1
  <1> QED
    BY <1>2, <1>3, SeqEqual

\* An import that does not climb out of the project names the module that
\* Python loads.
LEMMA SameModule ==
    ASSUME NEW here \in Seq(STRING) \ {<<>>}, NEW s, IsStatement(s), s.level < Len(here)
    PROVE  /\ ModuleOf(here, s) = AbsoluteModule(here, s)
           /\ ModuleOf(here, s) \in Seq(STRING) \ {<<>>}
  <1>1. CASE s.level = 0
    BY <1>1 DEF ModuleOf, ResolveFrom, AbsoluteModule, IsStatement
  <1>2. CASE s.level # 0
    <2>1. s.kind # "import" /\ s.level \in 1..(Len(here) - 1) /\ Len(here) \in Nat /\ s.module \in Seq(STRING)
      BY <1>2, LenProperties DEF IsStatement
    <2> DEFINE package == SubSeq(here, 1, Len(here) - 1)
               front == SubSeq(here, 1, Len(here) - s.level)
    <2>2. Len(package) = Len(here) - 1
      BY <2>1
    <2>3. SubSeq(package, 1, Len(package) - (s.level - 1)) = front
      <3>1. Len(here) - 1 \in 1..Len(here) /\ Len(here) - s.level \in 1..(Len(here) - 1)
            /\ Len(package) - (s.level - 1) = Len(here) - s.level
        BY <2>1, <2>2
      <3> QED
        BY <3>1, FrontOfFront
    <2>4. front \in Seq(STRING) /\ Len(front) = Len(here) - s.level
      BY <2>1
    <2>5. front \o s.module \in Seq(STRING) /\ Len(front \o s.module) = Len(front) + Len(s.module)
      BY <2>1, <2>4
    <2>6. front \o s.module # <<>>
      <3>1. Len(front) > 0 /\ Len(s.module) \in Nat
        BY <2>1, <2>4, LenProperties
      <3>2. Len(front \o s.module) # 0
        BY <2>5, <3>1
      <3> QED
        BY <3>2, EmptySeq
    <2>7. ModuleOf(here, s) = front \o s.module
      <3>1. ~ (s.level = 0 \/ s.level > Len(here))
        BY <2>1
      <3> QED
        BY <2>1, <3>1 DEF ModuleOf, ResolveFrom
    <2>8. AbsoluteModule(here, s) = front \o s.module
      BY <1>2, <2>3 DEF AbsoluteModule
    <2> QED
      BY <2>5, <2>6, <2>7, <2>8
  <1> QED
    BY <1>1, <1>2

\* ... and the name it binds is the one Python binds.
LEMMA SameBinding ==
    ASSUME NEW here \in Seq(STRING) \ {<<>>}, NEW s, IsStatement(s), s.level < Len(here)
    PROVE  Qualified(here, s) = Binding(here, s)
  <1>1. CASE s.kind = "from"
    BY <1>1, SameModule DEF Qualified, Binding
  <1>2. CASE s.kind = "import" /\ s.as # ""
    BY <1>2 DEF Qualified, Binding
  <1>3. CASE s.kind = "import" /\ s.as = ""
    <2>1. s.module \in Seq(STRING) /\ s.module # <<>>
      BY <1>3 DEF IsStatement
    <2>2. SubSeq(s.module, 1, 1) = <<Head(s.module)>>
      <3>1. Len(s.module) >= 1 /\ Len(s.module) \in Nat
        BY <2>1, EmptySeq, LenProperties
      <3>2. /\ SubSeq(s.module, 1, 1) \in Seq(STRING) /\ Len(SubSeq(s.module, 1, 1)) = 1
            /\ SubSeq(s.module, 1, 1)[1] = Head(s.module)
        BY <2>1, <3>1
      <3>3. /\ <<Head(s.module)>> \in Seq(STRING) /\ Len(<<Head(s.module)>>) = 1
            /\ <<Head(s.module)>>[1] = Head(s.module)
        BY <2>1, <3>1
      <3>4. \A i \in 1..1 : SubSeq(s.module, 1, 1)[i] = <<Head(s.module)>>[i]
        BY <3>2, <3>3
      <3> QED
        BY <3>2, <3>3, <3>4, SeqEqual
    <2> QED
      BY <1>3, <2>2 DEF Qualified, Binding
  <1> QED
    BY <1>1, <1>2, <1>3 DEF IsStatement

LEMMA SameMeaning ==
    ASSUME NEW here \in Seq(STRING) \ {<<>>}, NEW imports, DOMAIN imports \subseteq Nat,
           \A i \in DOMAIN imports : IsStatement(imports[i]),
           OneMeaning(here, imports),
           NEW expr \in Seq(STRING) \ {<<>>}, NEW function,
           \A s \in Range(imports) : s.in \in {"", function} \/ BoundName(s) # Head(expr)
    PROVE  Resolve(here, imports, expr) = Meaning(here, imports, function, expr)
  <1> DEFINE seen == {i \in Collected(imports) : Names(here, imports[i])}
             Bound(scope) == {i \in DOMAIN imports :
                 /\ imports[i].in = scope /\ Runs(imports[i]) /\ imports[i].name # "*"
                 /\ BoundName(imports[i]) = Head(expr)}
             Last(positions) == Binding(here, LastOf(imports, positions)) \o Tail(expr)
  <1>1. Resolve(here, imports, expr) =
          IF Head(expr) \in {BoundName(imports[i]) : i \in seen}
          THEN Qualified(here, LastOf(imports, {i \in seen : BoundName(imports[i]) = Head(expr)}))
                   \o Tail(expr)
          ELSE expr
    BY DEF Resolve, Aliases
  <1>2. Meaning(here, imports, function, expr) =
          CASE function # "" /\ Bound(function) # {} -> Last(Bound(function))
            [] (function = "" \/ Bound(function) = {}) /\ Bound("") # {} -> Last(Bound(""))
            [] OTHER -> expr
    BY DEF Meaning
  <1>3. \A i, j \in DOMAIN imports :
            BoundName(imports[i]) = BoundName(imports[j]) => i = j
    BY DEF OneMeaning
  <1>4. \A i \in DOMAIN imports :
            /\ imports[i] \in Range(imports)
            /\ imports[i].name # "*" /\ imports[i].branch # "else"
            /\ imports[i].level < Len(here)
    BY DEF OneMeaning, Range
  <1>5. \A i \in DOMAIN imports : i \in seen <=> Runs(imports[i])
    <2>1. \A i \in DOMAIN imports : ModuleOf(here, imports[i]) # <<>>
      BY <1>4, SameModule
    <2> QED
      BY <1>4, <2>1 DEF Collected, Names, Runs, IsStatement
  <1>6. seen \subseteq DOMAIN imports
    BY DEF Collected
  <1>7. CASE \E i \in seen : BoundName(imports[i]) = Head(expr)
    <2>1. PICK i \in seen : BoundName(imports[i]) = Head(expr)
      BY <1>7
    <2>2. i \in DOMAIN imports /\ i \in Nat /\ Runs(imports[i])
      BY <1>5, <1>6
    <2>3. {j \in seen : BoundName(imports[j]) = Head(expr)} = {i}
      BY <1>3, <1>6, <2>1, <2>2
    <2>4. Resolve(here, imports, expr) = Qualified(here, imports[i]) \o Tail(expr)
      BY <1>1, <1>7, <2>2, <2>3, LastOfOne
    <2>5. imports[i].in \in {"", function}
      BY <1>4, <2>1, <2>2
    <2>6. \A scope : Bound(scope) = IF scope = imports[i].in THEN {i} ELSE {}
      BY <1>3, <1>4, <2>1, <2>2
    <2>7. Last({i}) = Binding(here, imports[i]) \o Tail(expr)
      BY <2>2, LastOfOne
    <2>8. Meaning(here, imports, function, expr) = Last({i})
      <3> HIDE DEF Bound, Last
      <3>1. CASE imports[i].in = ""
        BY <1>2, <2>6, <3>1
      <3>2. CASE imports[i].in # ""
        BY <1>2, <2>5, <2>6, <3>2
      <3> QED
        BY <3>1, <3>2
    <2>9. Qualified(here, imports[i]) = Binding(here, imports[i])
      BY <1>4, <2>2, SameBinding
    <2> QED
      BY <2>4, <2>7, <2>8, <2>9
  <1>8. CASE ~ \E i \in seen : BoundName(imports[i]) = Head(expr)
    <2>1. Resolve(here, imports, expr) = expr
      BY <1>1, <1>8
    <2>2. \A scope : Bound(scope) = {}
      BY <1>5, <1>8
    <2>3. Meaning(here, imports, function, expr) = expr
      <3> HIDE DEF Bound, Last
      <3> QED
        BY <1>2, <2>2
    <2> QED
      BY <2>1, <2>3
  <1> QED
    BY <1>7, <1>8

-----------------------------------------------------------------------------
(* The walk.                                                               *)

Sound == DOMAIN source = File /\ \A f \in File : Possible(f, source[f])

Found(f) ==
    IF source[f].parses THEN CheckModule(f) ELSE FileHit("parse.syntax_error", f)

There == {f \in File : source[f].there}

Checked == There \ unchecked

Saw(call) == \E f \in Checked : source[f].parses /\ call \in Calls(f)

\* What has been found is what the rules find in the files checked so far.
Gathered ==
    phase \in {"walk", "reported"} =>
        /\ layout = Layout /\ entry = FirstEntry
        /\ unchecked \subseteq There
        /\ sawSetupLoguru \in BOOLEAN /\ (sawSetupLoguru <=> Saw("setup_loguru"))
        /\ sawFastapi \in BOOLEAN /\ (sawFastapi <=> Saw("FastAPI"))
        /\ phase = "walk" => findings = UNION {Found(f) : f \in Checked}
        /\ phase = "reported" =>
               /\ unchecked = {}
               /\ findings = (UNION {Found(f) : f \in Checked}) \cup
                      (IF sawFastapi /\ ~sawSetupLoguru THEN MissingSetupLoguru ELSE {})

CheckIInv == Sound /\ Gathered

LEMMA HitFacts ==
    \A rule, f, p : /\ Hit(rule, f, p).rule = rule
                    /\ Hit(rule, f, p).file = f /\ Hit(rule, f, p).part = p
  BY DEF Hit

\* What the rules find depends on the project alone.
LEMMA FoundSame ==
    ASSUME source' = source, layout' = layout, entry' = entry, NEW f
    PROVE  /\ Found(f)' = Found(f)
           /\ Calls(f)' = Calls(f)
  <1>1. Calls(f)' = Calls(f) /\ Factories(f)' = Factories(f)
    BY DEF Calls, Factories
  <1>2. /\ (IsAppEntry(f) <=> IsAppEntry(f)')
        /\ (IsSubAppFactory(f) <=> IsSubAppFactory(f)')
    BY DEF IsAppEntry, IsSubAppFactory
  <1>3. \A rule : Hits(f, rule)' = Hits(f, rule)
    BY DEF Hits, Misused, Resolved
  <1>4. CheckMisuse(f)' = CheckMisuse(f)
    BY <1>3 DEF CheckMisuse
  <1>5. CheckApiRouterImport(f)' = CheckApiRouterImport(f)
    BY <1>3 DEF CheckApiRouterImport
  <1>6. CheckLayers(f)' = CheckLayers(f)
    BY DEF CheckLayers
  <1>7. CheckSetupLoguru(f)' = CheckSetupLoguru(f)
    BY <1>1, <1>2 DEF CheckSetupLoguru
  <1>8. Handlers(f)' = Handlers(f)
    BY <1>1 DEF Handlers
  <1>9. ProcessMiddleware(f)' = ProcessMiddleware(f)
    BY <1>1, <1>2 DEF ProcessMiddleware
  <1>10. MountedMiddleware(f)' = MountedMiddleware(f)
    BY <1>1, <1>2 DEF MountedMiddleware
  <1> QED
    BY <1>1, <1>4, <1>5, <1>6, <1>7, <1>8, <1>9, <1>10 DEF Found, CheckModule

LEMMA InitSound ==
    ASSUME CheckInit
    PROVE  CheckIInv
  BY ServicesAssumption DEF CheckInit, CheckIInv, Sound, Gathered

LEMMA GatheredDiscover ==
    ASSUME Discover
    PROVE  Gathered'
  <1>1. CASE IsService
    <2>1. /\ phase' = "walk" /\ layout' = Layout /\ entry' = FirstEntry /\ unchecked' = There
          /\ findings' = {} /\ sawSetupLoguru' = FALSE /\ sawFastapi' = FALSE
          /\ source' = source /\ threeTier' = threeTier
      BY <1>1 DEF Discover, There
    <2>2. FirstEntry' = FirstEntry
      BY <2>1 DEF FirstEntry, EntriesThere
    <2>3. Layout' = Layout
      BY <2>1, <2>2 DEF Layout, Calls
    <2>4. There' = There /\ Checked' = {}
      BY <2>1 DEF There, Checked
    <2>5. ~ Saw("setup_loguru")' /\ ~ Saw("FastAPI")'
      BY <2>4 DEF Saw
    <2>6. (UNION {Found(f) : f \in Checked})' = {}
      BY <2>4
    <2> QED
      BY <2>1, <2>2, <2>3, <2>4, <2>5, <2>6 DEF Gathered
  <1>2. CASE ~IsService
    BY <1>2 DEF Discover, Gathered
  <1> QED
    BY <1>1, <1>2

LEMMA ProjectSame ==
    ASSUME UNCHANGED <<source, threeTier, project>>
    PROVE  /\ Layout' = Layout /\ FirstEntry' = FirstEntry /\ There' = There
           /\ MissingSetupLoguru' = MissingSetupLoguru
  <1>1. FirstEntry' = FirstEntry
    BY DEF FirstEntry, EntriesThere
  <1>2. Layout' = Layout
    BY <1>1 DEF Layout, Calls
  <1>3. There' = There
    BY DEF There
  <1>4. MissingSetupLoguru' = MissingSetupLoguru
    BY DEF MissingSetupLoguru, project
  <1> QED
    BY <1>1, <1>2, <1>3, <1>4

LEMMA GatheredCheckFile ==
    ASSUME Gathered, NEW f \in File, CheckFile(f)
    PROVE  Gathered'
  <1>1. /\ phase = "walk" /\ phase' = "walk" /\ f \in unchecked /\ unchecked' = unchecked \ {f}
        /\ source' = source /\ threeTier' = threeTier /\ layout' = layout /\ entry' = entry
    BY DEF CheckFile, project
  <1>2. UNCHANGED <<source, threeTier, project>>
    BY DEF CheckFile
  <1>3. /\ Layout' = Layout /\ FirstEntry' = FirstEntry /\ There' = There
    BY <1>2, ProjectSame
  <1>4. /\ layout = Layout /\ entry = FirstEntry /\ unchecked \subseteq There
        /\ sawSetupLoguru \in BOOLEAN /\ (sawSetupLoguru <=> Saw("setup_loguru"))
        /\ sawFastapi \in BOOLEAN /\ (sawFastapi <=> Saw("FastAPI"))
        /\ findings = UNION {Found(g) : g \in Checked}
    BY <1>1 DEF Gathered
  <1>5. Checked' = Checked \cup {f}
    BY <1>1, <1>3, <1>4 DEF Checked
  <1>6. \A g : Found(g)' = Found(g) /\ Calls(g)' = Calls(g)
    BY <1>1, FoundSame
  <1>7. \A call : Saw(call)' <=> Saw(call) \/ (source[f].parses /\ call \in Calls(f))
    BY <1>1, <1>5, <1>6 DEF Saw
  <1>8. findings' = findings \cup Found(f)
    BY DEF CheckFile, Found
  <1>9. /\ sawSetupLoguru' \in BOOLEAN /\ (sawSetupLoguru' <=> Saw("setup_loguru")')
        /\ sawFastapi' \in BOOLEAN /\ (sawFastapi' <=> Saw("FastAPI")')
    <2>1. CASE source[f].parses
      BY <1>4, <1>7, <2>1 DEF CheckFile
    <2>2. CASE ~source[f].parses
      BY <1>4, <1>7, <2>2 DEF CheckFile
    <2> QED
      BY <2>1, <2>2
  <1>10. findings' = (UNION {Found(g) : g \in Checked})'
    BY <1>4, <1>5, <1>6, <1>8
  <1> QED
    BY <1>1, <1>3, <1>4, <1>9, <1>10 DEF Gathered

LEMMA GatheredReport ==
    ASSUME Gathered, Report
    PROVE  Gathered'
  <1>1. /\ phase = "walk" /\ phase' = "reported" /\ unchecked = {} /\ unchecked' = {}
        /\ source' = source /\ threeTier' = threeTier /\ layout' = layout /\ entry' = entry
        /\ sawSetupLoguru' = sawSetupLoguru /\ sawFastapi' = sawFastapi
        /\ findings' = findings \cup
               (IF sawFastapi /\ ~sawSetupLoguru THEN MissingSetupLoguru ELSE {})
    BY DEF Report, project
  <1>2. UNCHANGED <<source, threeTier, project>>
    BY DEF Report
  <1>3. /\ Layout' = Layout /\ FirstEntry' = FirstEntry /\ There' = There
        /\ MissingSetupLoguru' = MissingSetupLoguru
    BY <1>2, ProjectSame
  <1>4. /\ layout = Layout /\ entry = FirstEntry /\ unchecked \subseteq There
        /\ sawSetupLoguru \in BOOLEAN /\ (sawSetupLoguru <=> Saw("setup_loguru"))
        /\ sawFastapi \in BOOLEAN /\ (sawFastapi <=> Saw("FastAPI"))
        /\ findings = UNION {Found(g) : g \in Checked}
    BY <1>1 DEF Gathered
  <1>5. Checked' = Checked
    BY <1>1, <1>3 DEF Checked
  <1>6. \A g : Found(g)' = Found(g) /\ Calls(g)' = Calls(g)
    BY <1>1, FoundSame
  <1>7. \A call : Saw(call)' <=> Saw(call)
    BY <1>1, <1>5, <1>6 DEF Saw
  <1>8. (UNION {Found(g) : g \in Checked})' = UNION {Found(g) : g \in Checked}
    BY <1>5, <1>6
  <1> QED
    BY <1>1, <1>3, <1>4, <1>7, <1>8 DEF Gathered

-----------------------------------------------------------------------------
(* The changes.                                                            *)

LayerRules == {"layers.api_no_infrastructure", "layers.service_no_api_schemas"}

LEMMA MisuseRules ==
    DOMAIN Misuses = {"routing.use_zodiac_api_router", "exceptions.use_zodiac_exception",
                      "db.no_partial_get_session", "db.no_bare_session_dependency",
                      "http.use_zodiac_client"}
  BY DEF Misuses

\* What each rule reports, and where.
LEMMA FoundKinds ==
    ASSUME NEW f, NEW g \in Found(f)
    PROVE  /\ g.file = f
           /\ \/ g.rule = "parse.syntax_error" /\ ~source[f].parses
              \/ g.rule = "routing.fastapi_api_router_import"
              \/ g.rule \in DOMAIN Misuses /\ g = Hit(g.rule, f, Rest) /\ Hits(f, g.rule) # {}
              \/ g.rule \in LayerRules /\ g \in CheckLayers(f)
              \/ /\ g.rule = "bootstrap.subapp_no_setup_loguru"
                 /\ IsSubAppFactory(f) /\ "setup_loguru" \in Calls(f)
              \/ /\ g.rule = "bootstrap.register_exception_handlers"
                 /\ g.part \in Factories(f) /\ "register_exception_handlers" \notin Calls(f)
              \/ /\ g.rule = "bootstrap.register_middleware" /\ g.part \in Factories(f)
                 /\ IsAppEntry(f) /\ layout = "standard-3tier" /\ Calls(f) \cap Middleware = {}
              \/ /\ g.rule = "bootstrap.parent_no_register_middleware" /\ g.part \in Factories(f)
                 /\ IsAppEntry(f) /\ layout = "sub-applications" /\ Calls(f) \cap Middleware # {}
              \/ /\ g.rule = "bootstrap.subapp_register_middleware" /\ g.part \in Factories(f)
                 /\ IsSubAppFactory(f) /\ Calls(f) \cap Middleware = {}
  <1>1. CASE ~source[f].parses
    BY <1>1, HitFacts DEF Found, FileHit
  <1>2. CASE source[f].parses
    <2>1. \/ g \in CheckApiRouterImport(f) \/ g \in CheckMisuse(f) \/ g \in CheckLayers(f)
          \/ g \in CheckSetupLoguru(f) \/ g \in Handlers(f) \/ g \in ProcessMiddleware(f)
          \/ g \in MountedMiddleware(f)
      BY <1>2 DEF Found, CheckModule
    <2>2. CASE g \in CheckApiRouterImport(f)
      BY <2>2, HitFacts DEF CheckApiRouterImport, FileHit
    <2>3. CASE g \in CheckMisuse(f)
      <3>1. PICK rule \in DOMAIN Misuses : Hits(f, rule) # {} /\ g = Hit(rule, f, Rest)
        BY <2>3 DEF CheckMisuse
      <3> QED
        BY <3>1, HitFacts
    <2>4. CASE g \in CheckLayers(f)
      BY <2>4, HitFacts DEF CheckLayers, FileHit, LayerRules
    <2>5. CASE g \in CheckSetupLoguru(f)
      BY <2>5, HitFacts DEF CheckSetupLoguru, FileHit
    <2>6. CASE g \in Handlers(f)
      BY <2>6, HitFacts DEF Handlers
    <2>7. CASE g \in ProcessMiddleware(f)
      BY <2>7, HitFacts DEF ProcessMiddleware
    <2>8. CASE g \in MountedMiddleware(f)
      BY <2>8, HitFacts DEF MountedMiddleware
    <2> QED
      BY <2>1, <2>2, <2>3, <2>4, <2>5, <2>6, <2>7, <2>8
  <1> QED
    BY <1>1, <1>2

LEMMA MissingKind ==
    \A g \in MissingSetupLoguru : g.rule = "bootstrap.setup_loguru" /\ g.part = Rest
  BY HitFacts DEF MissingSetupLoguru

LEMMA FirstExists ==
    ASSUME NEW S \in SUBSET Nat, S # {}
    PROVE  \E m \in S : \A k \in S : m <= k
  <1>1. PICK m \in S : \A k \in S : ~ (<<k, m>> \in OpToRel(<, Nat))
    BY NatLessThanWellFounded, WFMin
  <1>2. \A k \in S : ~ (k < m)
    BY <1>1 DEF OpToRel
  <1> QED
    BY <1>2

\* Where the findings of a report come from.
LEMMA ReportedFrom ==
    ASSUME CheckIInv, phase = "reported", NEW g \in findings
    PROVE  \/ /\ g \in MissingSetupLoguru /\ g.file \in File
              /\ Saw("FastAPI") /\ ~Saw("setup_loguru")
           \/ g \in Found(g.file) /\ g.file \in There /\ g.file \in File
  <1>1. findings = (UNION {Found(f) : f \in Checked}) \cup
                        (IF sawFastapi /\ ~sawSetupLoguru THEN MissingSetupLoguru ELSE {})
    BY DEF CheckIInv, Gathered
  <1>2. CASE \E f \in Checked : g \in Found(f)
    <2>1. PICK f \in Checked : g \in Found(f)
      BY <1>2
    <2> QED
      BY <2>1, FoundKinds DEF Checked, There
  <1>3. CASE g \in MissingSetupLoguru /\ sawFastapi /\ ~sawSetupLoguru
    <2>0. Saw("FastAPI") /\ ~Saw("setup_loguru")
      BY <1>3 DEF CheckIInv, Gathered
    <2>1. \A i \in DOMAIN EntryCandidates : EntryCandidates[i] \in File
      BY FilesAssumption, LenProperties DEF File
    <2>2. entry = FirstEntry
      BY DEF CheckIInv, Gathered
    <2>3. DOMAIN EntryCandidates \subseteq Nat /\ 1 \in DOMAIN EntryCandidates
      BY FilesAssumption, EmptySeq, LenProperties
    <2>4. CASE EntriesThere = {}
      BY <1>3, <2>0, <2>1, <2>2, <2>3, <2>4, HitFacts DEF FirstEntry, MissingSetupLoguru
    <2>5. CASE EntriesThere # {}
      <3>1. EntriesThere \subseteq DOMAIN EntryCandidates
        BY DEF EntriesThere
      <3>2. \E i \in EntriesThere : \A j \in EntriesThere : i <= j
        BY <2>3, <2>5, <3>1, FirstExists
      <3>3. PICK i \in EntriesThere : entry = <<EntryCandidates[i]>>
        BY <2>2, <2>5, <3>2 DEF FirstEntry
      <3> QED
        BY <1>3, <2>0, <2>1, <3>1, <3>3, HitFacts DEF MissingSetupLoguru
    <2> QED
      BY <1>3, <2>4, <2>5
  <1> QED
    BY <1>1, <1>2, <1>3


\* The changes leave a file one that may be: a file, by its parts.
FileOf(t, s, b, i, u) == [there |-> t, parses |-> s, body |-> b, imports |-> i, uses |-> u]

\* The changes, made to a file that is known by its parts.
WithUses(c, U) == [c EXCEPT !.uses = U]
WithImports(c, I, U) == [c EXCEPT !.imports = I, !.uses = U]
WithCall(b, p, call) == [b EXCEPT ![p] = b[p] \cup {call}]

LEMMA UsesReplaced ==
    \A a1, a2, a3, a4, a5, U :
        WithUses(FileOf(a1, a2, a3, a4, a5), U) = FileOf(a1, a2, a3, a4, U)
  BY DEF FileOf, WithUses

LEMMA BodyReplaced ==
    \A a1, a2, a3, a4, a5, b :
        [FileOf(a1, a2, a3, a4, a5) EXCEPT !.body = b] = FileOf(a1, a2, b, a4, a5)
  BY DEF FileOf

LEMMA ImportsReplaced ==
    \A a1, a2, a3, a4, a5, I, U :
        WithImports(FileOf(a1, a2, a3, a4, a5), I, U) = FileOf(a1, a2, a3, I, U)
  <1> TAKE a1, a2, a3, a4, a5, I, U
  <1> DEFINE d == [FileOf(a1, a2, a3, a4, a5) EXCEPT !.imports = I]
  <1>1. d = FileOf(a1, a2, a3, I, a5)
    BY DEF FileOf
  <1>2. WithImports(FileOf(a1, a2, a3, a4, a5), I, U) = [d EXCEPT !.uses = U]
    BY Zenon DEF WithImports
  <1> HIDE DEF d
  <1>3. [d EXCEPT !.uses = U] = FileOf(a1, a2, a3, I, U)
    BY <1>1 DEF FileOf
  <1> QED
    BY <1>2, <1>3

LEMMA CallAdded ==
    \A a1, a2, a3, a4, a5, p, call, t : t = TRUE =>
        Adds(FileOf(a1, a2, a3, a4, a5), p, call)
            = FileOf(t, a2, WithCall(a3, p, call), a4, a5)
  <1> SUFFICES ASSUME NEW a1, NEW a2, NEW a3, NEW a4, NEW a5, NEW p, NEW call,
                      NEW t, t = TRUE
               PROVE  Adds(FileOf(a1, a2, a3, a4, a5), p, call)
                          = FileOf(t, a2, WithCall(a3, p, call), a4, a5)
    OBVIOUS
  <1> DEFINE c == FileOf(a1, a2, a3, a4, a5)
             true == TRUE
             d == [c EXCEPT !.there = true]
             new == [d.body EXCEPT ![p] = @ \cup {call}]
  <1>1. d = FileOf(true, a2, a3, a4, a5)
    <2> HIDE DEF true
    <2> QED
      BY DEF FileOf
  <1>2. Adds(c, p, call) = [d EXCEPT !.body = new]
    BY Zenon DEF Adds
  <1>0. t = true
    OBVIOUS
  <1> HIDE DEF c, d, true
  <1>3. new = WithCall(a3, p, call)
    BY <1>1 DEF FileOf, WithCall
  <1> HIDE DEF new
  <1>4. [d EXCEPT !.body = new] = FileOf(true, a2, new, a4, a5)
    BY <1>1 DEF FileOf
  <1> QED
    BY <1>2, <1>3, <1>4, <1>0 DEF c

LEMMA Fields ==
    \A t, s, b, i, u : /\ FileOf(t, s, b, i, u).there = t /\ FileOf(t, s, b, i, u).parses = s
                       /\ FileOf(t, s, b, i, u).body = b /\ FileOf(t, s, b, i, u).imports = i
                       /\ FileOf(t, s, b, i, u).uses = u
  BY DEF FileOf

LEMMA MayBe ==
    ASSUME NEW f, NEW s, NEW b \in [Part -> SUBSET (Call \cup Helper)], NEW i, NEW u,
           \A h \in Helper : b[h] # {} => DefinedIn[h] = f,
           DOMAIN i \subseteq Nat, \A n \in DOMAIN i : IsStatement(i[n]),
           \A x \in u : x.name \in Seq(STRING) \ {<<>>} /\ x.argument \in Seq(STRING)
    PROVE  Possible(f, FileOf(TRUE, s, b, i, u))
  <1> DEFINE c == FileOf(TRUE, s, b, i, u)
  <1>1. /\ c.there = TRUE /\ c.parses = s /\ c.body = b /\ c.imports = i /\ c.uses = u
        /\ c = [there |-> TRUE, parses |-> s, body |-> b, imports |-> i, uses |-> u]
    BY DEF FileOf
  <1> HIDE DEF c
  <1>2. /\ c = [there |-> c.there, parses |-> c.parses, body |-> c.body,
                imports |-> c.imports, uses |-> c.uses]
        /\ ~c.there => c = Absent
    BY <1>1
  <1> SUFFICES Possible(f, c)
    BY DEF c
  <1> QED
    BY <1>1, <1>2 DEF Possible

LEMMA HoldsOf ==
    ASSUME NEW f, NEW c, Possible(f, c)
    PROVE  /\ c = FileOf(c.there, c.parses, c.body, c.imports, c.uses)
           /\ c.body \in [Part -> SUBSET (Call \cup Helper)]
           /\ ~c.there => c = Absent
           /\ \A h \in Helper : c.body[h] # {} => DefinedIn[h] = f
           /\ DOMAIN c.imports \subseteq Nat /\ \A i \in DOMAIN c.imports : IsStatement(c.imports[i])
           /\ \A u \in c.uses : u.name \in Seq(STRING) \ {<<>>} /\ u.argument \in Seq(STRING)
  BY DEF Possible, FileOf

\* A file that may be, by its parts.
LEMMA PartsOf ==
    ASSUME NEW f, NEW c, Possible(f, c)
    PROVE  \E t, s, b, i, u :
               /\ c = FileOf(t, s, b, i, u)
               /\ c.there = t /\ c.parses = s /\ c.body = b /\ c.imports = i /\ c.uses = u
  BY HoldsOf

LEMMA PossibleUses ==
    ASSUME NEW f, NEW c, Possible(f, c), c.there, NEW U, U \subseteq c.uses
    PROVE  Possible(f, WithUses(c, U))
  <1>1. PICK t, s, b, i, u :
            /\ c = FileOf(t, s, b, i, u)
            /\ c.there = t /\ c.parses = s /\ c.body = b /\ c.imports = i /\ c.uses = u
    BY PartsOf
  <1>2. WithUses(c, U) = FileOf(t, s, b, i, U)
    BY <1>1, UsesReplaced
  <1>3. Possible(f, FileOf(TRUE, s, b, i, U))
    <2>1. /\ b \in [Part -> SUBSET (Call \cup Helper)]
          /\ \A h \in Helper : b[h] # {} => DefinedIn[h] = f
      BY <1>1, HoldsOf
    <2>2. /\ DOMAIN i \subseteq Nat /\ \A x \in DOMAIN i : IsStatement(i[x])
          /\ \A x \in u : x.name \in Seq(STRING) \ {<<>>} /\ x.argument \in Seq(STRING)
      BY <1>1, HoldsOf
    <2> QED
      BY <1>1, <2>1, <2>2, MayBe
  <1>4. t = TRUE
    BY <1>1, HoldsOf
  <1> QED
    BY <1>2, <1>3, <1>4

LEMMA PossibleImports ==
    ASSUME NEW f, NEW c, Possible(f, c), c.there, NEW I, NEW U,
           DOMAIN I \subseteq Nat, \A i \in DOMAIN I : IsStatement(I[i]), U \subseteq c.uses
    PROVE  Possible(f, WithImports(c, I, U))
  <1>1. PICK t, s, b, i, u :
            /\ c = FileOf(t, s, b, i, u)
            /\ c.there = t /\ c.parses = s /\ c.body = b /\ c.imports = i /\ c.uses = u
    BY PartsOf
  <1>2. WithImports(c, I, U) = FileOf(t, s, b, I, U)
    BY <1>1, ImportsReplaced
  <1>3. Possible(f, FileOf(TRUE, s, b, I, U))
    <2>1. /\ b \in [Part -> SUBSET (Call \cup Helper)]
          /\ \A h \in Helper : b[h] # {} => DefinedIn[h] = f
      BY <1>1, HoldsOf
    <2>2. /\ DOMAIN i \subseteq Nat /\ \A x \in DOMAIN i : IsStatement(i[x])
          /\ \A x \in u : x.name \in Seq(STRING) \ {<<>>} /\ x.argument \in Seq(STRING)
      BY <1>1, HoldsOf
    <2> QED
      BY <1>1, <2>1, <2>2, MayBe
  <1>4. t = TRUE
    BY <1>1, HoldsOf
  <1> QED
    BY <1>2, <1>3, <1>4

LEMMA PossibleAdds ==
    ASSUME NEW f, NEW c, Possible(f, c), NEW p, NEW call,
           \/ p = Rest /\ call = "setup_loguru"
           \/ /\ p \in Factory
              /\ call \in {"register_exception_handlers", "register_middleware"}
    PROVE  Possible(f, Adds(c, p, call))
  <1>1. PICK t, s, b, i, u :
            /\ c = FileOf(t, s, b, i, u)
            /\ c.there = t /\ c.parses = s /\ c.body = b /\ c.imports = i /\ c.uses = u
    BY PartsOf
  <1> DEFINE n == WithCall(b, p, call)
  <1>2. p \in Part /\ call \in Call
    BY DEF Part, Call
  <1>3. b \in [Part -> SUBSET (Call \cup Helper)]
    BY <1>1, HoldsOf
  <1>4. /\ n \in [Part -> SUBSET (Call \cup Helper)]
        /\ \A q \in Part \ {p} : n[q] = b[q]
    BY <1>2, <1>3 DEF WithCall
  <1> HIDE DEF n
  <1>5. p \notin Helper /\ Helper \subseteq Part
    BY ServicesAssumption DEF Part
  <1>6. \A h \in Helper : n[h] # {} => DefinedIn[h] = f
    BY <1>1, <1>4, <1>5, HoldsOf
  <1>7. Possible(f, FileOf(TRUE, s, n, i, u))
    <2>1. /\ DOMAIN i \subseteq Nat /\ \A x \in DOMAIN i : IsStatement(i[x])
          /\ \A x \in u : x.name \in Seq(STRING) \ {<<>>} /\ x.argument \in Seq(STRING)
      BY <1>1, HoldsOf
    <2> QED
      BY <1>4, <1>6, <2>1, MayBe
  <1>8. Adds(c, p, call) = FileOf(TRUE, s, n, i, u)
    <2> DEFINE true == TRUE
    <2>1. true = TRUE
      OBVIOUS
    <2> HIDE DEF true
    <2>2. Adds(FileOf(t, s, b, i, u), p, call) = FileOf(true, s, WithCall(b, p, call), i, u)
      BY <2>1, CallAdded
    <2> QED
      BY <1>1, <2>1, <2>2 DEF n
  <1> QED
    BY <1>7, <1>8

LEMMA PossibleDrops ==
    ASSUME NEW f, NEW c, Possible(f, c), c.there,
           NEW calls \in SUBSET ({"setup_loguru"} \cup Middleware)
    PROVE  Possible(f, Drops(c, calls))
  <1>1. PICK t, s, b, i, u :
            /\ c = FileOf(t, s, b, i, u)
            /\ c.there = t /\ c.parses = s /\ c.body = b /\ c.imports = i /\ c.uses = u
    BY PartsOf
  <1> DEFINE n == [p \in Part |-> b[p] \ calls]
  <1>2. b \in [Part -> SUBSET (Call \cup Helper)]
    BY <1>1, HoldsOf
  <1>3. n \in [Part -> SUBSET (Call \cup Helper)] /\ \A q \in Part : n[q] = b[q] \ calls
    BY <1>2
  <1>4. Drops(c, calls) = [c EXCEPT !.body = n]
    BY <1>1 DEF Drops
  <1> HIDE DEF n
  <1>5. \A h \in Helper : n[h] # {} => DefinedIn[h] = f
    BY <1>1, <1>3, HoldsOf DEF Part
  <1>7. Possible(f, FileOf(TRUE, s, n, i, u))
    <2>1. /\ DOMAIN i \subseteq Nat /\ \A x \in DOMAIN i : IsStatement(i[x])
          /\ \A x \in u : x.name \in Seq(STRING) \ {<<>>} /\ x.argument \in Seq(STRING)
      BY <1>1, HoldsOf
    <2> QED
      BY <1>3, <1>5, <2>1, MayBe
  <1>8. [c EXCEPT !.body = n] = FileOf(t, s, n, i, u)
    BY <1>1, BodyReplaced
  <1>9. t = TRUE
    BY <1>1, HoldsOf
  <1> QED
    BY <1>4, <1>7, <1>8, <1>9

LEMMA SoundFollow ==
    ASSUME CheckIInv, NEW g \in findings, Follow(g)
    PROVE  Sound'
  <1> DEFINE f == g.file
             c == source[f]
  <1>1. PICK d \in Changed(c, g) : source' = [source EXCEPT ![f] = d]
    BY DEF Follow
  <1>2. /\ phase = "reported" /\ Sound
        /\ c.parses \/ g.rule = "parse.syntax_error"
    BY DEF Follow, CheckIInv
  <1>3. \/ g \in MissingSetupLoguru /\ f \in File
        \/ g \in Found(f) /\ f \in There /\ f \in File
    BY <1>2, ReportedFrom
  <1>4. f \in File /\ Possible(f, c)
    BY <1>2, <1>3 DEF Sound
  <1>5. Possible(f, d)
    <2> HIDE DEF f, c
    <2>1. CASE g.rule = "bootstrap.setup_loguru"
      <3>1. d = Adds(c, Rest, "setup_loguru")
        BY <1>1, <2>1, MisuseRules DEF Changed, f, c
      <3> QED
        BY <1>4, <3>1, PossibleAdds
    <2>2. CASE g.rule # "bootstrap.setup_loguru"
      <3>1. g \in Found(f) /\ c.there
        BY <1>3, <2>2, MissingKind DEF There, f, c
      <3>2. CASE g.rule = "parse.syntax_error"
        <4>1. d \in Repaired[f]
          BY <1>1, <3>2, MisuseRules DEF Changed, f
        <4> QED
          BY <1>4, <4>1, ServicesAssumption
      <3>3. CASE g.rule \in DOMAIN Misuses
        <4>1. d = WithUses(c, c.uses \ Hits(f, g.rule))
          BY <1>1, <3>3, MisuseRules DEF Changed, WithUses, f
        <4> QED
          BY <1>4, <3>1, <4>1, PossibleUses
      <3>4. CASE g.rule \in LayerRules \cup {"routing.fastapi_api_router_import"}
        <4>1. \/ d = Unimports(c, LAMBDA s : Qualified(At[f], s) \in FastapiApiRouters)
              \/ d = Unimports(c, LAMBDA s : Crosses(f, ModuleOf(At[f], s)))
          BY <1>1, <3>4, MisuseRules DEF Changed, LayerRules, f
        <4>2. PICK D \in SUBSET DOMAIN c.imports, U \in SUBSET c.uses :
                  d = WithImports(c, Restrict(c.imports, D), U)
          BY <4>1 DEF Unimports, WithImports
        <4>3. /\ DOMAIN Restrict(c.imports, D) = D
              /\ \A i \in D : Restrict(c.imports, D)[i] = c.imports[i]
          BY DEF Restrict
        <4>4. /\ DOMAIN c.imports \subseteq Nat
              /\ \A i \in DOMAIN c.imports : IsStatement(c.imports[i])
          BY <1>4, HoldsOf
        <4> DEFINE I == Restrict(c.imports, D)
        <4>5. DOMAIN I \subseteq Nat /\ \A i \in DOMAIN I : IsStatement(I[i])
          BY <4>3, <4>4
        <4> HIDE DEF I
        <4>6. Possible(f, WithImports(c, I, U))
          BY <1>4, <3>1, <4>5, PossibleImports
        <4> QED
          BY <4>2, <4>6 DEF I
      <3>5. CASE g.rule = "bootstrap.subapp_no_setup_loguru"
        <4>1. d = Drops(c, {"setup_loguru"})
          BY <1>1, <3>5, MisuseRules DEF Changed, f
        <4> QED
          BY <1>4, <3>1, <4>1, PossibleDrops
      <3>6. CASE g.rule = "bootstrap.parent_no_register_middleware"
        <4>1. d = Drops(c, Middleware)
          BY <1>1, <3>6, MisuseRules DEF Changed, f
        <4> QED
          BY <1>4, <3>1, <4>1, PossibleDrops
      <3>7. CASE /\ g.rule \in {"bootstrap.register_exception_handlers",
                                "bootstrap.register_middleware",
                                "bootstrap.subapp_register_middleware"}
                 /\ g.part \in Factories(f)
        <4>1. \/ d = Adds(c, g.part, "register_exception_handlers")
              \/ d = Adds(c, g.part, "register_middleware")
          BY <1>1, <3>7, MisuseRules DEF Changed, f
        <4>2. g.part \in Factory
          BY <3>7 DEF Factories
        <4> QED
          BY <1>4, <4>1, <4>2, PossibleAdds
      <3> QED
        BY <3>1, <3>2, <3>3, <3>4, <3>5, <3>6, <3>7, FoundKinds
    <2> QED
      BY <2>1, <2>2
  <1> QED
    BY <1>1, <1>2, <1>4, <1>5 DEF Sound

LEMMA CheckInductive == CheckIInv /\ [CheckNext]_checkVars => CheckIInv'
  <1> SUFFICES ASSUME CheckIInv, [CheckNext]_checkVars
               PROVE  CheckIInv'
    OBVIOUS
  <1>1. CASE Discover
    BY <1>1, GatheredDiscover DEF Discover, CheckIInv, Sound
  <1>2. ASSUME NEW f \in File, CheckFile(f)
        PROVE  CheckIInv'
    BY <1>2, GatheredCheckFile DEF CheckFile, CheckIInv, Sound
  <1>3. CASE Report
    BY <1>3, GatheredReport DEF Report, CheckIInv, Sound
  <1>4. ASSUME NEW g \in findings, Follow(g)
        PROVE  CheckIInv'
    <2>1. phase' = "start"
      BY <1>4 DEF Follow
    <2> QED
      BY <1>4, <2>1, SoundFollow DEF CheckIInv, Gathered
  <1>5. CASE UNCHANGED checkVars
    <2>1. /\ UNCHANGED <<source, threeTier, project>> /\ phase' = phase /\ source' = source
          /\ layout' = layout /\ entry' = entry /\ unchecked' = unchecked
          /\ findings' = findings /\ sawSetupLoguru' = sawSetupLoguru /\ sawFastapi' = sawFastapi
      BY <1>5 DEF checkVars, project, walk
    <2>2. \A f : Found(f)' = Found(f) /\ Calls(f)' = Calls(f)
      BY <2>1, FoundSame
    <2>3. /\ Layout' = Layout /\ FirstEntry' = FirstEntry /\ There' = There
          /\ MissingSetupLoguru' = MissingSetupLoguru
      BY <2>1, ProjectSame
    <2>4. Checked' = Checked
      BY <2>1, <2>3 DEF Checked
    <2>5. \A call : Saw(call)' <=> Saw(call)
      BY <2>1, <2>2, <2>4 DEF Saw
    <2>6. (UNION {Found(f) : f \in Checked})' = UNION {Found(f) : f \in Checked}
      BY <2>2, <2>4
    <2>7. Gathered'
      BY <2>1, <2>3, <2>5, <2>6 DEF Gathered, CheckIInv
    <2> QED
      BY <2>1, <2>7 DEF CheckIInv, Sound
  <1> QED
    BY <1>1, <1>2, <1>3, <1>4, <1>5 DEF CheckNext

\* At every step of the command, what it has found is what its rules find in the
\* files it has passed, and every change leaves files that may be.
THEOREM CheckInvariant == CheckSpec => []CheckIInv
  BY InitSound, CheckInductive, PTL DEF CheckSpec

-----------------------------------------------------------------------------
(* What a report says.                                                     *)

\* Everything that the rules find is in the report.
LEMMA ReportComplete ==
    ASSUME CheckIInv, phase = "reported"
    PROVE  /\ \A f \in There : Found(f) \subseteq findings
           /\ Checked = There
           /\ Saw("FastAPI") /\ ~Saw("setup_loguru") => MissingSetupLoguru \subseteq findings
           /\ layout = Layout /\ entry = FirstEntry
  <1>1. /\ unchecked = {} /\ layout = Layout /\ entry = FirstEntry
        /\ findings = (UNION {Found(f) : f \in Checked}) \cup
               (IF sawFastapi /\ ~sawSetupLoguru THEN MissingSetupLoguru ELSE {})
        /\ (sawSetupLoguru <=> Saw("setup_loguru"))
        /\ (sawFastapi <=> Saw("FastAPI"))
    BY DEF CheckIInv, Gathered
  <1>2. Checked = There
    BY <1>1 DEF Checked
  <1>3. \A f \in There : Found(f) \subseteq findings
    BY <1>1, <1>2
  <1> QED
    BY <1>1, <1>2, <1>3

\* What a file holds, of one that is there or not.
LEMMA Held ==
    ASSUME CheckIInv, NEW f \in File
    PROVE  /\ Possible(f, source[f])
           /\ f \notin There => /\ source[f].parses /\ source[f].imports = <<>>
                                /\ source[f].uses = {} /\ Calls(f) = {} /\ Factories(f) = {}
  <1>1. Possible(f, source[f])
    BY DEF CheckIInv, Sound
  <1>2. ASSUME f \notin There
        PROVE  /\ source[f].parses /\ source[f].imports = <<>>
               /\ source[f].uses = {} /\ Calls(f) = {} /\ Factories(f) = {}
    <2>1. source[f] = Absent
      BY <1>1, <1>2, HoldsOf DEF There
    <2>2. \A p \in Part : source[f].body[p] = {}
      BY <2>1 DEF Absent, NoBody
    <2> QED
      BY <2>1, <2>2 DEF Absent, Calls, Factories, Part
  <1> QED
    BY <1>1, <1>2

\* Where helpers are called from their own file, all that a part reaches stands
\* in it.
LEMMA ReachedAtHome ==
    ASSUME CheckIInv, Legible, NEW f \in File, NEW p \in Part, NEW h \in Reached(f, p)
    PROVE  h \in Helper /\ DefinedIn[h] = f
  <1> DEFINE S == {k \in Helper : DefinedIn[k] = f}
  <1>1. Helper \cap source[f].body[p] \subseteq S
    BY DEF Legible
  <1>2. \A k \in S : Helper \cap source[DefinedIn[k]].body[k] \subseteq S
    BY DEF Legible, Part
  <1>3. S \in SUBSET Helper
    OBVIOUS
  <1> HIDE DEF S
  <1>4. h \in S
    BY <1>1, <1>2, <1>3 DEF Reached
  <1> QED
    BY <1>4 DEF S

LEMMA GotIsCalled ==
    ASSUME CheckIInv, Legible, NEW f \in File, NEW p \in Part, NEW call, Gets(f, p, call)
    PROVE  call \in Calls(f)
  <1>1. CASE call \in source[f].body[p]
    BY <1>1 DEF Calls
  <1>2. ASSUME NEW h \in Helper, call \in source[DefinedIn[h]].body[h], h \in Reached(f, p)
        PROVE  call \in Calls(f)
    <2>1. DefinedIn[h] = f
      BY <1>2, ReachedAtHome
    <2> QED
      BY <1>2, <2>1 DEF Calls, Part
  <1> QED
    BY <1>1, <1>2 DEF Gets

\* Where helpers are called too, what is called in a file runs from one of its
\* factories or its top level.
LEMMA CalledRuns ==
    ASSUME CheckIInv, Legible, NEW f \in File, NEW call \in Calls(f)
    PROVE  \E p \in Root : Gets(f, p, call)
  <1>1. PICK q \in Part : call \in source[f].body[q]
    BY DEF Calls
  <1>2. CASE q \in Root
    BY <1>1, <1>2 DEF Gets
  <1>3. CASE q \in Helper
    <2>1. DefinedIn[q] = f
      BY <1>1, <1>3, Held, HoldsOf
    <2>2. PICK g \in File, p \in Root : q \in Reached(g, p)
      BY <1>1, <1>3, <2>1 DEF Legible
    <2>3. g = f
      BY <2>1, <2>2, ReachedAtHome DEF Root, Part
    <2> QED
      BY <1>1, <1>3, <2>1, <2>2, <2>3 DEF Gets
  <1> QED
    BY <1>2, <1>3 DEF Part, Root

\* And the wiring is for one of the factories.
LEMMA CalledFor ==
    ASSUME CheckIInv, Legible, NEW f \in File, NEW call \in Calls(f),
           call \in {"FastAPI", "register_exception_handlers"} \cup Middleware
    PROVE  \E p \in Factories(f) : Gets(f, p, call)
  BY CalledRuns DEF Legible

\* The apps are those of the factories.
LEMMA AppsOfFactories ==
    ASSUME NEW f \in File
    PROVE  /\ Factories(f) \subseteq Apps(f)
           /\ Apps(f) \subseteq Part /\ Root \subseteq Part
           /\ Legible => Apps(f) \subseteq Factories(f)
  BY DEF Factories, Apps, Gets, Root, Part, Legible

LEMMA FactoryHasApp ==
    ASSUME NEW f, Factories(f) # {}
    PROVE  "FastAPI" \in Calls(f)
  BY DEF Calls, Factories, Part

-----------------------------------------------------------------------------
(* No false alarm.                                                         *)

LEMMA NoAlarm == CheckIInv => NoFalseAlarm
  <1> SUFFICES ASSUME CheckIInv, phase = "reported", Wired, Legible, ~OnBehalf, NEW g \in findings
               PROVE  g.rule \notin
                   {"parse.syntax_error", "bootstrap.setup_loguru",
                    "bootstrap.subapp_no_setup_loguru", "bootstrap.register_exception_handlers",
                    "bootstrap.register_middleware", "bootstrap.parent_no_register_middleware",
                    "bootstrap.subapp_register_middleware"}
    BY DEF NoFalseAlarm
  <1> DEFINE f == g.file
  <1>1. CASE Saw("FastAPI") /\ ~Saw("setup_loguru")
    <2>1. PICK h \in File : "FastAPI" \in Calls(h)
      BY <1>1 DEF Saw, Checked, There
    <2>2. Factories(h) # {}
      BY <2>1, CalledFor
    <2>3. PICK k \in File : "setup_loguru" \in Calls(k)
      <3>1. Apps(h) # {}
        BY <2>2, AppsOfFactories
      <3>2. PICK k \in File, p \in Root : Gets(k, p, "setup_loguru")
        BY <3>1 DEF Wired
      <3> QED
        BY <3>2, AppsOfFactories, GotIsCalled
    <2>4. k \in There /\ source[k].parses
      BY <2>3, Held DEF Wired
    <2> QED
      BY <1>1, <2>3, <2>4, ReportComplete DEF Saw
  <1>2. CASE g \in Found(f) /\ f \in File
    <2>1. source[f].parses
      BY <1>2 DEF Wired
    <2>2. CASE \/ g.rule = "routing.fastapi_api_router_import"
               \/ g.rule \in DOMAIN Misuses \/ g.rule \in LayerRules
      BY <2>2, MisuseRules DEF LayerRules
    <2>3. CASE IsSubAppFactory(f) /\ "setup_loguru" \in Calls(f)
      BY <1>2, <2>3, CalledRuns DEF Wired
    <2>4. CASE g.part \in Factories(f) /\ "register_exception_handlers" \notin Calls(f)
      BY <1>2, <2>4, AppsOfFactories, GotIsCalled DEF Wired
    <2>5. CASE /\ g.part \in Factories(f) /\ IsAppEntry(f)
               /\ layout = "standard-3tier" /\ Calls(f) \cap Middleware = {}
      BY <1>2, <2>5, AppsOfFactories, GotIsCalled DEF Wired, Middleware
    <2>6. CASE /\ g.part \in Factories(f) /\ IsAppEntry(f)
               /\ layout = "sub-applications" /\ Calls(f) \cap Middleware # {}
      <3>1. "register_middleware_for_mounted" \notin Calls(f)
        BY <1>2, <2>6 DEF OnBehalf
      <3>2. "register_middleware" \in Calls(f)
        BY <2>6, <3>1 DEF Middleware
      <3>3. \E p \in Factories(f) : Gets(f, p, "register_middleware")
        BY <1>2, <3>2, CalledFor DEF Middleware
      <3> QED
        BY <1>2, <2>6, <3>3, AppsOfFactories DEF Wired
    <2>7. CASE g.part \in Factories(f) /\ IsSubAppFactory(f) /\ Calls(f) \cap Middleware = {}
      <3>1. layout = "sub-applications"
        BY <2>7 DEF IsSubAppFactory
      <3>2. Gets(f, g.part, "register_middleware") # OnBehalf
        BY <1>2, <2>7, <3>1, AppsOfFactories DEF Wired
      <3>3. Gets(f, g.part, "register_middleware")
        BY <3>2 DEF Gets, OnBehalf
      <3> QED
        BY <1>2, <2>7, <3>3, AppsOfFactories, GotIsCalled DEF Middleware
    <2> QED
      BY <1>2, <2>1, <2>2, <2>3, <2>4, <2>5, <2>6, <2>7, FoundKinds
  <1> QED
    BY <1>1, <1>2, ReportedFrom

\* A service that is wired as the documents ask is never reported for its wiring,
\* whatever its files, if its calls can be read file by file: the rules of
\* zodiac/check/rules.py.
THEOREM NoFalseAlarms == CheckSpec => []NoFalseAlarm
  BY CheckInvariant, NoAlarm, PTL

-----------------------------------------------------------------------------
(* A check without errors.                                                 *)

\* No rule but the one on imports may have found anything.
LEMMA NothingFound ==
    ASSUME CheckIInv, Ok, NEW f \in There
    PROVE  /\ source[f].parses
           /\ \A p \in Factories(f) : "register_exception_handlers" \in Calls(f)
           /\ ~ (IsSubAppFactory(f) /\ "setup_loguru" \in Calls(f))
           /\ IsAppEntry(f) /\ layout = "standard-3tier" /\ Factories(f) # {}
                  => Calls(f) \cap Middleware # {}
           /\ IsAppEntry(f) /\ layout = "sub-applications" /\ Factories(f) # {}
                  => Calls(f) \cap Middleware = {}
           /\ IsSubAppFactory(f) /\ Factories(f) # {} => Calls(f) \cap Middleware # {}
  <1>1. \A g \in Found(f) : g.rule = "routing.fastapi_api_router_import"
    BY ReportComplete DEF Ok, Errors, Warnings
  <1>2. source[f].parses
    BY <1>1, HitFacts DEF Found, FileHit
  <1>3. CheckSetupLoguru(f) \cup Handlers(f) \cup ProcessMiddleware(f) \cup MountedMiddleware(f)
            \subseteq Found(f)
    BY <1>2 DEF Found, CheckModule
  <1>4. \A rule, p : Hit(rule, f, p) \in Found(f) => rule = "routing.fastapi_api_router_import"
    BY <1>1, HitFacts
  <1>5. \A p \in Factories(f) : "register_exception_handlers" \in Calls(f)
    BY <1>3, <1>4 DEF Handlers
  <1>6. ~ (IsSubAppFactory(f) /\ "setup_loguru" \in Calls(f))
    BY <1>3, <1>4 DEF CheckSetupLoguru, FileHit
  <1>7. IsAppEntry(f) /\ layout = "standard-3tier" /\ Factories(f) # {}
            => Calls(f) \cap Middleware # {}
    BY <1>3, <1>4 DEF ProcessMiddleware
  <1>8. IsAppEntry(f) /\ layout = "sub-applications" /\ Factories(f) # {}
            => Calls(f) \cap Middleware = {}
    BY <1>3, <1>4 DEF MountedMiddleware
  <1>9. IsSubAppFactory(f) /\ Factories(f) # {} => Calls(f) \cap Middleware # {}
    <2> SUFFICES ASSUME IsSubAppFactory(f), NEW p \in Factories(f), Calls(f) \cap Middleware = {}
                 PROVE  FALSE
      OBVIOUS
    <2>1. ~IsAppEntry(f)
      BY DEF IsSubAppFactory
    <2>2. Hit("bootstrap.subapp_register_middleware", f, p) \in MountedMiddleware(f)
      BY <2>1 DEF MountedMiddleware
    <2> QED
      BY <1>3, <1>4, <2>2
  <1> QED
    BY <1>2, <1>5, <1>6, <1>7, <1>8, <1>9

LEMMA OkWired == CheckIInv => OkMeansWired
  <1> SUFFICES ASSUME CheckIInv, Ok, Legible, \A f \in File : \A p, q \in Factories(f) : p = q
               PROVE  Wired
    BY DEF OkMeansWired
  <1>1. phase = "reported" /\ \A g \in findings : g.rule = "routing.fastapi_api_router_import"
    BY DEF Ok, Errors, Warnings
  \* A file has one app at most, so what is called for one is called for it.
  <1>2. ASSUME NEW f \in File, NEW p \in Apps(f), NEW call \in Calls(f),
               call \in {"FastAPI", "register_exception_handlers"} \cup Middleware
        PROVE  Gets(f, p, call)
    <2>1. PICK q \in Factories(f) : Gets(f, q, call)
      BY <1>2, CalledFor
    <2>2. p = q
      BY AppsOfFactories
    <2> QED
      BY <2>1, <2>2
  <1>3. ASSUME NEW f \in File, Apps(f) # {} \/ Calls(f) # {}
        PROVE  f \in There /\ (Apps(f) # {} => Factories(f) # {})
    BY <1>3, AppsOfFactories, Held
  <1>4. \A f \in File : source[f].parses
    BY Held, NothingFound
  <1>5. \A f \in File : \A p \in Apps(f) : Gets(f, p, "register_exception_handlers")
    <2> SUFFICES ASSUME NEW f \in File, NEW p \in Apps(f)
                 PROVE  Gets(f, p, "register_exception_handlers")
      OBVIOUS
    <2>1. "register_exception_handlers" \in Calls(f)
      BY <1>3, NothingFound
    <2> QED
      BY <1>2, <2>1
  <1>6. ASSUME layout = "standard-3tier", NEW f \in File, IsAppEntry(f), NEW p \in Apps(f)
        PROVE  Gets(f, p, "register_middleware")
    <2>1. Calls(f) \cap Middleware # {}
      BY <1>3, <1>6, NothingFound
    <2>2. "register_middleware_for_mounted" \notin Calls(f)
      BY <1>6 DEF Legible
    <2>3. "register_middleware" \in Calls(f)
      BY <2>1, <2>2 DEF Middleware
    <2> QED
      BY <1>2, <2>3 DEF Middleware
  <1>7. ASSUME layout = "sub-applications", NEW f \in File, NEW p \in Apps(f)
        PROVE  /\ IsAppEntry(f) => ~Gets(f, p, "register_middleware")
               /\ IsSubAppFactory(f) => Gets(f, p, "register_middleware") # OnBehalf
    <2>1. ASSUME NEW h \in File, IsAppEntry(h), NEW call \in Middleware
          PROVE  call \notin Calls(h)
      <3> SUFFICES ASSUME call \in Calls(h)
                   PROVE  FALSE
        OBVIOUS
      <3>1. Factories(h) # {} /\ h \in There
        BY <1>3, CalledFor
      <3> QED
        BY <1>7, <2>1, <3>1, NothingFound
    <2>2. ~OnBehalf
      BY <2>1 DEF OnBehalf, Middleware
    <2>3. CASE IsAppEntry(f)
      <3>1. "register_middleware" \notin Calls(f) /\ ~IsSubAppFactory(f)
        BY <2>1, <2>3 DEF Middleware, IsSubAppFactory
      <3>2. ~Gets(f, p, "register_middleware")
        BY <3>1, AppsOfFactories, GotIsCalled
      <3> QED
        BY <3>1, <3>2
    <2>4. CASE IsSubAppFactory(f)
      <3>1. Calls(f) \cap Middleware # {}
        BY <1>3, <2>4, NothingFound
      <3>2. ~IsAppEntry(f) /\ "register_middleware_for_mounted" \notin Calls(f)
        BY <2>4 DEF Legible, IsSubAppFactory
      <3>3. "register_middleware" \in Calls(f)
        BY <3>1, <3>2 DEF Middleware
      <3>4. Gets(f, p, "register_middleware")
        BY <1>2, <3>3 DEF Middleware
      <3> QED
        BY <2>2, <3>2, <3>4
    <2> QED
      BY <2>3, <2>4
  <1>8. ASSUME NEW f \in File, IsSubAppFactory(f), NEW p \in Root
        PROVE  ~Gets(f, p, "setup_loguru")
    <2>1. "setup_loguru" \notin Calls(f)
      BY <1>3, <1>8, NothingFound
    <2> QED
      BY <2>1, AppsOfFactories, GotIsCalled
  <1>9. ASSUME NEW f \in File, Apps(f) # {}
        PROVE  \E h \in File : \E p \in Root : Gets(h, p, "setup_loguru")
    <2> SUFFICES ASSUME ~ \E h \in File : "setup_loguru" \in Calls(h)
                 PROVE  FALSE
      BY CalledRuns
    <2>1. f \in There /\ source[f].parses /\ "FastAPI" \in Calls(f)
      BY <1>3, <1>4, <1>9, FactoryHasApp
    <2>2. Saw("FastAPI") /\ ~Saw("setup_loguru")
      BY <1>1, <2>1, ReportComplete DEF Saw, There
    <2>3. MissingSetupLoguru \subseteq findings
      BY <1>1, <2>2, ReportComplete
    <2> QED
      BY <1>1, <2>3, HitFacts DEF MissingSetupLoguru
  <1> QED
    BY <1>4, <1>5, <1>6, <1>7, <1>8, <1>9 DEF Wired

\* A check without errors means a service that is wired, where its calls can be
\* read file by file and each file builds one app at most: the rules of
\* zodiac/check/rules.py together.
THEOREM OkIsWired == CheckSpec => []OkMeansWired
  BY CheckInvariant, OkWired, PTL

-----------------------------------------------------------------------------
(* What the files import and use.                                          *)

LEMMA MisuseKept == CheckIInv => MisuseFound
  <1> SUFFICES ASSUME CheckIInv, phase = "reported", NEW f \in File,
                      source[f].parses, OneMeaning(At[f], source[f].imports),
                      \A u \in source[f].uses : \A s \in Range(source[f].imports) :
                          s.in \in {"", u.in} \/ BoundName(s) \notin UsedNames(u),
                      NEW rule \in DOMAIN Misuses
               PROVE  Hit(rule, f, Rest) \in findings <=>
                          Misused(f, rule, LAMBDA function, name :
                              Meaning(At[f], source[f].imports, function, name)) # {}
    BY DEF MisuseFound
  <1> DEFINE imports == source[f].imports
             uses == source[f].uses
  <1>1. At[f] \in Seq(STRING) \ {<<>>}
    BY FilesAssumption DEF File
  <1>2. /\ DOMAIN imports \subseteq Nat /\ \A i \in DOMAIN imports : IsStatement(imports[i])
        /\ \A u \in uses : u.name \in Seq(STRING) \ {<<>>} /\ u.argument \in Seq(STRING)
    BY Held, HoldsOf
  <1>3. ASSUME NEW u \in uses, NEW name \in {u.name, u.argument} \ {<<>>}
        PROVE  Resolved(f, u.in, name) = Meaning(At[f], imports, u.in, name)
    <2>1. Head(name) \in UsedNames(u)
      BY DEF UsedNames
    <2>2. \A s \in Range(imports) : s.in \in {"", u.in} \/ BoundName(s) # Head(name)
      BY <2>1
    <2>3. name \in Seq(STRING) \ {<<>>}
      BY <1>2
    <2> HIDE DEF imports
    <2>4. Resolve(At[f], imports, name) = Meaning(At[f], imports, u.in, name)
      <3>1. OneMeaning(At[f], imports)
        BY DEF imports
      <3> QED
        BY <1>1, <1>2, <2>2, <2>3, <3>1, SameMeaning
    <2> QED
      BY <2>4 DEF Resolved, imports
  <1>4. \A u \in uses :
            /\ Resolved(f, u.in, u.name) = Meaning(At[f], imports, u.in, u.name)
            /\ u.argument # <<>> =>
                   Resolved(f, u.in, u.argument) = Meaning(At[f], imports, u.in, u.argument)
    BY <1>2, <1>3
  <1>5. Hits(f, rule) = Misused(f, rule, LAMBDA function, name :
                            Meaning(At[f], imports, function, name))
    BY <1>4 DEF Hits, Misused
  <1>6. ASSUME Hits(f, rule) # {}
        PROVE  Hit(rule, f, Rest) \in findings
    <2>1. f \in There
      BY <1>6, Held DEF Hits, Misused
    <2>2. Hit(rule, f, Rest) \in CheckMisuse(f)
      BY <1>6 DEF CheckMisuse
    <2> QED
      BY <2>1, <2>2, ReportComplete DEF Found, CheckModule
  <1>7. ASSUME Hit(rule, f, Rest) \in findings
        PROVE  Hits(f, rule) # {}
    <2> DEFINE g == Hit(rule, f, Rest)
    <2>1. g.rule = rule /\ g.file = f
      BY DEF Hit
    <2> HIDE DEF g
    <2>2. g \in findings /\ g \notin MissingSetupLoguru
      BY <1>7, <2>1, MissingKind, MisuseRules DEF g
    <2>3. g \in Found(f)
      BY <2>1, <2>2, ReportedFrom
    <2> QED
      BY <2>1, <2>3, FoundKinds, MisuseRules DEF LayerRules
  <1> QED
    BY <1>5, <1>6, <1>7

\* Each rule on names reports exactly the files that do what it forbids, for any
\* imports and uses: the resolution of names in zodiac/check/module.py.
THEOREM MisusesFound == CheckSpec => []MisuseFound
  BY CheckInvariant, MisuseKept, PTL

\* Longer names cross where shorter ones do, unless it is for their last part.
LEMMA CrossesFront ==
    ASSUME NEW f, NEW module \in Seq(STRING) \ {<<>>}, NEW name,
           name \notin ForbiddenTo(Layer(f)), Crosses(f, Append(module, name))
    PROVE  Crosses(f, module)
  <1>1. /\ Len(module) \in Nat /\ Len(module) # 0 /\ DOMAIN module = 1..Len(module)
    BY LenProperties, EmptySeq
  <1> DEFINE whole == Append(module, name)
  <1>2. module \in Seq(STRING \cup {name})
    BY SeqDef
  <1>3. /\ DOMAIN whole = 1..(Len(module) + 1)
        /\ \A i \in 1..Len(module) : whole[i] = module[i]
        /\ whole[Len(module) + 1] = name
    BY <1>1, <1>2, AppendProperties, LenProperties
  <1> HIDE DEF whole
  <1>4. whole[1] = Package /\ Range(whole) \cap ForbiddenTo(Layer(f)) # {}
    BY DEF Crosses, whole
  <1>5. PICK i \in DOMAIN whole : whole[i] \in ForbiddenTo(Layer(f))
    BY <1>4 DEF Range
  <1>6. i \in DOMAIN module /\ module[i] \in ForbiddenTo(Layer(f))
    BY <1>1, <1>3, <1>5
  <1>7. module[1] = Package
    BY <1>1, <1>3, <1>4
  <1> QED
    BY <1>6, <1>7 DEF Crosses, Range

LEMMA LayersHold == CheckIInv => LayersKept
  <1> SUFFICES ASSUME CheckIInv, phase = "reported", NEW f \in File,
                      source[f].parses, OneMeaning(At[f], source[f].imports),
                      \A s \in Range(source[f].imports) :
                          ~ (s.kind = "from" /\ s.name \in ForbiddenTo(Layer(f)))
               PROVE  (\E m \in Loaded(At[f], source[f].imports) : Crosses(f, m))
                          <=> \E g \in findings : g.file = f /\ g.rule \in LayerRules
    BY DEF LayersKept, LayerRules
  <1> DEFINE imports == source[f].imports
             here == At[f]
  <1>1. here \in Seq(STRING) \ {<<>>}
    BY FilesAssumption DEF File
  <1>2. DOMAIN imports \subseteq Nat /\ \A i \in DOMAIN imports : IsStatement(imports[i])
    BY Held, HoldsOf
  <1>3. \A i \in DOMAIN imports :
            /\ imports[i] \in Range(imports) /\ imports[i].branch # "else"
            /\ imports[i].level < Len(here)
            /\ ~ (imports[i].kind = "from" /\ imports[i].name \in ForbiddenTo(Layer(f)))
    BY DEF OneMeaning, Range
  <1>4. Range(imports) = {imports[i] : i \in DOMAIN imports}
    BY DEF Range
  <1> HIDE DEF imports, here
  <1>5. \A i \in DOMAIN imports :
            /\ ModuleOf(here, imports[i]) = AbsoluteModule(here, imports[i])
            /\ ModuleOf(here, imports[i]) \in Seq(STRING) \ {<<>>}
    BY <1>1, <1>2, <1>3, SameModule
  <1>6. \A i \in DOMAIN imports : i \in Collected(imports) <=> Runs(imports[i])
    BY <1>2, <1>3 DEF Collected, Runs, IsStatement
  <1>7. \A m \in ImportedModules(here, imports) : m \in Loaded(here, imports)
    <2> TAKE m \in ImportedModules(here, imports)
    <2>1. PICK i \in Collected(imports) : m = ModuleOf(here, imports[i])
      BY DEF ImportedModules
    <2>2. i \in DOMAIN imports
      BY DEF Collected
    <2> QED
      BY <1>4, <1>5, <1>6, <2>1, <2>2 DEF Loaded
  <1>8. ASSUME NEW m \in Loaded(here, imports), Crosses(f, m)
        PROVE  \E k \in ImportedModules(here, imports) : Crosses(f, k)
    <2>1. PICK i \in DOMAIN imports :
              /\ Runs(imports[i])
              /\ \/ m = AbsoluteModule(here, imports[i])
                 \/ /\ imports[i].kind = "from"
                    /\ m = Append(AbsoluteModule(here, imports[i]), imports[i].name)
      BY <1>4 DEF Loaded, Binding
    <2>2. ModuleOf(here, imports[i]) \in ImportedModules(here, imports)
      BY <1>5, <1>6, <2>1 DEF ImportedModules
    <2>3. Crosses(f, ModuleOf(here, imports[i]))
      BY <1>3, <1>5, <1>8, <2>1, CrossesFront
    <2> QED
      BY <2>2, <2>3
  <1>9. (\E m \in Loaded(here, imports) : Crosses(f, m)) <=> CheckLayers(f) # {}
    BY <1>7, <1>8 DEF CheckLayers, FileHit, imports, here
  <1>10. ASSUME CheckLayers(f) # {}
         PROVE  \E g \in findings : g.file = f /\ g.rule \in LayerRules
    <2>1. f \in There
      <3> SUFFICES ASSUME f \notin There
                   PROVE  FALSE
        OBVIOUS
      <3>1. imports = <<>>
        BY Held DEF imports
      <3>2. ImportedModules(here, imports) = {}
        BY <3>1 DEF ImportedModules, Collected
      <3> QED
        BY <1>10, <3>2 DEF CheckLayers, imports, here
    <2>2. PICK g : g \in CheckLayers(f)
      BY <1>10
    <2>3. g.file = f /\ g.rule \in LayerRules
      BY <2>2, HitFacts DEF CheckLayers, FileHit, LayerRules
    <2>4. g \in findings
      BY <2>1, <2>2, ReportComplete DEF Found, CheckModule
    <2> QED
      BY <2>3, <2>4
  <1>11. ASSUME NEW g \in findings, g.file = f, g.rule \in LayerRules
         PROVE  CheckLayers(f) # {}
    <2>1. g \notin MissingSetupLoguru
      BY <1>11, MissingKind DEF LayerRules
    <2>2. g \in Found(f)
      BY <1>11, <2>1, ReportedFrom
    <2> QED
      BY <1>11, <2>2, FoundKinds, MisuseRules DEF LayerRules
  <1> QED
    BY <1>9, <1>10, <1>11 DEF imports, here

\* A file of a layer is reported exactly if it loads a module that its layer must
\* not, for any package and imports: check_layers in zodiac/check/rules.py.
THEOREM LayersAreKept == CheckSpec => []LayersKept
  BY CheckInvariant, LayersHold, PTL

=============================================================================
