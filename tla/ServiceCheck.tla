---------------------------- MODULE ServiceCheck ----------------------------
(***************************************************************************)
(* `zodiac check` (zodiac/check): discovery of the service, its layout,    *)
(* the walk over its files, the rules, and a developer who makes the       *)
(* changes the findings ask for, one at a time, and checks again.          *)
(*                                                                         *)
(* A file is what the rules see of it: whether it parses, which wiring     *)
(* calls stand in each of its functions and at its top level, by the names *)
(* they resolve to, its import statements and the dotted names it uses     *)
(* besides.  A function that is no app factory is a helper: it runs only   *)
(* if it is called, from its own file or from another that imports it.     *)
(***************************************************************************)
EXTENDS ImportNames

CONSTANTS
    Walk,             \* the Python files there may be, in the order of the walk
    EntryCandidates,  \* main.py and <package>/main.py, in the order tried
    SubAppFile,       \* the files called app.py below the package
    At,               \* At[f]: the dotted name of f as a module
    Package,          \* the name of the package
    Factory,          \* names of app factories: create_app, create_*_app
    Helper,           \* the other functions
    DefinedIn,        \* DefinedIn[h]: the file that helper h stands in
    Services,         \* the services there may be: what each file holds
    Repaired,         \* Repaired[f]: what f may hold once a developer made it parse
    ThreeTier,        \* whether api, application and infrastructure exist
    Pyprojects        \* what PATH and the directories above it may hold

ASSUME FilesAssumption ==
    /\ EntryCandidates \in Seq(Range(Walk)) \ {<<>>}
    /\ SubAppFile \subseteq Range(Walk)
    /\ \A f \in Range(Walk) : At[f] \in Seq(STRING) \ {<<>>}

VARIABLES
    source,     \* the project's files
    threeTier,  \* its package has the three directories
    pyproject,  \* from PATH upwards: "none", "foreign" or "zodiac-core"
    phase,      \* what the command does
    layout, entry,                      \* the Project, as it was discovered
    unchecked, findings,                     \* files to walk, findings so far
    sawSetupLoguru, sawFastapi

project == <<layout, entry>>
walk == <<unchecked, findings, sawSetupLoguru, sawFastapi>>
checkVars == <<source, threeTier, pyproject, phase, project, walk>>

File == Range(Walk)
Rest == "rest"
Part == Factory \cup Helper \cup {Rest}
Call == {"FastAPI", "setup_loguru", "register_exception_handlers",
         "register_middleware", "register_middleware_for_mounted",
         "mount", "lifespan_context"}
NoBody == [p \in Part |-> {}]
Absent == [there |-> FALSE, parses |-> TRUE, body |-> NoBody, imports |-> <<>>, uses |-> {}]

\* What a file may hold: its body has the calls of each part, by name, those of
\* helpers among them.
Possible(f, c) ==
    /\ c = [there |-> c.there, parses |-> c.parses, body |-> c.body,
            imports |-> c.imports, uses |-> c.uses]
    /\ c.body \in [Part -> SUBSET (Call \cup Helper)]
    /\ ~c.there => c = Absent
    /\ \A h \in Helper : c.body[h] # {} => DefinedIn[h] = f
    /\ DOMAIN c.imports \subseteq Nat /\ \A i \in DOMAIN c.imports : IsStatement(c.imports[i])
    /\ \A u \in c.uses : u.name \in Seq(STRING) \ {<<>>} /\ u.argument \in Seq(STRING)

ASSUME ServicesAssumption ==
    /\ Rest \notin Factory \cup Helper
    /\ Factory \cap Helper = {} /\ Call \cap Helper = {}
    /\ DefinedIn \in [Helper -> File]
    /\ \A s \in Services : DOMAIN s = File /\ \A f \in File : Possible(f, s[f])
    /\ \A f \in File : \A c \in Repaired[f] : Possible(f, c) /\ c.there /\ c.parses

Calls(f) == UNION {source[f].body[p] : p \in Part}
Factories(f) == {p \in Factory : "FastAPI" \in source[f].body[p]}
Middleware == {"register_middleware", "register_middleware_for_mounted"}

CheckInit ==
    /\ source \in Services
    /\ threeTier \in ThreeTier
    /\ pyproject \in Pyprojects
    /\ phase = "start"
    /\ layout = "none" /\ entry = <<>>
    /\ unchecked = {} /\ findings = {}
    /\ sawSetupLoguru = FALSE /\ sawFastapi = FALSE

-----------------------------------------------------------------------------
(* Discovery.                                                              *)

\* PATH if it has a pyproject.toml, or else the nearest directory above it
\* that has one; it must depend on zodiac-core.
Nearest == {i \in DOMAIN pyproject :
                /\ pyproject[i] # "none"
                /\ \A j \in 1 .. i - 1 : pyproject[j] = "none"}
IsService == \E i \in Nearest : pyproject[i] = "zodiac-core"

\* _application_entry: the first candidate there is, if any.
EntriesThere == {i \in DOMAIN EntryCandidates : source[EntryCandidates[i]].there}
FirstEntry ==
    IF EntriesThere = {} THEN <<>>
    ELSE <<EntryCandidates[CHOOSE i \in EntriesThere : \A j \in EntriesThere : i <= j]>>

\* _detect_layout: an entry that mounts apps and enters their lifespans, or
\* three directories, or neither.
Layout ==
    IF \E i \in DOMAIN FirstEntry :
           /\ source[FirstEntry[i]].parses
           /\ {"mount", "lifespan_context"} \subseteq Calls(FirstEntry[i])
    THEN "sub-applications"
    ELSE IF threeTier THEN "standard-3tier" ELSE "service"

Discover ==
    /\ phase = "start"
    /\ IF IsService
       THEN /\ phase' = "walk"
            /\ layout' = Layout
            /\ entry' = FirstEntry
            /\ unchecked' = {f \in File : source[f].there}
            /\ findings' = {}
            /\ sawSetupLoguru' = FALSE /\ sawFastapi' = FALSE
       ELSE phase' = "refused" /\ UNCHANGED <<project, walk>>
    /\ UNCHANGED <<source, threeTier, pyproject>>

-----------------------------------------------------------------------------
(* The rules.                                                              *)

Hit(rule, f, p) == [rule |-> rule, file |-> f, part |-> p]
FileHit(rule, f) == {Hit(rule, f, Rest)}
Warnings == {"routing.fastapi_api_router_import"}
Errors(found) == {g \in found : g.rule \notin Warnings}

IsAppEntry(f) == entry = <<f>>
IsSubAppFactory(f) == layout = "sub-applications" /\ f \in SubAppFile /\ ~IsAppEntry(f)

\* The names that a use has in its file.
UsedNames(u) == {Head(n) : n \in {u.name, u.argument} \ {<<>>}}

\* The names a rule looks for.
FastapiApiRouters == {<<"fastapi", "APIRouter">>, <<"fastapi", "routing", "APIRouter">>}
HttpExceptions == {<<"fastapi", "HTTPException">>, <<"fastapi", "exceptions", "HTTPException">>,
                   <<"starlette", "exceptions", "HTTPException">>}
Partial == {<<"functools", "partial">>}
GetSession == {<<"zodiac_core", "db", "get_session">>,
               <<"zodiac_core", "db", "session", "get_session">>}
Depends == {<<"fastapi", "Depends">>, <<"fastapi", "params", "Depends">>}
SessionDependency == {<<"zodiac_core", "db", "session_dependency">>,
                      <<"zodiac_core", "db", "session", "session_dependency">>}
HttpxClients == {<<"httpx", name>> : name \in
    {"AsyncClient", "Client", "get", "post", "put", "patch", "delete", "request", "stream"}}

\* What each rule forbids: how a name is used, which name, and with which
\* first argument, {} where that is all the same.
Misuses ==
    [rule \in {"routing.use_zodiac_api_router", "exceptions.use_zodiac_exception",
               "db.no_partial_get_session", "db.no_bare_session_dependency",
               "http.use_zodiac_client"} |->
        CASE rule = "routing.use_zodiac_api_router" -> <<"call", FastapiApiRouters, {}>>
          [] rule = "exceptions.use_zodiac_exception" -> <<"raise", HttpExceptions, {}>>
          [] rule = "db.no_partial_get_session" -> <<"call", Partial, GetSession>>
          [] rule = "db.no_bare_session_dependency" -> <<"call", Depends, SessionDependency>>
          [] rule = "http.use_zodiac_client" -> <<"call", HttpxClients, {}>>]

\* The uses in f that a rule forbids, when this is what a name stands for in a
\* function.
Misused(f, rule, StandsFor(_, _)) ==
    {u \in source[f].uses :
        /\ u.how = Misuses[rule][1]
        /\ StandsFor(u.in, u.name) \in Misuses[rule][2]
        /\ \/ Misuses[rule][3] = {}
           \/ u.argument # <<>> /\ StandsFor(u.in, u.argument) \in Misuses[rule][3]}

Resolved(f, function, name) == Resolve(At[f], source[f].imports, name)
Hits(f, rule) == Misused(f, rule, LAMBDA function, name : Resolved(f, function, name))

CheckMisuse(f) == {Hit(rule, f, Rest) : rule \in {r \in DOMAIN Misuses : Hits(f, r) # {}}}

\* The import alone only warns.
CheckApiRouterImport(f) ==
    IF /\ Hits(f, "routing.use_zodiac_api_router") = {}
       /\ ImportedSymbols(At[f], source[f].imports) \cap FastapiApiRouters # {}
    THEN FileHit("routing.fastapi_api_router_import", f) ELSE {}

Layers == {"api", "application", "infrastructure", "core", "domains"}
Layer(f) ==
    IF Len(At[f]) > 2 /\ At[f][1] = Package /\ At[f][2] \in Layers THEN At[f][2] ELSE "none"

\* What a layer must not import out of the package.
ForbiddenTo(layer) ==
    CASE layer = "api" -> {"infrastructure"} [] layer = "application" -> {"api"} [] OTHER -> {}

Crosses(f, module) ==
    module # <<>> /\ module[1] = Package /\ Range(module) \cap ForbiddenTo(Layer(f)) # {}

CheckLayers(f) ==
    IF \E m \in ImportedModules(At[f], source[f].imports) : Crosses(f, m)
    THEN FileHit(IF Layer(f) = "api" THEN "layers.api_no_infrastructure"
                                     ELSE "layers.service_no_api_schemas", f)
    ELSE {}

CheckSetupLoguru(f) ==
    IF IsSubAppFactory(f) /\ "setup_loguru" \in Calls(f)
    THEN FileHit("bootstrap.subapp_no_setup_loguru", f) ELSE {}

\* Mutant: only a call in the factory itself counts.
HandlersOwn(f) == {Hit("bootstrap.register_exception_handlers", f, p) :
    p \in {q \in Factories(f) : "register_exception_handlers" \notin source[f].body[q]}}

\* One call anywhere in the file will do for each of its factories.
Handlers(f) == {Hit("bootstrap.register_exception_handlers", f, p) :
    p \in {q \in Factories(f) : "register_exception_handlers" \notin Calls(f)}}

\* Mutant: every entry must register middleware, whatever the layout.
ProcessMiddlewareAlways(f) ==
    IF IsAppEntry(f) /\ Calls(f) \cap Middleware = {}
    THEN {Hit("bootstrap.register_middleware", f, p) : p \in Factories(f)} ELSE {}

ProcessMiddleware(f) ==
    IF IsAppEntry(f) /\ layout = "standard-3tier" /\ Calls(f) \cap Middleware = {}
    THEN {Hit("bootstrap.register_middleware", f, p) : p \in Factories(f)} ELSE {}

\* Mutant: sub-applications are left out.
MountedMiddlewareParent(f) ==
    IF IsAppEntry(f) /\ layout = "sub-applications" /\ Calls(f) \cap Middleware # {}
    THEN {Hit("bootstrap.parent_no_register_middleware", f, p) : p \in Factories(f)} ELSE {}

MountedMiddleware(f) ==
    CASE IsAppEntry(f) /\ layout = "sub-applications" /\ Calls(f) \cap Middleware # {}
           -> {Hit("bootstrap.parent_no_register_middleware", f, p) : p \in Factories(f)}
      [] IsSubAppFactory(f) /\ Calls(f) \cap Middleware = {}
           -> {Hit("bootstrap.subapp_register_middleware", f, p) : p \in Factories(f)}
      [] OTHER -> {}

CheckModule(f) ==
    CheckApiRouterImport(f) \cup CheckMisuse(f) \cup CheckLayers(f) \cup CheckSetupLoguru(f)
        \cup Handlers(f) \cup ProcessMiddleware(f) \cup MountedMiddleware(f)

\* missing_process_setup_loguru: at the entry, or at the main.py there should be.
MissingSetupLoguru ==
    {Hit("bootstrap.setup_loguru",
         IF entry = <<>> THEN EntryCandidates[1] ELSE entry[1], Rest)}

-----------------------------------------------------------------------------
(* The walk.                                                               *)

\* Where f comes in the walk.
Position(f) == CHOOSE i \in DOMAIN Walk : Walk[i] = f

\* A file that does not parse has that one finding, and counts for nothing.
CheckFile(f) ==
    /\ phase = "walk"
    /\ f \in unchecked /\ \A g \in unchecked : Position(f) <= Position(g)
    /\ unchecked' = unchecked \ {f}
    /\ IF source[f].parses
       THEN /\ findings' = findings \cup CheckModule(f)
            /\ sawSetupLoguru' = (sawSetupLoguru \/ "setup_loguru" \in Calls(f))
            /\ sawFastapi' = (sawFastapi \/ "FastAPI" \in Calls(f))
       ELSE /\ findings' = findings \cup FileHit("parse.syntax_error", f)
            /\ UNCHANGED <<sawSetupLoguru, sawFastapi>>
    /\ UNCHANGED <<source, threeTier, pyproject, phase, project>>

Report ==
    /\ phase = "walk"
    /\ unchecked = {}
    /\ findings' = findings \cup
           (IF sawFastapi /\ ~sawSetupLoguru THEN MissingSetupLoguru ELSE {})
    /\ phase' = "reported"
    /\ UNCHANGED <<source, threeTier, pyproject, project, unchecked, sawSetupLoguru, sawFastapi>>

-----------------------------------------------------------------------------
(* The developer makes the change of one finding; a file that does not     *)
(* parse is put right before anything else is changed in it.               *)

Adds(c, p, call) == [c EXCEPT !.there = TRUE, !.body[p] = @ \cup {call}]
Drops(c, calls) == [c EXCEPT !.body = [p \in Part |-> c.body[p] \ calls]]

\* Without the import statements that hold P, and the uses of their names.
Unimports(c, P(_)) ==
    [c EXCEPT !.imports = Restrict(@, {i \in DOMAIN c.imports : ~P(c.imports[i])}),
              !.uses = {u \in @ : \A s \in Range(c.imports) : P(s) => BoundName(s) \notin UsedNames(u)}]

Changed(c, g) ==
    CASE g.rule = "parse.syntax_error" -> Repaired[g.file]
      [] g.rule \in DOMAIN Misuses -> {[c EXCEPT !.uses = @ \ Hits(g.file, g.rule)]}
      [] g.rule = "routing.fastapi_api_router_import"
           -> {Unimports(c, LAMBDA s : Qualified(At[g.file], s) \in FastapiApiRouters)}
      [] g.rule \in {"layers.api_no_infrastructure", "layers.service_no_api_schemas"}
           -> {Unimports(c, LAMBDA s : Crosses(g.file, ModuleOf(At[g.file], s)))}
      [] g.rule = "bootstrap.setup_loguru" -> {Adds(c, Rest, "setup_loguru")}
      [] g.rule = "bootstrap.subapp_no_setup_loguru" -> {Drops(c, {"setup_loguru"})}
      [] g.rule = "bootstrap.register_exception_handlers"
           -> {Adds(c, g.part, "register_exception_handlers")}
      [] g.rule \in {"bootstrap.register_middleware", "bootstrap.subapp_register_middleware"}
           -> {Adds(c, g.part, "register_middleware")}
      [] g.rule = "bootstrap.parent_no_register_middleware" -> {Drops(c, Middleware)}

Follow(g) ==
    /\ phase = "reported"
    /\ g \in findings
    /\ source[g.file].parses \/ g.rule = "parse.syntax_error"
    /\ \E c \in Changed(source[g.file], g) : source' = [source EXCEPT ![g.file] = c]
    /\ phase' = "start"
    /\ UNCHANGED <<threeTier, pyproject, project, walk>>

CheckNext ==
    \/ Discover
    \/ \E f \in File : CheckFile(f)
    \/ Report
    \/ \E g \in findings : Follow(g)

CheckSpec == CheckInit /\ [][CheckNext]_checkVars

\* The command runs to its end, and the developer does not give up.
FairCheckSpec == CheckSpec /\ WF_checkVars(CheckNext)

-----------------------------------------------------------------------------
(* Properties.                                                             *)

Ok == phase = "reported" /\ Errors(findings) = {}

\* The helpers that p calls, itself or through others.
Reached(f, p) ==
    {h \in Helper :
        \A S \in SUBSET Helper :
            /\ Helper \cap source[f].body[p] \subseteq S
            /\ \A k \in S : Helper \cap source[DefinedIn[k]].body[k] \subseteq S
            => h \in S}

\* What happens when the service runs: p makes a call, itself or by a helper.
Gets(f, p, call) ==
    \/ call \in source[f].body[p]
    \/ \E h \in Helper : call \in source[DefinedIn[h]].body[h] /\ h \in Reached(f, p)

\* The code that runs unless nothing calls it, and what of it builds an app.
Root == Factory \cup {Rest}
Apps(f) == {p \in Root : Gets(f, p, "FastAPI")}

OnBehalf == \E f \in File : IsAppEntry(f) /\ "register_middleware_for_mounted" \in Calls(f)

\* Every app has the exception handlers; every request meets the middleware of
\* one app, the process app's or that of the mounted app it is for; logging is
\* set up, and by no mounted app.  The apps of the entry are all taken for the
\* process's own.
Wired ==
    /\ \A f \in File : source[f].parses
    /\ \A f \in File : \A p \in Apps(f) : Gets(f, p, "register_exception_handlers")
    /\ layout = "standard-3tier" =>
           \A f \in File : IsAppEntry(f) => \A p \in Apps(f) : Gets(f, p, "register_middleware")
    /\ layout = "sub-applications" => \A f \in File :
           /\ IsAppEntry(f) => \A p \in Apps(f) : ~Gets(f, p, "register_middleware")
           /\ IsSubAppFactory(f) =>
                  \A p \in Apps(f) : Gets(f, p, "register_middleware") # OnBehalf
    /\ \A f \in File : IsSubAppFactory(f) => \A p \in Root : ~Gets(f, p, "setup_loguru")
    /\ (\E f \in File : Apps(f) # {})
           => \E f \in File : \E p \in Root : Gets(f, p, "setup_loguru")

\* Where calls file by file show what runs: helpers are called, and from their
\* own file; apps are built and wired by factories, in which FastAPI is called;
\* and what is wired for mounted apps is wired by the parent that check sees.
Legible ==
    /\ \A f \in File : \A p \in Part :
           \A h \in Helper \cap source[f].body[p] : DefinedIn[h] = f
    /\ \A h \in Helper : source[DefinedIn[h]].body[h] # {}
           => \E f \in File : \E p \in Root : h \in Reached(f, p)
    /\ \A f \in File : \A p \in Root :
           \A call \in {"FastAPI", "register_exception_handlers"} \cup Middleware :
               Gets(f, p, call) => p \in Factories(f)
    /\ \A f \in File : "register_middleware_for_mounted" \in Calls(f)
           => layout = "sub-applications" /\ IsAppEntry(f)

\* rules.py calls its rules high-confidence: a service that is wired as the
\* documents ask is never reported for its wiring, helpers or not, if its calls
\* can be read file by file, unless the parent registers middleware on behalf of
\* the apps it mounts.
NoFalseAlarm ==
    phase = "reported" /\ Wired /\ Legible /\ ~OnBehalf =>
        \A g \in findings : g.rule \notin
            {"parse.syntax_error", "bootstrap.setup_loguru",
             "bootstrap.subapp_no_setup_loguru", "bootstrap.register_exception_handlers",
             "bootstrap.register_middleware", "bootstrap.parent_no_register_middleware",
             "bootstrap.subapp_register_middleware"}

\* Where calls can be read file by file and each file builds one app at most, a
\* check without errors means a service that is wired, in the code that runs:
\* taking any call in the file for the factory's own misses nothing there.
OkMeansWired == Ok /\ Legible /\ (\A f \in File : \A p, q \in Factories(f) : p = q) => Wired

\* A name means to the check what it means to Python, wherever it has one
\* meaning in its file and is used within its reach: then each rule reports
\* the files in which code that runs does what it forbids, and no others
\* (_ImportCollector keeps one table of names for all functions of a file).
MisuseFound ==
    phase = "reported" => \A f \in File :
        LET imports == source[f].imports
            Means(function, name) == Meaning(At[f], imports, function, name)
            InReach(u) == \A s \in Range(imports) :
                s.in \in {"", u.in} \/ BoundName(s) \notin UsedNames(u)
        IN  /\ source[f].parses
            /\ OneMeaning(At[f], imports)
            /\ \A u \in source[f].uses : InReach(u)
            => \A rule \in DOMAIN Misuses :
                   Hit(rule, f, Rest) \in findings <=> Misused(f, rule, Means) # {}

\* "API routers must not import infrastructure; application services must not
\* import API schemas": a file of either layer is reported exactly if it loads
\* such a module when it runs, however the import is written, unless the name
\* that is imported is the layer's itself.
LayersKept ==
    phase = "reported" => \A f \in File :
        LET imports == source[f].imports
            OwnName(s) == s.kind = "from" /\ s.name \in ForbiddenTo(Layer(f))
        IN  /\ source[f].parses
            /\ OneMeaning(At[f], imports)
            /\ \A s \in Range(imports) : ~OwnName(s)
            => ((\E m \in Loaded(At[f], imports) : Crosses(f, m))
                   <=> \E g \in findings : g.file = f /\ g.rule \in
                           {"layers.api_no_infrastructure", "layers.service_no_api_schemas"})

\* A developer who makes the changes the findings ask for, in any order, gets
\* to a check without findings: no two rules ask for opposites, whatever the
\* changes make of the layout (the rules of zodiac/check/rules.py).
ChangesEnd == <>[]((phase = "reported" /\ findings = {}) \/ phase = "refused")
=============================================================================
