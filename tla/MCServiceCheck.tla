-------------------------- MODULE MCServiceCheck --------------------------
(* Small services for TLC. *)
EXTENDS ServiceCheck, TLC

Places == [main |-> <<"main">>, package_main |-> <<"app", "main">>,
           app |-> <<"app", "users", "app">>, view |-> <<"app", "api", "view">>,
           items |-> <<"app", "application", "items">>]

\* Two helpers of main.py and one of app.py.
Homes == [configure |-> "main", spare |-> "main", wire |-> "app"]

\* The calls of the parts named in bodies; the others make none.
Body(bodies) == [p \in Part |-> IF p \in DOMAIN bodies THEN bodies[p] ELSE {}]
Parsed(b, i, u) == [there |-> TRUE, parses |-> TRUE, body |-> b, imports |-> i, uses |-> u]
Broken == [Absent EXCEPT !.there = TRUE, !.parses = FALSE]

\* What is chosen of some calls, or sets of calls that go together.
Some(groups) == {UNION g : g \in SUBSET groups}
Each(calls) == {{call} : call \in calls}

\* Files whose factories build an app and make some more calls, or do not, beside
\* other parts with some calls each.
Modules(factories, groups, others) ==
    {Parsed(Body(fs @@ os), <<>>, {}) :
        fs \in [factories -> {{}} \cup {{"FastAPI"} \cup b : b \in Some(groups)}],
        os \in {o \in [DOMAIN others -> SUBSET Call] : \A p \in DOMAIN others : o[p] \subseteq others[p]}}

H == "register_exception_handlers"
M == "register_middleware"

\* import module as as; from level dots and module import name as as; both at
\* the top of the file.
Import(module, as) == [kind |-> "import", level |-> 0, module |-> module, name |-> "",
                       as |-> as, branch |-> "plain", in |-> ""]
FromImport(level, module, name) ==
    [Import(module, "") EXCEPT !.kind = "from", !.level = level, !.name = name]
Use(how, name, argument) == [how |-> how, name |-> name, argument |-> argument, in |-> "view"]
Uses(imports, uses) == [imports |-> imports, uses |-> uses]

Mounts == {"mount", "lifespan_context"}
OneApp(groups, others) == Modules({"create_app"}, groups, others)

Candidates == <<"main", "package_main">>
Files == <<"main", "view", "items", "package_main", "app">>

Service(m, pm, a) ==
    [main |-> m, package_main |-> pm, app |-> a, view |-> Absent, items |-> Absent]

\* Two places for the entry, a mounted app, and a router.
PlacedServices ==
    {Service(m, pm, a) :
        m \in OneApp({{H}, {M}, Mounts}, <<>>) \cup {Absent, Broken},
        pm \in {Absent} \cup OneApp({{M}}, <<>>),
        a \in OneApp({{M}}, [rest |-> {"setup_loguru"}]) \cup {Absent}}

\* A parent and its mounted apps, two of them in one file or not, that share
\* helpers or leave them uncalled.
HelperServices ==
    {Service(m, Absent, a) :
        m \in OneApp({Mounts, {"configure"}}, [configure |-> {H, M, "setup_loguru"}]),
        a \in Modules(Factory, {{"wire"}}, [wire |-> {H, M}])}

\* A process app with a helper, one that calls it or is not called, and code at
\* the top level, where an app may be built.
ChainedServices ==
    {Service([m EXCEPT !.body["spare"] = @ \cup s], Absent, Absent) :
        m \in OneApp(Each({"configure", "spare"}),
                     [configure |-> {H}, spare |-> {M}, rest |-> {"FastAPI", H, "setup_loguru"}]),
        s \in {{}, {"configure"}}}

\* A process that mounts apps, and may leave their lifespans, or call their helper.
ImportingServices ==
    {Service(m, Absent, a) :
        m \in OneApp(Each({H, "mount", "lifespan_context", "wire"}), <<>>),
        a \in OneApp({{M}, {"wire"}}, [wire |-> {H, M, "setup_loguru"}])}

\* A parent that registers the middleware of its mounted apps, or of apps that
\* are no parent's.
BehalfServices ==
    {Service(m, Absent, a) :
        m \in OneApp({{H}, {"register_middleware_for_mounted"}, Mounts}, [rest |-> {"setup_loguru"}]),
        a \in OneApp({{H}, {M}, {"register_middleware_for_mounted"}}, <<>>)}

\* Ways to use a name, right and wrong, with the imports for it.
ApiRouter == <<"APIRouter">>
Get == <<"httpx", "get">>
Fastapi(name) == FromImport(0, <<"fastapi">>, name)
Database(name) == FromImport(0, <<"zodiac_core", "db">>, name)
Infrastructure(level, module) == FromImport(level, module \o <<"infrastructure", "items">>, "Items")
In(s, function) == [s EXCEPT !.in = function]
Under(s, branch) == [s EXCEPT !.branch = branch]

Usages ==
    {Uses(<<Fastapi("APIRouter")>>, {Use("call", ApiRouter, <<>>)}),
     Uses(<<Fastapi("APIRouter")>>, {}),
     Uses(<<FromImport(0, <<"zodiac_core">>, "APIRouter")>>, {Use("call", ApiRouter, <<>>)}),
     Uses(<<Import(<<"fastapi", "routing">>, "")>>,
          {Use("call", <<"fastapi", "routing", "APIRouter">>, <<>>)}),
     Uses(<<Import(<<"httpx">>, "")>>, {Use("call", Get, <<>>)}),
     Uses(<<Under(Import(<<"httpx">>, ""), "else")>>, {Use("call", Get, <<>>)}),
     Uses(<<Under(Import(<<"httpx">>, ""), "typing")>>, {}),
     Uses(<<Import(<<"httpx">>, "http")>>, {Use("call", <<"http", "get">>, <<>>)}),
     Uses(<<In(FromImport(0, <<"httpx">>, "get"), "view")>>, {Use("call", <<"get">>, <<>>)}),
     Uses(<<In(FromImport(0, <<"app", "cache">>, "get"), "other")>>,
          {[Use("call", <<"get">>, <<>>) EXCEPT !.in = "other"]}),
     Uses(<<FromImport(0, <<"httpx">>, "*")>>, {Use("call", <<"get">>, <<>>)}),
     Uses(<<Fastapi("HTTPException")>>, {Use("raise", <<"HTTPException">>, <<>>)}),
     Uses(<<FromImport(0, <<"functools">>, "partial"), Database("get_session")>>,
          {Use("call", <<"partial">>, <<"get_session">>)}),
     Uses(<<Fastapi("Depends"), Database("session_dependency")>>,
          {Use("call", <<"Depends">>, <<"session_dependency">>)}),
     Uses(<<Infrastructure(2, <<>>)>>, {Use("call", <<"Items">>, <<>>)}),
     Uses(<<Infrastructure(0, <<"app">>)>>, {}),
     Uses(<<Under(Infrastructure(0, <<"app">>), "typing")>>, {}),
     Uses(<<FromImport(2, <<>>, "infrastructure")>>, {}),
     Uses(<<FromImport(1, <<>>, "schemas")>>, {}),
     Uses(<<FromImport(2, <<"api">>, "schemas")>>, {})}

Both(u, v) == Parsed(NoBody, u.imports \o v.imports, u.uses \cup v.uses)

\* A router or a service of the application layer, with two such usages.
ImportServices ==
    {[main |-> m, package_main |-> Absent, app |-> Absent, view |-> Both(u, v), items |-> Absent] :
        m \in {c \in OneApp({{H}}, <<>>) : "FastAPI" \in c.body["create_app"]}, u \in Usages, v \in Usages}
    \cup
    {[main |-> Absent, package_main |-> Absent, app |-> Absent, view |-> Absent, items |-> Both(u, v)] :
        u \in {w \in Usages : \E s \in Range(w.imports) : s.level > 0}, v \in Usages}

SomeServices ==
    PlacedServices \cup HelperServices \cup ChainedServices \cup ImportingServices
        \cup BehalfServices \cup ImportServices

\* Only main.py is ever broken.
Repairs ==
    [f \in Range(Files) |-> IF f = "main" THEN OneApp({{H}, {M}, Mounts}, <<>>)
                            ELSE {Parsed(NoBody, <<>>, {})}]

\* A service, and a project within one.
SomePyprojects == {<<"zodiac-core">>, <<"none", "foreign", "zodiac-core">>}
===========================================================================
