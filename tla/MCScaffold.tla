----------------------------- MODULE MCScaffold -----------------------------
EXTENDS Scaffold, Integers, TLC

\* Of each template, files enough for both levels of directories.
SmallBase == {<<"pyproject.toml">>, <<"main.py">>, <<"app", "core", "__init__.py">>}
SmallSubApp == {<<"app", "sub_app", "__init__.py">>, <<"app", "sub_app", "app.py">>}

SomeServices == {"billing", "core"}

SomeFiles == BasePlan("app") \cup UNION {SubAppPlan("app", s) : s \in SomeServices}

\* The paths above p, the root of the project among them.
Prefixes(p) == {SubSeq(p, 1, n) : n \in 0 .. Len(p) - 1}

SomeDirs == UNION {Prefixes(f) : f \in SomeFiles}
Parents == [p \in SomeFiles \cup SomeDirs |-> Prefixes(p)]

SomePlans == {BasePlan("app") \cup SubAppPlan("app", "billing")}
                 \cup {SubAppPlan("app", s) : s \in SomeServices}

\* A sub-application's files follow the project's; within a template they are
\* sorted, the parts before the first that differs being equal.
SomeRank ==
    <<"main.py">> :> 1 @@ <<"pyproject.toml">> :> 2
        @@ [f \in {f \in SomeFiles : Len(f) = 3} |->
               (IF f[2] = "core" THEN 0 ELSE 3) + (IF f[3] = "app.py" THEN 4 ELSE 0)]

SomeOthers == {<<"main.py">>, <<"app", "billing", "__init__.py">>}
=============================================================================
