------------------------------ MODULE Scaffold ------------------------------
(***************************************************************************)
(* `zodiac new --tpl sub-applications` and `zodiac add sub-app`: what they  *)
(* refuse, the plans they render out of the templates, and the runs of     *)
(* write_render_plan these start, one command after the other, in the      *)
(* directory of one project.                                               *)
(*                                                                         *)
(* A path is the sequence of its parts below that directory, which is the  *)
(* empty one.  The standard-3tier template is the same plan without the    *)
(* bundled sub-applications, and none can be added to it.                  *)
(***************************************************************************)
EXTENDS RenderPlan, Sequences

CONSTANTS
    BaseTemplate,    \* the paths of templates/sub-applications
    SubAppTemplate,  \* those of templates/sub-app
    Bundled,         \* the sub-applications `zodiac new` adds: users and orders
    Package,         \* names given as --package-name
    Service          \* names given to `zodiac add sub-app`

VARIABLE command     \* the command that ran last, or runs

scaffoldVars == <<vars, command>>

Root == <<>>
PyprojectToml == <<"pyproject.toml">>
MainPy == <<"main.py">>

\* RESERVED_PACKAGE_NAMES
ReservedPackageNames == {"config", "main", "tests"}

\* Mutant: the modules at the top of a project.
ReservedSubAppNamesTop == ReservedPackageNames \cup {"app"}

\* RESERVED_SUB_APP_NAMES
ReservedSubAppNames == {"api", "app", "config", "core", "main", "tests"}

\* render_template_path and render_sub_app_path; the name of the resource only
\* changes the names of files, and is left out.
RenderPath(path, package, service) ==
    [n \in DOMAIN path |-> CASE path[n] = "app" -> package
                             [] path[n] = "sub_app" -> service
                             [] OTHER -> path[n]]

BasePlan(package) == {RenderPath(path, package, "") : path \in BaseTemplate}
SubAppPlan(package, service) ==
    {RenderPath(path, package, service) : path \in SubAppTemplate}

\* The trees of the templates: a sub-application's files are in directories of
\* its own, and of the names at that level of the project's only core, which
\* has no dot, could be one of these.
ASSUME TemplatesAssumption ==
    /\ \A package \in Package : BasePlan(package) \subseteq File
    /\ \A package \in Package, service \in Service \cup Bundled :
           SubAppPlan(package, service) \subseteq File
    /\ \A path \in SubAppTemplate : 2 \in DOMAIN path /\ path[2] = "sub_app"
    /\ \A path \in BaseTemplate :
           2 \in DOMAIN path /\ path[2] \in Service \cup {"app", "sub_app"} => path[2] = "core"

\* "Multiple templates render to the same file": build_render_plan fails.
Distinct(package, service) ==
    \A p, q \in SubAppTemplate :
        RenderPath(p, package, service) = RenderPath(q, package, service) => p = q

-----------------------------------------------------------------------------
\* No directory yet, or a project somebody wrote.
ScaffoldInit ==
    /\ Init
    /\ files \in {NoFiles} \cup
           {[f \in File |-> IF f \in BasePlan(p) THEN "user" ELSE Missing] : p \in Package}
    /\ dirs = UNION {Above[f] : f \in Existing(files)}
    /\ command = "none"

\* validate_package_name and validate_sub_app_name, of Python identifiers.
PackageAccepted(package) == package \notin ReservedPackageNames
ServiceAccepted(service) == service \notin ReservedSubAppNames

\* The base template and the two bundled sub-applications are one plan.
NewPlan(package) == BasePlan(package) \cup UNION {SubAppPlan(package, s) : s \in Bundled}

\* The plans of accepted commands are among RenderPlan's.
ASSUME CommandsAssumption ==
    \A package \in Package :
        /\ PackageAccepted(package) => NewPlan(package) \in Plan
        /\ \A s \in Service : ServiceAccepted(s) => SubAppPlan(package, s) \in Plan

New(package, forced) ==
    /\ PackageAccepted(package)
    /\ \A s \in Bundled : Distinct(package, s)
    /\ Root \in dirs => forced
    /\ Preflight(NewPlan(package), forced)
    /\ command' = "new"

\* get_project_package_name: a directory that pyproject.toml includes, or app.
\* What is included is up to who wrote the file last.
ProjectPackage(package) ==
    /\ files[PyprojectToml] # Missing
    /\ <<package>> \in dirs

\* ensure_sub_applications_project: main.py mounts sub-applications.  The
\* template's does; the user's, or what is left of a torn one, may.
MountsSubApps == files[MainPy] # Missing

AddSubApp(package, service, forced) ==
    /\ ServiceAccepted(service)
    /\ ProjectPackage(package)
    /\ MountsSubApps
    /\ Distinct(package, service)
    /\ Preflight(SubAppPlan(package, service), forced)
    /\ command' = "add"

\* What is refused changes nothing.  The checks of a command that starts are
\* one step with its preflight.
ScaffoldNext ==
    \/ \E package \in Package, forced \in BOOLEAN :
           \/ New(package, forced)
           \/ \E service \in Service : AddSubApp(package, service, forced)
    \/ Goes /\ UNCHANGED command

ScaffoldSpec == ScaffoldInit /\ [][ScaffoldNext]_scaffoldVars

-----------------------------------------------------------------------------
(* Properties.                                                             *)

\* "It does not modify main.py": adding a sub-application, forced or not, done,
\* failed or killed, leaves every file of the project's own template as it
\* found it, whatever name the command accepts (RESERVED_SUB_APP_NAMES).
AddLeavesProject ==
    command = "add" =>
        \A package \in Package : \A f \in BasePlan(package) \ touched :
            files[f] = before.files[f]
=============================================================================
