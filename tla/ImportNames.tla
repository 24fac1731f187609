---------------------------- MODULE ImportNames ----------------------------
(***************************************************************************)
(* The names of a Python file, as zodiac/check/module.py resolves them and *)
(* as Python does.                                                         *)
(*                                                                         *)
(* A dotted name is the sequence of its parts, <<>> where there is none.   *)
(* The import statements of a file, those in functions among them, are a   *)
(* function of their positions in the source:                              *)
(*   kind    "import" (import module as as) or "from" (from module import  *)
(*           name as as; the name may be "*", the module <<>>)             *)
(*   level   the leading dots of a from                                    *)
(*   as      the name after as, "" where there is none                     *)
(*   branch  "typing" in the body of an if TYPE_CHECKING, "else" in its    *)
(*           else, "plain" elsewhere                                       *)
(*   in      the function it stands in, "" for none                        *)
(***************************************************************************)
EXTENDS Naturals, Sequences, Functions

\* Python's grammar: only a from with dots may go without a module.
IsStatement(s) ==
    /\ s.kind \in {"import", "from"} /\ s.branch \in {"plain", "typing", "else"}
    /\ s.module \in Seq(STRING) /\ s.level \in Nat
    /\ s.kind = "import" => s.level = 0
    /\ s.level = 0 => s.module # <<>>

\* Mutant: levels are counted from the package of the file.
ResolveFromPackage(at, s) ==
    CASE s.level = 0 -> s.module
      [] s.level >= Len(at) -> s.module
      [] OTHER -> SubSeq(at, 1, Len(at) - 1 - s.level) \o s.module

\* _resolve_import_from, in the file called at.  Without a module it is the
\* directory, or nothing at the top of the project.
ResolveFrom(at, s) ==
    IF s.level = 0 \/ s.level > Len(at) THEN s.module
    ELSE SubSeq(at, 1, Len(at) - s.level) \o s.module

\* The module that a statement names.
ModuleOf(at, s) == IF s.kind = "import" THEN s.module ELSE ResolveFrom(at, s)

BoundName(s) ==
    CASE s.as # "" -> s.as
      [] s.kind = "import" /\ s.as = "" -> Head(s.module)
      [] OTHER -> s.name

\* Mutant: import a.b binds a to a.b, as it would with an as.
QualifiedWhole(at, s) ==
    IF s.kind = "import" THEN s.module ELSE Append(ModuleOf(at, s), s.name)

\* What the name stands for.
Qualified(at, s) ==
    CASE s.kind = "import" /\ s.as # "" -> s.module
      [] s.kind = "import" /\ s.as = "" -> <<Head(s.module)>>
      [] OTHER -> Append(ModuleOf(at, s), s.name)

Names(at, s) == s.name # "*" /\ ModuleOf(at, s) # <<>>

\* The positions of the statements that are looked at: both branches of an if
\* TYPE_CHECKING are passed over.
Collected(imports) == {i \in DOMAIN imports : imports[i].branch = "plain"}

LastOf(imports, positions) == imports[CHOOSE i \in positions : \A j \in positions : j <= i]

\* The table of aliases is the file's, whichever function an import stands in;
\* of two for one name the later holds.
Aliases(at, imports) ==
    LET seen == {i \in Collected(imports) : Names(at, imports[i])}
    IN  [n \in {BoundName(imports[i]) : i \in seen} |->
            Qualified(at, LastOf(imports, {i \in seen : BoundName(imports[i]) = n}))]

\* resolve, of a name or of attributes of one.
Resolve(at, imports, expr) ==
    LET aliases == Aliases(at, imports)
    IN  IF Head(expr) \in DOMAIN aliases THEN aliases[Head(expr)] \o Tail(expr) ELSE expr

ImportedModules(at, imports) == {ModuleOf(at, imports[i]) : i \in Collected(imports)} \ {<<>>}

ImportedSymbols(at, imports) ==
    {Qualified(at, imports[i]) :
        i \in {j \in Collected(imports) : imports[j].kind = "from" /\ Names(at, imports[j])}}

-----------------------------------------------------------------------------
(* What Python does: the reference the above is held against.              *)

\* TYPE_CHECKING is false when the file runs.
Runs(s) == s.branch # "typing"

\* One dot is the package the file is in; each other one goes up once more.
AbsoluteModule(at, s) ==
    LET package == SubSeq(at, 1, Len(at) - 1)
    IN  IF s.level = 0 THEN s.module
        ELSE SubSeq(package, 1, Len(package) - (s.level - 1)) \o s.module

\* An import binds a module, or its top-level package; a from an attribute.
Binding(at, s) ==
    CASE s.kind = "from" -> Append(AbsoluteModule(at, s), s.name)
      [] s.kind = "import" /\ s.as # "" -> s.module
      [] s.kind = "import" /\ s.as = "" -> SubSeq(s.module, 1, 1)

\* In a function its own imports come first, then those of the file; no
\* other function's do.
Meaning(at, imports, function, expr) ==
    LET Bound(scope) == {i \in DOMAIN imports :
            /\ imports[i].in = scope /\ Runs(imports[i]) /\ imports[i].name # "*"
            /\ BoundName(imports[i]) = Head(expr)}
        Last(positions) == Binding(at, LastOf(imports, positions)) \o Tail(expr)
    IN  CASE function # "" /\ Bound(function) # {} -> Last(Bound(function))
          [] (function = "" \/ Bound(function) = {}) /\ Bound("") # {} -> Last(Bound(""))
          [] OTHER -> expr

\* Python loads the module a statement names, and the name out of it where
\* that is a module itself.
Loaded(at, imports) ==
    UNION {{AbsoluteModule(at, s)} \cup
           (IF s.kind = "from" /\ s.name # "*" THEN {Binding(at, s)} ELSE {}) :
               s \in {t \in Range(imports) : Runs(t)}}

\* Each name has one meaning in the file, at most: no name is imported twice,
\* none comes through a star or in the else of an if TYPE_CHECKING, and no
\* import climbs out of the project.
OneMeaning(at, imports) ==
    /\ \A i, j \in DOMAIN imports :
           BoundName(imports[i]) = BoundName(imports[j]) => i = j
    /\ \A s \in Range(imports) : s.name # "*" /\ s.branch # "else" /\ s.level < Len(at)
=============================================================================
