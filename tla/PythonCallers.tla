---------------------------- MODULE PythonCallers ----------------------------
(***************************************************************************)
(* The check of one rule against one other Python file (check_window in    *)
(* windows.py): which imports may bind the protected function or its       *)
(* module, which calls go through them, what leaves the answer incomplete. *)
(*                                                                         *)
(* A file is what the check takes from its syntax tree: its imports in the *)
(* order of ast.walk, its calls by the dotted name that they call and the  *)
(* functions and classes around them, and the names that are assigned at   *)
(* the top, used as values or given to getattr.  A dotted name is a        *)
(* sequence of names.                                                      *)
(***************************************************************************)
EXTENDS Integers, Sequences, FiniteSets

CONSTANTS
    Names,        \* identifiers
    Nothing, Star, \* no name; the * of an import
    Targets,      \* module and symbol of protected functions
    Definitions,  \* what may have become of such a function
    Files         \* the files that are checked

\* A plain import has no name; level counts the dots in front of a relative
\* one, and only a relative one may leave out the module.
Imports ==
    {imp \in [module : Seq(Names), name : Names \cup {Nothing, Star},
              as : Names \cup {Nothing}, level : Nat,
              context : {"top", "conditional", "function"}] :
        /\ imp.name = Nothing => imp.level = 0
        /\ imp.level = 0 => imp.module # <<>>}

\* What is around a call, the innermost first.
Scopes ==
    [kind : {"def", "class"}, name : Names, params : SUBSET Names,
     binds : SUBSET Names,   \* assigned, defined or imported in its body
     outer : SUBSET Names]   \* declared global or nonlocal

Calls == [chain : Seq(Names) \ {<<>>}, scopes : Seq(Scopes)]

FileTypes ==
    [package : Seq(Names), imports : Seq(Imports), calls : SUBSET Calls,
     defs : SUBSET Names,    \* defined at the top, after the imports
     rebound : SUBSET Names, \* assigned at the top
     values : SUBSET Names, getattrs : SUBSET Names,
     twice : SUBSET Seq(Names)] \* qualified names that are defined twice

\* The protected file, and how often it defines the function at its top.
DefinitionTypes ==
    [present : BOOLEAN, parses : BOOLEAN, packaged : BOOLEAN,
     defined : Nat, decorated : BOOLEAN, inRoot : BOOLEAN]

\* What a name may stand for; a module that could not be resolved begins with
\* a dot.
DottedNames == Seq(Names \cup {Nothing})
Bindings == [module : DottedNames, attr : Names \cup {Nothing}]

ASSUME CallersAssumption ==
    /\ Nothing \notin Names /\ Star \notin Names /\ Nothing # Star
    /\ Nothing \notin DottedNames /\ Nothing \notin Bindings
    /\ Targets \subseteq [module : Seq(Names) \ {<<>>}, symbol : Names]
    /\ Definitions \subseteq DefinitionTypes
    /\ Files \subseteq FileTypes

VARIABLES
    target,       \* the protected function
    active,       \* the rule is ACTIVE
    definition,   \* what has become of the function
    unparsed,     \* some other file does not parse
    file,
    stage,
    next,         \* the import to be collected next
    bindings,     \* name -> module and attribute that it may stand for
    diagnostics,  \* codes of what could not be decided
    keyed,        \* calls that match
    result        \* status, consumers and completeness

checkVars == <<target, active, definition, unparsed, file, stage, next,
               bindings, diagnostics, keyed, result>>
inputs == <<target, active, definition, unparsed, file>>

CheckInit ==
    /\ target \in Targets
    /\ active \in BOOLEAN
    /\ definition \in Definitions
    /\ unparsed \in BOOLEAN
    /\ file \in Files
    /\ stage = "parse"
    /\ next = 1
    /\ bindings = [n \in Names |-> Nothing]
    /\ diagnostics = {}
    /\ keyed = {}
    /\ result = Nothing

-----------------------------------------------------------------------------
(* Imports                                                                 *)

\* "{}.{}".format: the join with the empty string begins with a dot.
Join(base, rest) ==
    IF rest = <<>> THEN base
    ELSE IF base = <<>> THEN <<Nothing>> \o rest
    ELSE base \o rest

\* Mutated form: every dot leads out of one package.
ResolveTooFar(imp) ==
    LET depth == Len(file.package) - imp.level
    IN  IF imp.level = 0 THEN imp.module
        ELSE IF depth < 0 THEN Nothing
        ELSE Join(SubSeq(file.package, 1, depth), imp.module)

\* _resolve_relative; Nothing where the dots lead out of the packages.
Resolve(imp) ==
    LET depth == Len(file.package) - (imp.level - 1)
    IN  IF imp.level = 0 THEN imp.module
        ELSE IF imp.level > 1 /\ depth <= 0 THEN Nothing
        ELSE Join(SubSeq(file.package, 1, depth), imp.module)

LastName(path) == path[Len(path)]

\* The name that an import binds.
BoundName(imp) ==
    IF imp.as # Nothing THEN imp.as
    ELSE IF imp.name # Nothing THEN imp.name
    ELSE imp.module[1]

Bind(imp, module, attr) ==
    /\ bindings' = [bindings EXCEPT ![BoundName(imp)] =
                       [module |-> module, attr |-> attr]]
    /\ UNCHANGED diagnostics

Unsupported ==
    /\ diagnostics' = diagnostics \cup {"UNSUPPORTED_REFERENCE"}
    /\ UNCHANGED bindings

CollectPlain(imp) ==
    IF imp.module # target.module THEN UNCHANGED <<bindings, diagnostics>>
    ELSE IF imp.context # "top" THEN Unsupported
    ELSE Bind(imp, imp.module, Nothing)

\* The branches of `from module import name`, in their order: the second takes
\* a name that is also the module's for the module.
CollectFrom(imp, module) ==
    IF module = Nothing THEN Unsupported
    ELSE IF imp.name = Star THEN
        IF module = target.module THEN Unsupported
        ELSE UNCHANGED <<bindings, diagnostics>>
    ELSE IF module = target.module /\ imp.name = target.symbol
            /\ imp.context # "top" THEN Unsupported
    ELSE IF module # <<>> /\ imp.name = LastName(module) THEN
        Bind(imp, module, Nothing)
    ELSE IF Join(module, <<imp.name>>) = target.module THEN
        Bind(imp, target.module, Nothing)
    ELSE IF module = target.module /\ imp.name = target.symbol THEN
        Bind(imp, module, imp.name)
    ELSE UNCHANGED <<bindings, diagnostics>>

-----------------------------------------------------------------------------
(* Calls                                                                   *)

\* _bound_by_parameter
BoundByParameter(scope, name) == scope.kind = "def" /\ name \in scope.params

\* _local_def_shadows
LocalDefShadows(scope, name) ==
    name \in scope.binds /\ name \notin scope.outer

\* Mutated form: only the innermost function is looked at.
ShadowedInnermost(call) ==
    /\ call.scopes # <<>>
    /\ \/ BoundByParameter(call.scopes[1], call.chain[1])
       \/ LocalDefShadows(call.scopes[1], call.chain[1])

Shadowed(call) ==
    \E i \in DOMAIN call.scopes :
        \/ BoundByParameter(call.scopes[i], call.chain[1])
        \/ LocalDefShadows(call.scopes[i], call.chain[1])

\* _match_call: f(), alias.f() and package.module.f() only.  The last form
\* asks for parameters alone.
Matches(call) ==
    LET binding == bindings[call.chain[1]]
        attr(a) == binding.module = target.module /\ binding.attr = a
    IN  /\ binding # Nothing
        /\ \/ /\ Len(call.chain) = 1
              /\ attr(target.symbol)
              /\ ~Shadowed(call)
           \/ /\ Len(call.chain) = 2
              /\ LastName(call.chain) = target.symbol
              /\ attr(Nothing)
              /\ ~Shadowed(call)
           \/ /\ Len(call.chain) = 3
              /\ LastName(call.chain) = target.symbol
              /\ attr(Nothing)
              /\ call.chain[2] = LastName(target.module)
              /\ \A i \in DOMAIN call.scopes :
                    ~BoundByParameter(call.scopes[i], call.chain[1])

\* _qualname; the empty one is <module>.
QualName(call) ==
    [i \in DOMAIN call.scopes |->
        call.scopes[Len(call.scopes) + 1 - i].name]

-----------------------------------------------------------------------------
(* check_window                                                            *)

Answer(status, consumers) ==
    /\ result' = [status |-> status, consumers |-> consumers,
                  complete |-> diagnostics' = {}]
    /\ stage' = "done"

ResolvedRule ==
    /\ stage = "parse"
    /\ ~active
    /\ UNCHANGED <<inputs, next, bindings, diagnostics, keyed>>
    /\ Answer("RESOLVED", {})

\* The protected file itself does not parse, which is reported as for others.
Broken == definition.present /\ ~definition.parses

Parse ==
    /\ stage = "parse"
    /\ active
    /\ diagnostics' = IF unparsed \/ Broken
                      THEN {"PYTHON_SYNTAX_ERROR"} ELSE {}
    /\ stage' = "locate"
    /\ UNCHANGED <<inputs, next, bindings, keyed, result>>

\* _locate_symbol
Located ==
    /\ definition.present
    /\ definition.parses
    /\ definition.packaged   \* every directory has its __init__.py
    /\ definition.defined = 1
    /\ ~definition.decorated
    /\ definition.inRoot     \* the path gives a module name

SymbolMissing ==
    /\ stage = "locate"
    /\ ~Located
    /\ diagnostics' = diagnostics \cup
          {IF Broken THEN "PYTHON_SYNTAX_ERROR" ELSE "SYMBOL_UNVERIFIED"}
    /\ UNCHANGED <<inputs, next, bindings, keyed>>
    /\ Answer("UNVERIFIED", {})

Locate ==
    /\ stage = "locate"
    /\ Located
    /\ stage' = "imports"
    /\ UNCHANGED <<inputs, next, bindings, diagnostics, keyed, result>>

\* _collect_bindings, one import after the other.
CollectImport ==
    /\ stage = "imports"
    /\ next <= Len(file.imports)
    /\ LET imp == file.imports[next]
       IN  IF imp.name = Nothing THEN CollectPlain(imp)
           ELSE CollectFrom(imp, Resolve(imp))
    /\ next' = next + 1
    /\ UNCHANGED <<inputs, stage, keyed, result>>

\* What is done with the names that are bound now: assignments, getattr and
\* values are reported.
Inspect ==
    /\ stage = "imports"
    /\ next > Len(file.imports)
    /\ LET bound == {n \in Names : bindings[n] # Nothing}
           modules == {n \in bound : bindings[n].attr = Nothing}
       IN  diagnostics' =
              IF \/ bound \cap (file.rebound \cup file.values) # {}
                 \/ modules \cap file.getattrs # {}
              THEN diagnostics \cup {"UNSUPPORTED_REFERENCE"}
              ELSE diagnostics
    /\ stage' = "calls"
    /\ UNCHANGED <<inputs, next, bindings, keyed, result>>

\* Calls through a name that is assigned at the top are passed over.
Match ==
    /\ stage = "calls"
    /\ keyed' = {call \in file.calls :
                    call.chain[1] \notin file.rebound /\ Matches(call)}
    /\ stage' = "consumers"
    /\ UNCHANGED <<inputs, next, bindings, diagnostics, result>>

\* A function that is defined twice is not named as a consumer.
Conclude ==
    /\ stage = "consumers"
    /\ LET doubtful == {call \in keyed :
                          /\ call.scopes # <<>>
                          /\ QualName(call) \in file.twice}
           consumers == keyed \ doubtful
       IN  /\ diagnostics' = IF doubtful = {} THEN diagnostics
                             ELSE diagnostics \cup {"SYMBOL_UNVERIFIED"}
           /\ UNCHANGED <<inputs, next, bindings, keyed>>
           /\ Answer(IF consumers # {} THEN "VIOLATED"
                     ELSE IF diagnostics' # {} THEN "UNVERIFIED"
                     ELSE "OPEN",
                     consumers)

CheckNext ==
    \/ ResolvedRule \/ Parse \/ SymbolMissing \/ Locate
    \/ CollectImport \/ Inspect \/ Match \/ Conclude

CheckSpec == CheckInit /\ [][CheckNext]_checkVars

-----------------------------------------------------------------------------
(* What Python makes of a call                                             *)

\* The module that an import names, by its place in the packages.
Imported(imp) ==
    IF imp.level = 0 THEN imp.module
    ELSE IF imp.level > Len(file.package) THEN Nothing
    ELSE SubSeq(file.package, 1, Len(file.package) + 1 - imp.level)
            \o imp.module

\* What the name that it binds stands for.
Meaning(imp) ==
    IF imp.name # Nothing THEN Append(Imported(imp), imp.name)
    ELSE IF imp.as # Nothing THEN imp.module
    ELSE <<imp.module[1]>>

ImportsOf(n) ==
    {i \in DOMAIN file.imports :
        file.imports[i].name = Star \/ BoundName(file.imports[i]) = n}

\* The name is bound at the top, by one import and by nothing else.
Unambiguous(call) ==
    LET n == call.chain[1]
    IN  /\ \E i \in DOMAIN file.imports :
              /\ ImportsOf(n) = {i}
              /\ file.imports[i].name # Star
              /\ file.imports[i].context = "top"
              /\ Imported(file.imports[i]) # Nothing
        /\ n \notin file.defs \cup file.rebound
        /\ \A i \in DOMAIN call.scopes : n \notin call.scopes[i].outer

ImportFor(call) ==
    file.imports[CHOOSE i \in DOMAIN file.imports :
                    ImportsOf(call.chain[1]) = {i}]

\* Scoping: functions around the call hide the name, a class only from the
\* statements of its own body.
Hidden(call) ==
    LET n == call.chain[1]
    IN  \E i \in DOMAIN call.scopes :
           \/ /\ call.scopes[i].kind = "def"
              /\ n \in call.scopes[i].params \cup call.scopes[i].binds
           \/ /\ call.scopes[i].kind = "class"
              /\ i = 1
              /\ n \in call.scopes[i].binds

\* A plain import binds modules, and the function is not one.
IsCaller(call) ==
    LET imp == ImportFor(call)
        function == Append(target.module, target.symbol)
    IN  /\ ~Hidden(call)
        /\ Meaning(imp) \o Tail(call.chain) = function
        /\ imp.name = Nothing => imp.module # function

\* The shapes that the check knows: f(), alias.f(), and module.path.f() for a
\* path of two names; not with a function named like its module, nor in a
\* method of a class that has a name like the one that is called.
KnownShape(call) ==
    LET imp == ImportFor(call)
        dotted == imp.name = Nothing /\ imp.as = Nothing
    IN  /\ Imported(imp) # <<>> => imp.name # LastName(Imported(imp))
        /\ \/ Len(call.chain) <= 2 /\ (dotted => Len(imp.module) = 1)
           \/ Len(call.chain) = 3 /\ dotted /\ imp.module = target.module
        /\ \A i \in 2..Len(call.scopes) :
              call.scopes[i].kind = "class" =>
                 call.chain[1] \notin call.scopes[i].binds

-----------------------------------------------------------------------------
(* Properties                                                              *)

Checked == stage = "done" /\ result.status # "RESOLVED"

\* A complete answer has every call of a known shape through an unambiguous
\* import ("Python: direct calls through an unambiguous absolute/relative
\* import or module alias", docs/USAGE.md), whatever aliases, dots, parameters,
\* local definitions and uses as a value there are: an OPEN rule has no such
\* caller.
CallersFound ==
    Checked /\ result.complete =>
        \A call \in file.calls :
            Unambiguous(call) /\ KnownShape(call) /\ IsCaller(call) =>
                call \in result.consumers

\* Who is named as a consumer through such an import really calls the
\* protected function, and not something of the same name around the call or
\* in another module.
ConsumersCall ==
    Checked =>
        \A call \in result.consumers :
            Unambiguous(call) /\ KnownShape(call) /\ Len(call.chain) <= 2 =>
                IsCaller(call)

\* "Unrelated imports (json, os, other modules) are out of scope entirely ...
\* reporting them as UNSUPPORTED_REFERENCE would make every repository
\* permanently incomplete" (_collect_bindings): a file that imports from other
\* packages only leaves the check complete.
UnrelatedImportsIgnored ==
    Checked /\ Located /\ ~unparsed
    /\ (\A i \in DOMAIN file.imports :
           /\ file.imports[i].level = 0
           /\ file.imports[i].module[1] # target.module[1]) =>
        result.complete

=============================================================================
