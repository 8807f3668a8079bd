------------------------------ MODULE MCCallers ------------------------------
(***************************************************************************)
(* Small instances of PythonCallers: the function f of demo.old or of old, *)
(* the imports through which a file of the package demo could come by it,  *)
(* a call under each of the names they bind, and what may be around it.    *)
(***************************************************************************)
EXTENDS PythonCallers, TLC

CONSTANTS demo, old, f, g, other

MCTargets == {[module |-> <<demo, old>>, symbol |-> f],
              [module |-> <<old>>, symbol |-> f]}

Sound == [present |-> TRUE, parses |-> TRUE, packaged |-> TRUE,
          defined |-> 1, decorated |-> FALSE, inRoot |-> TRUE]

MCDefinitions ==
    {Sound, [Sound EXCEPT !.parses = FALSE], [Sound EXCEPT !.defined = 2]}

Plain(module, as) ==
    [module |-> module, name |-> Nothing, as |-> as, level |-> 0,
     context |-> "top"]

From(level, module, name, as) ==
    [module |-> module, name |-> name, as |-> as, level |-> level,
     context |-> "top"]

TopImports ==
    {Plain(<<old>>, Nothing), From(0, <<old>>, f, Nothing),
     Plain(<<demo, old>>, Nothing), Plain(<<demo, old>>, g),
     Plain(<<demo>>, Nothing), Plain(<<other>>, f),
     Plain(<<demo, old, f>>, g),
     From(0, <<demo, old>>, f, Nothing), From(0, <<demo, old>>, f, g),
     From(0, <<demo>>, old, Nothing), From(0, <<demo>>, old, g),
     From(1, <<>>, old, Nothing), From(1, <<old>>, f, Nothing),
     From(2, <<>>, old, Nothing), From(0, <<other>>, f, Nothing),
     From(0, <<other>>, old, Nothing), From(0, <<other>>, other, Nothing),
     From(0, <<demo, old>>, Star, Nothing)}

NestedImports ==
    {[imp EXCEPT !.context = c] :
        imp \in {Plain(<<demo, old>>, g), From(0, <<demo, old>>, f, Nothing)},
        c \in {"conditional", "function"}}

MCImports == TopImports \cup NestedImports

Def(params, binds, outer) ==
    [kind |-> "def", name |-> g, params |-> params, binds |-> binds,
     outer |-> outer]

Class(binds) ==
    [kind |-> "class", name |-> other, params |-> {}, binds |-> binds,
     outer |-> {}]

\* Where a call through the name n may be.
Places == {"top", "def", "parameter", "local", "global", "inner", "body",
           "method"}

Around(place, n) ==
    CASE place = "top" -> <<>>
      [] place = "def" -> <<Def({}, {}, {})>>
      [] place = "parameter" -> <<Def({n}, {}, {})>>
      [] place = "local" -> <<Def({}, {n}, {})>>
      [] place = "global" -> <<Def({}, {n}, {n})>>
      [] place = "inner" -> <<Def({}, {}, {}), Def({n}, {}, {})>>
      [] place = "body" -> <<Class({n})>>
      [] place = "method" -> <<Def({}, {}, {}), Class({n})>>

Chains == {<<f>>, <<g>>, <<old, f>>, <<g, f>>, <<other, f>>, <<demo, f>>,
           <<demo, old, f>>}

\* What else the file does with the name.
Uses == {"nothing", "def", "assigned", "value", "getattr", "twice"}

OnlyIf(condition, set) == IF condition THEN set ELSE {}

File(imports, chain, place, use) ==
    LET n == chain[1]
    IN  [package |-> <<demo>>,
         imports |-> imports,
         calls |-> {[chain |-> chain, scopes |-> Around(place, n)]},
         defs |-> OnlyIf(use = "def", {n}),
         rebound |-> OnlyIf(use = "assigned", {n}),
         values |-> OnlyIf(use \in {"assigned", "value", "getattr"}, {n}),
         getattrs |-> OnlyIf(use = "getattr", {n}),
         twice |-> OnlyIf(use = "twice", {<<g>>})]

\* Two imports at most.
MCFiles ==
    {File(<<imp>>, chain, place, use) :
        imp \in MCImports, chain \in Chains, place \in Places, use \in Uses}
    \cup
    {File(<<first, second>>, chain, place, "nothing") :
        first \in TopImports, second \in MCImports,
        chain \in Chains, place \in {"top", "inner", "method"}}

\* One import and one call.
MCFewFiles ==
    {File(<<imp>>, chain, "top", use) :
        imp \in MCImports, chain \in Chains, use \in Uses}

=============================================================================
