------------------------------ MODULE MCReview ------------------------------
(***************************************************************************)
(* A small instance of Review: two files, one structure, and a source for  *)
(* every way in which a finding can come, go, grow, move or be doubled.    *)
(***************************************************************************)
EXTENDS Review, TLC

CONSTANTS
    p, q,                             \* paths
    f, g, h, s,                       \* functions and a structure
    once, twice, pair, trio, broken  \* sources

Fact(type, symbol, line) ==
    [type |-> type, structure |-> s, symbol |-> symbol, line |-> line]

MCFacts ==
    (broken :> {})
    @@ (once :> {Fact("handlerReturn", f, 1)})
    @@ (twice :> {Fact("handlerReturn", f, 1), Fact("handlerReturn", f, 2)})
    @@ (pair :> {Fact("chain", f, 1), Fact("chain", g, 2)})
    @@ (trio :> {Fact("chain", f, 1), Fact("chain", g, 2), Fact("chain", h, 3)})

Same == {<<x, x>> : x \in Sources}
MCSimilar ==
    Same \cup {<<once, twice>>, <<twice, once>>, <<pair, trio>>, <<once, trio>>}

Tree(x, y) == (p :> x) @@ (q :> y)
MCCommits ==
    {Tree(once, Absent), Tree(pair, pair), Tree(broken, twice)}

\* The finding of once in p, and the grown group in q, until the first day.
Accepted(source, path) ==
    {[fingerprint |-> Fingerprint(x), rule |-> Rule(x), expires |-> 1] :
        x \in DetectFindings(MCFacts[source], path)}
MCExceptions == {{}, Accepted(once, p) \cup Accepted(trio, q)}

=============================================================================
