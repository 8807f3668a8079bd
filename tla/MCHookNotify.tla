---------------------------- MODULE MCHookNotify ----------------------------
(***************************************************************************)
(* A small instance of HookNotify: two rules and two trees, one with       *)
(* everything that the other one has to notify of and more.                *)
(***************************************************************************)
EXTENDS HookNotify, TLC

CONSTANTS r, q, x, y

Verdict(status, evidence) == [status |-> status, evidence |-> evidence]
Open == Verdict("OPEN", {})
Violated(site) == Verdict("VIOLATED", {site})

Tree(failure, v, w) ==
    [failure |-> failure, verdicts |-> (r :> v) @@ (q :> w)]

\* One violation, and the same one with an unknown and an incomplete check.
TwoTrees ==
    {Tree({}, Violated(x), Open),
     Tree({y}, Violated(x), Verdict("UNVERIFIED", {y}))}

=============================================================================
