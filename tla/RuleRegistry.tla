---------------------------- MODULE RuleRegistry ----------------------------
(***************************************************************************)
(* What is in a registry (parse_registry in registry.py) and what one      *)
(* proposed change makes of it (_build_add, _build_resolve in              *)
(* confirmation.py).                                                       *)
(*                                                                         *)
(* An identifier is a number and a way to write it, since TEMP-002 and     *)
(* TEMP-0002 are two identifiers that count alike.  Reasons and all other  *)
(* texts of a rule are left out; a symbol is one that _protected_symbol    *)
(* accepts.                                                                *)
(***************************************************************************)
EXTENDS Integers, Sequences

CONSTANTS
    Symbols,      \* path, name and source root of protected functions
    Spellings,    \* the ways in which a number can be written
    Canonical,    \* with three digits at least, no zeros in front of those
    MaxRules      \* MAX_RULES, 8

ASSUME RulesAssumption ==
    /\ Canonical \in Spellings
    /\ MaxRules \in Nat

Ids == [number : Nat, spelling : Spellings]
Rules == [id : Ids, symbol : Symbols, active : BOOLEAN]

\* The constraints on a list of rules that parse_registry checks.
Parses(rules) ==
    /\ Len(rules) <= MaxRules
    /\ \A i, j \in DOMAIN rules :
          i # j =>
             /\ rules[i].id # rules[j].id
             /\ rules[i].active /\ rules[j].active =>
                   rules[i].symbol # rules[j].symbol

Registries == {rules \in Seq(Rules) : Parses(rules)}

Numbers(rules) == {rules[i].id.number : i \in DOMAIN rules}

\* Mutated form: the rules are counted.
NextIdCounts(rules) ==
    [number |-> Len(rules) + 1, spelling |-> Canonical]

\* _next_rule_id: one more than the highest number, of resolved rules too.
NextId(rules) ==
    LET highest == CHOOSE n \in Numbers(rules) \cup {0} :
                      \A m \in Numbers(rules) : m <= n
    IN  [number |-> highest + 1, spelling |-> Canonical]

\* _build_add, where it admits the symbol: resolved rules count for the
\* limit and not for the duplicates.
Add(rules) ==
    {Append(rules, [id |-> NextId(rules), symbol |-> s, active |-> TRUE]) :
        s \in {t \in Symbols :
                  /\ Len(rules) < MaxRules
                  /\ \A i \in DOMAIN rules :
                        rules[i].active => rules[i].symbol # t}}

\* Mutated form: a resolved rule is taken out.
ResolveDrops(rules) ==
    {SubSeq(rules, 1, i - 1) \o SubSeq(rules, i + 1, Len(rules)) :
        i \in {j \in DOMAIN rules : rules[j].active}}

\* _build_resolve of an identifier that is there and ACTIVE.
Resolve(rules) ==
    {[rules EXCEPT ![i].active = FALSE] :
        i \in {j \in DOMAIN rules : rules[j].active}}

Changes(rules) == Add(rules) \cup Resolve(rules)

\* What _propose_locked may put in an envelope: the result is parsed again.
Proposals(rules) == {result \in Changes(rules) : Parses(result)}

-----------------------------------------------------------------------------

\* The rules that were there keep their places, identifiers and symbols, none
\* is active again, and what is new has a number of its own.
Continues(new, old) ==
    /\ Len(new) >= Len(old)
    /\ \A i \in DOMAIN old :
          /\ new[i].id = old[i].id
          /\ new[i].symbol = old[i].symbol
          /\ new[i].active => old[i].active
    /\ \A i \in DOMAIN new \ DOMAIN old :
          \A n \in Numbers(old) : new[i].id.number > n

=============================================================================
