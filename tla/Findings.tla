------------------------------ MODULE Findings ------------------------------
(***************************************************************************)
(* What scan, review and debt compute of a source: findings (rules/), the  *)
(* comparison of those of a baseline with those of the working tree        *)
(* (review.py), and their association with accepted exceptions             *)
(* (governance.py).                                                        *)
(*                                                                         *)
(* A fact is [type, structure, symbol, line]: a literal return in an       *)
(* exception handler, a nested literal case, or an if chain in a named     *)
(* function.  Hashes stand for what they are computed of; versions of the  *)
(* rules are constants of the program and left out.                        *)
(***************************************************************************)
EXTENDS FiniteSets, Naturals

CONSTANTS
    Symbols,      \* qualified names of functions
    None

-----------------------------------------------------------------------------
(* Findings of one file                                                    *)

Single(x, path) ==
    [structure |-> <<x.type, x.structure, x.symbol>>, members |-> None,
     path |-> path, line |-> x.line]

\* SG001 and SG003: every fact is a finding.
HandlerReturns(facts, path) ==
    {Single(x, path) : x \in {y \in facts : y.type = "handlerReturn"}}

NestedCases(facts, path) ==
    {Single(x, path) : x \in {y \in facts : y.type = "nestedCase"}}

\* Counter(members): how often each function has the chain.
Members(chain) == [s \in Symbols |-> Cardinality({x \in chain : x.symbol = s})]

FirstLine(chain) ==
    CHOOSE n \in {x.line : x \in chain} : \A x \in chain : n <= x.line

\* SG002: a chain that at least two functions of the file have.
Groups(facts, path) ==
    LET Chain(s) == {x \in facts : x.type = "chain" /\ x.structure = s}
        repeated == {s \in {x.structure : x \in facts} :
                        Cardinality({x.symbol : x \in Chain(s)}) >= 2}
    IN  {[structure |-> <<"chain", s>>, members |-> Members(Chain(s)),
          path |-> path, line |-> FirstLine(Chain(s))] : s \in repeated}

DetectFindings(facts, path) ==
    HandlerReturns(facts, path) \cup Groups(facts, path)
        \cup NestedCases(facts, path)

Rule(f) == f.structure[1]

\* The path and the members are part of the fingerprint, the line is not.
Fingerprint(f) == <<f.structure, f.path, f.members>>

-----------------------------------------------------------------------------
(* compare_findings                                                        *)

\* Mutated form: a group is not looked for in its own file.
NewPathRenamesOnly(f, renames) ==
    IF f.path \in DOMAIN renames THEN renames[f.path] ELSE None

\* Where a finding of the baseline is looked for under another fingerprint: a
\* renamed file, and a group also in its own.
NewPath(f, renames) ==
    IF f.path \in DOMAIN renames THEN renames[f.path]
    ELSE IF f.members # None THEN f.path
    ELSE None

\* The two rounds of matching, each as a relation between old and new.
SameFingerprint(old, new) ==
    {m \in old \X new : Fingerprint(m[1]) = Fingerprint(m[2])}

Moved(old, new, renames) ==
    {m \in old \X new : /\ NewPath(m[1], renames) = m[2].path
                        /\ m[1].structure = m[2].structure}

Olds(matches) == {m[1] : m \in matches}
News(matches) == {m[2] : m \in matches}

\* There is evidence for a pair only if neither of them has another match.
Certain(matches) ==
    {m \in matches : \A n \in matches : n[1] = m[1] <=> n[2] = m[2]}

Expanded(b, c) ==
    /\ b.members # None
    /\ c.members # None
    /\ \E s \in Symbols : c.members[s] > b.members[s]

Entry(b, c) == [before |-> b, after |-> c]

Apart(matches) ==
    LET unclear == matches \ Certain(matches)
    IN  {Entry(b, None) : b \in Olds(unclear)}
          \cup {Entry(None, c) : c \in News(unclear)}

\* Mutated form: the second round looks at all findings again.
SecondRoundAll(old, new, renames) == Moved(old, new, renames)

\* The second round is for what the first one left over.
SecondRound(old, new, renames) ==
    LET exact == SameFingerprint(old, new)
    IN  Moved(old \ Olds(exact), new \ News(exact), renames)

CompareFindings(old, new, renames) ==
    LET exact == SameFingerprint(old, new)
        moved == SecondRound(old, new, renames)
        grown == {m \in Certain(moved) : Expanded(m[1], m[2])}
    IN  [persisting |-> {Entry(m[1], m[2]) :
                            m \in Certain(exact) \cup (Certain(moved) \ grown)},
         introduced |-> {Entry(m[1], m[2]) : m \in grown}
                          \cup {Entry(None, c) :
                                  c \in new \ (News(exact) \cup News(moved))},
         resolved |-> {Entry(b, None) :
                         b \in old \ (Olds(exact) \cup Olds(moved))},
         unverified |-> Apart(exact) \cup Apart(moved)]

\* _incomplete_delta: what was not seen is not said to be gone.
IncompleteDelta(delta) ==
    [delta EXCEPT !.resolved = {}, !.unverified = @ \cup delta.resolved]

-----------------------------------------------------------------------------
(* load_and_associate                                                      *)

\* At most one entry for a fingerprint.
ValidExceptions(entries) ==
    \A d, e \in entries : d.fingerprint = e.fingerprint => d = e

\* Mutated form: the last day of an acceptance is still accepted.
StatusLastDay(f, findings, entries, today) ==
    LET same == {e \in entries :
                    e.fingerprint = Fingerprint(f) /\ e.rule = Rule(f)}
    IN  IF same = {} THEN "unregistered"
        ELSE IF \E g \in findings \ {f} : Fingerprint(g) = Fingerprint(f)
             THEN "ambiguous"
        ELSE IF \E e \in same : today > e.expires THEN "expired"
        ELSE "accepted"

\* One acceptance is for one place, and until its last day.
Status(f, findings, entries, today) ==
    LET same == {e \in entries :
                    e.fingerprint = Fingerprint(f) /\ e.rule = Rule(f)}
    IN  IF same = {} THEN "unregistered"
        ELSE IF \E g \in findings \ {f} : Fingerprint(g) = Fingerprint(f)
             THEN "ambiguous"
        ELSE IF \E e \in same : today >= e.expires THEN "expired"
        ELSE "accepted"

-----------------------------------------------------------------------------
(* Properties of the algorithm                                             *)

Classes == {"persisting", "introduced", "resolved", "unverified"}

\* The entries of a delta with their class.
Entries(delta) == UNION {{k} \X delta[k] : k \in Classes}

\* No finding of either side is lost, and none is told twice, however many
\* of them look alike and whatever was renamed (compare_findings).
EachFindingOnce(delta, old, new) ==
    /\ \A b \in old : \E x \in Entries(delta) :
          \A y \in Entries(delta) : y[2].before = b <=> y = x
    /\ \A c \in new : \E x \in Entries(delta) :
          \A y \in Entries(delta) : y[2].after = c <=> y = x
    /\ \A x \in Entries(delta) :
          x[2].before \in old \cup {None} /\ x[2].after \in new \cup {None}

=============================================================================
