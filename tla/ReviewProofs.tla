---------------------------- MODULE ReviewProofs ----------------------------
(***************************************************************************)
(* That a review tells of every finding exactly once.  The argument is     *)
(* about one round of matching: a finding that has a match is either in    *)
(* one certain pair and in no other, or in unclear ones only.  The rounds  *)
(* look at different findings, so that the entries of one do not meet      *)
(* those of the other, and None is no finding.  Then, what the rounds say  *)
(* of counterparts: what is introduced has none that it was not compared   *)
(* with, and what a gate lets pass has one that it has not grown over.     *)
(***************************************************************************)
EXTENDS Review, TLAPS

-----------------------------------------------------------------------------
(* One round                                                               *)

Unclear(matches) == matches \ Certain(matches)

\* A match is a pair.
LEMMA Pairs ==
    ASSUME NEW A, NEW B, NEW R \in SUBSET (A \X B)
    PROVE  \A m \in R : /\ m = <<m[1], m[2]>>
                        /\ m[1] \in A /\ m[2] \in B
                        /\ m[1] \in Olds(R) /\ m[2] \in News(R)
BY DEF Olds, News

\* A certain pair shares neither side with another match.
LEMMA CertainAlone ==
    ASSUME NEW A, NEW B, NEW R \in SUBSET (A \X B)
    PROVE  \A m \in Certain(R) : m \in R /\ \A n \in R :
              (n[1] = m[1] => n = m) /\ (n[2] = m[2] => n = m)
<1> SUFFICES ASSUME NEW m \in Certain(R), NEW n \in R, n[1] = m[1] \/ n[2] = m[2]
             PROVE  n = m
  BY DEF Certain
<1>1. m \in R /\ n[1] = m[1] /\ n[2] = m[2]
  BY DEF Certain
<1>2. m = <<m[1], m[2]>> /\ n = <<n[1], n[2]>>
  BY <1>1, Pairs
<1> QED
  BY <1>1, <1>2

\* What one round makes of an old finding.
LEMMA OldOnce ==
    ASSUME NEW A, NEW B, NEW R \in SUBSET (A \X B), NEW b \in Olds(R)
    PROVE  \/ /\ b \notin Olds(Unclear(R))
              /\ \E m \in Certain(R) : m[1] = b /\ \A n \in R : n[1] = b => n = m
           \/ /\ b \in Olds(Unclear(R))
              /\ \A m \in Certain(R) : m[1] # b
<1>0. \A m \in Certain(R) : m \in R /\ \A n \in R :
        (n[1] = m[1] => n = m) /\ (n[2] = m[2] => n = m)
  BY CertainAlone
<1>1. PICK m \in R : m[1] = b
  BY DEF Olds
<1>2. CASE m \in Certain(R)
  <2>1. \A n \in R : n[1] = b => n = m
    BY <1>0, <1>1, <1>2
  <2>2. b \notin Olds(Unclear(R))
    BY <2>1, <1>2 DEF Olds, Unclear
  <2> QED
    BY <1>1, <1>2, <2>1, <2>2
<1>3. CASE m \notin Certain(R)
  <2>1. b \in Olds(Unclear(R))
    BY <1>1, <1>3 DEF Olds, Unclear
  <2>2. \A n \in Certain(R) : n[1] # b
    BY <1>0, <1>1, <1>3
  <2> QED
    BY <2>1, <2>2
<1> QED
  BY <1>2, <1>3

\* What one round makes of a new finding.
LEMMA NewOnce ==
    ASSUME NEW A, NEW B, NEW R \in SUBSET (A \X B), NEW c \in News(R)
    PROVE  \/ /\ c \notin News(Unclear(R))
              /\ \E m \in Certain(R) : m[2] = c /\ \A n \in R : n[2] = c => n = m
           \/ /\ c \in News(Unclear(R))
              /\ \A m \in Certain(R) : m[2] # c
<1>0. \A m \in Certain(R) : m \in R /\ \A n \in R :
        (n[1] = m[1] => n = m) /\ (n[2] = m[2] => n = m)
  BY CertainAlone
<1>1. PICK m \in R : m[2] = c
  BY DEF News
<1>2. CASE m \in Certain(R)
  <2>1. \A n \in R : n[2] = c => n = m
    BY <1>0, <1>1, <1>2
  <2>2. c \notin News(Unclear(R))
    BY <2>1, <1>2 DEF News, Unclear
  <2> QED
    BY <1>1, <1>2, <2>1, <2>2
<1>3. CASE m \notin Certain(R)
  <2>1. c \in News(Unclear(R))
    BY <1>1, <1>3 DEF News, Unclear
  <2>2. \A n \in Certain(R) : n[2] # c
    BY <1>0, <1>1, <1>3
  <2> QED
    BY <2>1, <2>2
<1> QED
  BY <1>2, <1>3

-----------------------------------------------------------------------------
(* The two rounds together                                                 *)

\* An entry of a delta comes with its class.
LEMMA EntriesAre ==
    ASSUME NEW delta
    PROVE  \A x : x \in Entries(delta) <=>
              \E k \in Classes : \E e \in delta[k] : x = <<k, e>>
BY DEF Entries

\* The entries that two rounds E and M make, where G is the grown groups.
EntryOf(x, old, new, E, M, G) ==
    \/ \E m \in Certain(E) : x = <<"persisting", Entry(m[1], m[2])>>
    \/ \E m \in Certain(M) : m \notin G /\ x = <<"persisting", Entry(m[1], m[2])>>
    \/ \E m \in Certain(M) : m \in G /\ x = <<"introduced", Entry(m[1], m[2])>>
    \/ \E c \in new : /\ c \notin News(E) /\ c \notin News(M)
                      /\ x = <<"introduced", Entry(None, c)>>
    \/ \E b \in old : /\ b \notin Olds(E) /\ b \notin Olds(M)
                      /\ x = <<"resolved", Entry(b, None)>>
    \/ \E b : /\ b \in Olds(Unclear(E)) \/ b \in Olds(Unclear(M))
              /\ x = <<"unverified", Entry(b, None)>>
    \/ \E c : /\ c \in News(Unclear(E)) \/ c \in News(Unclear(M))
              /\ x = <<"unverified", Entry(None, c)>>

\* The parts of what compare_findings returns.
LEMMA Parts ==
    ASSUME NEW old, NEW new, NEW ren
    PROVE  LET E == SameFingerprint(old, new)
               M == SecondRound(old, new, ren)
               G == {m \in Certain(M) : Expanded(m[1], m[2])}
           IN  \A x : x \in Entries(CompareFindings(old, new, ren)) <=> EntryOf(x, old, new, E, M, G)
<1> DEFINE E == SameFingerprint(old, new)
           M == SecondRound(old, new, ren)
           G == {m \in Certain(M) : Expanded(m[1], m[2])}
           delta == CompareFindings(old, new, ren)
<1>1. /\ delta.persisting = {Entry(m[1], m[2]) : m \in Certain(E) \cup (Certain(M) \ G)}
      /\ delta.introduced = {Entry(m[1], m[2]) : m \in G}
                              \cup {Entry(None, c) : c \in new \ (News(E) \cup News(M))}
      /\ delta.resolved = {Entry(b, None) : b \in old \ (Olds(E) \cup Olds(M))}
      /\ delta.unverified = Apart(E) \cup Apart(M)
  BY DEF CompareFindings
<1>2. /\ Apart(E) = {Entry(b, None) : b \in Olds(Unclear(E))}
                      \cup {Entry(None, c) : c \in News(Unclear(E))}
      /\ Apart(M) = {Entry(b, None) : b \in Olds(Unclear(M))}
                      \cup {Entry(None, c) : c \in News(Unclear(M))}
  BY DEF Apart, Unclear
<1>3. \A x : x \in Entries(delta) <=>
         \/ \E e \in delta.persisting : x = <<"persisting", e>>
         \/ \E e \in delta.introduced : x = <<"introduced", e>>
         \/ \E e \in delta.resolved : x = <<"resolved", e>>
         \/ \E e \in delta.unverified : x = <<"unverified", e>>
  BY EntriesAre DEF Classes
<1>4. G \subseteq Certain(M)
  OBVIOUS
<1> HIDE DEF E, M, G, delta
<1>5. \A x : x \in Entries(delta) <=> EntryOf(x, old, new, E, M, G)
  BY <1>1, <1>2, <1>3, <1>4 DEF EntryOf
<1> QED
  BY <1>5 DEF E, M, G, delta

\* Both rounds match old findings with new ones, and the second one only what
\* the first one left.
LEMMA Rounds ==
    ASSUME NEW old, NEW new, NEW ren
    PROVE  LET E == SameFingerprint(old, new)
               M == SecondRound(old, new, ren)
           IN  /\ E \in SUBSET (old \X new)
               /\ M \in SUBSET ((old \ Olds(E)) \X (new \ News(E)))
BY DEF SameFingerprint, SecondRound, Moved

\* The comparison of findings tells of each of them exactly once
\* (compare_findings), for any findings and any renames.
THEOREM ComparedOnce ==
    ASSUME NEW old, NEW new, NEW ren, None \notin old, None \notin new
    PROVE  EachFindingOnce(CompareFindings(old, new, ren), old, new)
<1> DEFINE E == SameFingerprint(old, new)
           M == SecondRound(old, new, ren)
           G == {m \in Certain(M) : Expanded(m[1], m[2])}
           D == Entries(CompareFindings(old, new, ren))
<1>1. /\ E \in SUBSET (old \X new)
      /\ M \in SUBSET ((old \ Olds(E)) \X (new \ News(E)))
  BY Rounds
<1>2. \A x : x \in D <=> EntryOf(x, old, new, E, M, G)
  BY Parts
<1>3. /\ None \notin old /\ None \notin new
      /\ \A m \in Certain(E) : m[1] \in old /\ m[2] \in new
      /\ \A m \in Certain(M) : m[1] \in old /\ m[2] \in new
      /\ Olds(Unclear(E)) \subseteq old /\ Olds(Unclear(M)) \subseteq old
      /\ News(Unclear(E)) \subseteq new /\ News(Unclear(M)) \subseteq new
  BY <1>1 DEF Certain, Olds, News, Unclear
<1> HIDE DEF E, M, G, D
<1>4. ASSUME NEW b \in old
      PROVE  \E x \in D : \A y \in D : y[2].before = b <=> y = x
  <2>1. CASE b \in Olds(E)
    <3>1. b \notin Olds(M) /\ b \notin Olds(Unclear(M))
      BY <1>1, <2>1 DEF Olds, Unclear
    <3>2. CASE /\ b \notin Olds(Unclear(E))
               /\ \E m \in Certain(E) :
                     m[1] = b /\ \A n \in E : n[1] = b => n = m
      <4>1. PICK m \in Certain(E) : m[1] = b /\ \A n \in E : n[1] = b => n = m
        BY <3>2
      <4>2. \A n \in Certain(E) : n[1] = b => n = m
        BY <4>1 DEF Certain
      <4>3. \A n \in Certain(M) : n[1] # b
        BY <3>1 DEF Certain, Olds
      <4>4. <<"persisting", Entry(m[1], m[2])>> \in D
        BY <1>2, <4>1 DEF EntryOf
      <4> QED
        BY <1>2, <1>3, <2>1, <3>1, <3>2, <4>1, <4>2, <4>3, <4>4 DEF EntryOf, Entry
    <3>3. CASE b \in Olds(Unclear(E)) /\ \A m \in Certain(E) : m[1] # b
      <4>1. \A n \in Certain(M) : n[1] # b
        BY <3>1 DEF Certain, Olds
      <4>2. <<"unverified", Entry(b, None)>> \in D
        BY <1>2, <3>3 DEF EntryOf
      <4> QED
        BY <1>2, <1>3, <2>1, <3>1, <3>3, <4>1, <4>2 DEF EntryOf, Entry
    <3> QED
      BY <1>1, <2>1, <3>2, <3>3, OldOnce
  <2>2. CASE b \notin Olds(E) /\ b \in Olds(M)
    <3>1. b \notin Olds(Unclear(E)) /\ \A n \in Certain(E) : n[1] # b
      BY <2>2 DEF Olds, Unclear, Certain
    <3>2. CASE /\ b \notin Olds(Unclear(M))
               /\ \E m \in Certain(M) :
                     m[1] = b /\ \A n \in M : n[1] = b => n = m
      <4>1. PICK m \in Certain(M) : m[1] = b /\ \A n \in M : n[1] = b => n = m
        BY <3>2
      <4>2. \A n \in Certain(M) : n[1] = b => n = m
        BY <4>1 DEF Certain
      <4>3. CASE m \in G
        <5>1. <<"introduced", Entry(m[1], m[2])>> \in D
          BY <1>2, <4>1, <4>3 DEF EntryOf
        <5> QED
          BY <1>2, <1>3, <2>2, <3>1, <3>2, <4>1, <4>2, <4>3, <5>1 DEF EntryOf, Entry
      <4>4. CASE m \notin G
        <5>1. <<"persisting", Entry(m[1], m[2])>> \in D
          BY <1>2, <4>1, <4>4 DEF EntryOf
        <5> QED
          BY <1>2, <1>3, <2>2, <3>1, <3>2, <4>1, <4>2, <4>4, <5>1 DEF EntryOf, Entry
      <4> QED
        BY <4>3, <4>4
    <3>3. CASE b \in Olds(Unclear(M)) /\ \A m \in Certain(M) : m[1] # b
      <4>1. <<"unverified", Entry(b, None)>> \in D
        BY <1>2, <3>3 DEF EntryOf
      <4> QED
        BY <1>2, <1>3, <2>2, <3>1, <3>3, <4>1 DEF EntryOf, Entry
    <3> QED
      BY <1>1, <2>2, <3>2, <3>3, OldOnce
  <2>3. CASE b \notin Olds(E) /\ b \notin Olds(M)
    <3>1. /\ b \notin Olds(Unclear(E)) /\ \A n \in Certain(E) : n[1] # b
          /\ b \notin Olds(Unclear(M)) /\ \A n \in Certain(M) : n[1] # b
      BY <2>3 DEF Olds, Unclear, Certain
    <3>2. <<"resolved", Entry(b, None)>> \in D
      BY <1>2, <2>3 DEF EntryOf
    <3> QED
      BY <1>2, <1>3, <2>3, <3>1, <3>2 DEF EntryOf, Entry
  <2> QED
    BY <2>1, <2>2, <2>3
<1>5. ASSUME NEW c \in new
      PROVE  \E x \in D : \A y \in D : y[2].after = c <=> y = x
  <2>1. CASE c \in News(E)
    <3>1. c \notin News(M) /\ c \notin News(Unclear(M))
      BY <1>1, <2>1 DEF News, Unclear
    <3>2. CASE /\ c \notin News(Unclear(E))
               /\ \E m \in Certain(E) :
                     m[2] = c /\ \A n \in E : n[2] = c => n = m
      <4>1. PICK m \in Certain(E) : m[2] = c /\ \A n \in E : n[2] = c => n = m
        BY <3>2
      <4>2. \A n \in Certain(E) : n[2] = c => n = m
        BY <4>1 DEF Certain
      <4>3. \A n \in Certain(M) : n[2] # c
        BY <3>1 DEF Certain, News
      <4>4. <<"persisting", Entry(m[1], m[2])>> \in D
        BY <1>2, <4>1 DEF EntryOf
      <4> QED
        BY <1>2, <1>3, <2>1, <3>1, <3>2, <4>1, <4>2, <4>3, <4>4 DEF EntryOf, Entry
    <3>3. CASE c \in News(Unclear(E)) /\ \A m \in Certain(E) : m[2] # c
      <4>1. \A n \in Certain(M) : n[2] # c
        BY <3>1 DEF Certain, News
      <4>2. <<"unverified", Entry(None, c)>> \in D
        BY <1>2, <3>3 DEF EntryOf
      <4> QED
        BY <1>2, <1>3, <2>1, <3>1, <3>3, <4>1, <4>2 DEF EntryOf, Entry
    <3> QED
      BY <1>1, <2>1, <3>2, <3>3, NewOnce
  <2>2. CASE c \notin News(E) /\ c \in News(M)
    <3>1. c \notin News(Unclear(E)) /\ \A n \in Certain(E) : n[2] # c
      BY <2>2 DEF News, Unclear, Certain
    <3>2. CASE /\ c \notin News(Unclear(M))
               /\ \E m \in Certain(M) :
                     m[2] = c /\ \A n \in M : n[2] = c => n = m
      <4>1. PICK m \in Certain(M) : m[2] = c /\ \A n \in M : n[2] = c => n = m
        BY <3>2
      <4>2. \A n \in Certain(M) : n[2] = c => n = m
        BY <4>1 DEF Certain
      <4>3. CASE m \in G
        <5>1. <<"introduced", Entry(m[1], m[2])>> \in D
          BY <1>2, <4>1, <4>3 DEF EntryOf
        <5> QED
          BY <1>2, <1>3, <2>2, <3>1, <3>2, <4>1, <4>2, <4>3, <5>1 DEF EntryOf, Entry
      <4>4. CASE m \notin G
        <5>1. <<"persisting", Entry(m[1], m[2])>> \in D
          BY <1>2, <4>1, <4>4 DEF EntryOf
        <5> QED
          BY <1>2, <1>3, <2>2, <3>1, <3>2, <4>1, <4>2, <4>4, <5>1 DEF EntryOf, Entry
      <4> QED
        BY <4>3, <4>4
    <3>3. CASE c \in News(Unclear(M)) /\ \A m \in Certain(M) : m[2] # c
      <4>1. <<"unverified", Entry(None, c)>> \in D
        BY <1>2, <3>3 DEF EntryOf
      <4> QED
        BY <1>2, <1>3, <2>2, <3>1, <3>3, <4>1 DEF EntryOf, Entry
    <3> QED
      BY <1>1, <2>2, <3>2, <3>3, NewOnce
  <2>3. CASE c \notin News(E) /\ c \notin News(M)
    <3>1. /\ c \notin News(Unclear(E)) /\ \A n \in Certain(E) : n[2] # c
          /\ c \notin News(Unclear(M)) /\ \A n \in Certain(M) : n[2] # c
      BY <2>3 DEF News, Unclear, Certain
    <3>2. <<"introduced", Entry(None, c)>> \in D
      BY <1>2, <2>3 DEF EntryOf
    <3> QED
      BY <1>2, <1>3, <2>3, <3>1, <3>2 DEF EntryOf, Entry
  <2> QED
    BY <2>1, <2>2, <2>3
<1>6. \A x \in D : /\ x[2].before \in old \cup {None}
                   /\ x[2].after \in new \cup {None}
  BY <1>2, <1>3 DEF EntryOf, Entry
<1> QED
  BY <1>4, <1>5, <1>6 DEF EachFindingOnce, D

\* An incomplete analysis moves the resolved findings to the unverified ones,
\* which loses none either (_incomplete_delta).
LEMMA IncompleteOnce ==
    ASSUME NEW old, NEW new, NEW ren, None \notin old, None \notin new
    PROVE  EachFindingOnce(IncompleteDelta(CompareFindings(old, new, ren)), old, new)
<1> DEFINE delta == CompareFindings(old, new, ren)
           less == IncompleteDelta(delta)
           D == Entries(delta)
           L == Entries(less)
           Moving(x) == IF x[1] = "resolved" THEN <<"unverified", x[2]>> ELSE x
<1>1. EachFindingOnce(delta, old, new)
  BY ComparedOnce
<1>2. /\ less.resolved = {}
      /\ less.unverified = delta.unverified \cup delta.resolved
      /\ less.persisting = delta.persisting
      /\ less.introduced = delta.introduced
  BY DEF IncompleteDelta, CompareFindings
<1> HIDE DEF less, delta
<1>3. \A x : x \in D <=> \/ \E e \in delta.persisting : x = <<"persisting", e>>
                         \/ \E e \in delta.introduced : x = <<"introduced", e>>
                         \/ \E e \in delta.resolved : x = <<"resolved", e>>
                         \/ \E e \in delta.unverified : x = <<"unverified", e>>
  BY EntriesAre DEF Classes
<1>4. \A x : x \in L <=> \/ \E e \in delta.persisting : x = <<"persisting", e>>
                         \/ \E e \in delta.introduced : x = <<"introduced", e>>
                         \/ \E e \in delta.resolved : x = <<"unverified", e>>
                         \/ \E e \in delta.unverified : x = <<"unverified", e>>
  BY <1>2, EntriesAre DEF Classes
<1>5. \A x \in D : Moving(x) \in L /\ Moving(x)[2] = x[2]
  BY <1>3, <1>4
<1>6. ASSUME NEW y \in L
      PROVE  \E x \in D : Moving(x) = y /\ y[2] = x[2]
  <2>1. CASE \E e \in delta.resolved : y = <<"unverified", e>>
    <3>1. PICK e \in delta.resolved : y = <<"unverified", e>>
      BY <2>1
    <3>2. <<"resolved", e>> \in D /\ Moving(<<"resolved", e>>) = y
      BY <1>3, <3>1
    <3> QED
      BY <3>1, <3>2
  <2>2. CASE ~ \E e \in delta.resolved : y = <<"unverified", e>>
    <3>1. y \in D /\ y[1] # "resolved"
      BY <1>3, <1>4, <2>2
    <3> QED
      BY <3>1
  <2> QED
    BY <2>1, <2>2
<1> HIDE DEF D, L, Moving
<1>7. ASSUME NEW b \in old
      PROVE  \E y \in L : \A z \in L : z[2].before = b <=> z = y
  <2>1. PICK x \in D : \A z \in D : z[2].before = b <=> z = x
    BY <1>1 DEF EachFindingOnce, D
  <2> QED
    BY <1>5, <1>6, <2>1
<1>8. ASSUME NEW c \in new
      PROVE  \E y \in L : \A z \in L : z[2].after = c <=> z = y
  <2>1. PICK x \in D : \A z \in D : z[2].after = c <=> z = x
    BY <1>1 DEF EachFindingOnce, D
  <2> QED
    BY <1>5, <1>6, <2>1
<1>9. \A y \in L : y[2].before \in old \cup {None} /\ y[2].after \in new \cup {None}
  BY <1>1, <1>6 DEF EachFindingOnce, D
<1> QED
  BY <1>7, <1>8, <1>9 DEF EachFindingOnce, L, less, delta

-----------------------------------------------------------------------------
(* Findings that look alike                                                *)

\* A file has a finding of a group at most once for each structure, and a
\* structure is that of groups or that of single findings.
LEMMA GroupsAreUnique ==
    ASSUME NEW s \in Sources, NEW p \in Paths
    PROVE  \A f \in DetectFindings(Facts[s], p) :
              /\ f.path = p
              /\ f.members # None <=> f.structure[1] = "chain"
              /\ f.members # None => f.members \in [Symbols -> Nat]
              /\ \A g \in DetectFindings(Facts[s], p) :
                    f.structure = g.structure /\ f.members # None => f = g
<1> DEFINE facts == Facts[s]
           Chain(t) == {x \in facts : x.type = "chain" /\ x.structure = t}
           Group(t) == [structure |-> <<"chain", t>>,
                        members |-> Members(Chain(t)),
                        path |-> p, line |-> FirstLine(Chain(t))]
           singles == HandlerReturns(facts, p) \cup NestedCases(facts, p)
<1>1. \A f \in Groups(facts, p) : \E t : f = Group(t)
  BY DEF Groups
<1>2. \A f \in Groups(facts, p) :
          f.members \in [Symbols -> Nat] /\ f.members # None
  BY NoneIsNoFinding
<1>3. \A t : Group(t).structure = <<"chain", t>> /\ Group(t).path = p
  OBVIOUS
<1>4. \A f \in singles :
          /\ f.path = p /\ f.members = None
          /\ f.structure[1] \in {"handlerReturn", "nestedCase"}
  BY DEF HandlerReturns, NestedCases, Single
<1>5. DetectFindings(facts, p) = singles \cup Groups(facts, p)
  BY DEF DetectFindings
<1> HIDE DEF Chain, Group, singles
<1>6. \A f \in Groups(facts, p) : f.path = p /\ f.structure[1] = "chain"
  BY <1>1, <1>3
<1>7. \A f, g \in Groups(facts, p) : f.structure = g.structure => f = g
  <2> SUFFICES ASSUME NEW f \in Groups(facts, p), NEW g \in Groups(facts, p),
                      f.structure = g.structure
               PROVE  f = g
    OBVIOUS
  <2>1. PICK t : f = Group(t)
    BY <1>1
  <2>2. PICK u : g = Group(u)
    BY <1>1
  <2>3. t = u
    BY <1>3, <2>1, <2>2
  <2>. QED
    BY <2>1, <2>2, <2>3
<1>. QED
  BY <1>2, <1>4, <1>5, <1>6, <1>7

\* The same of all files of one side.
LEMMA SideFindings ==
    ASSUME NEW side
    PROVE  \A f \in AllFindings(side) :
              /\ f.path \in Paths /\ side[f.path] \in Sources
              /\ f.members # None <=> f.structure[1] = "chain"
              /\ f.members # None => f.members \in [Symbols -> Nat]
              /\ \A g \in AllFindings(side) :
                    /\ f.path = g.path /\ f.structure = g.structure
                    /\ f.members # None
                    => f = g
<1>1. \A f \in AllFindings(side) : \E p \in Paths :
          side[p] \in Sources /\ f \in DetectFindings(Facts[side[p]], p)
  BY DEF AllFindings, Parsed
<1>. QED
  BY <1>1, GroupsAreUnique

\* A finding of the base is either looked for where it would be, or is one
\* that only its fingerprint finds.
LEMMA CounterpartsAreMatched ==
    ASSUME NEW c \in Current, NEW b \in Counterparts(c)
    PROVE  \/ Fingerprint(b) = Fingerprint(c)
           \/ b.structure = c.structure /\ NewPath(b, renames) = c.path
<1>1. b \in AllFindings(base) /\ c \in AllFindings(inventory)
  BY DEF Counterparts, Current
<1>2. CASE b.path \notin DOMAIN renames /\ b.members = None
  BY <1>1, <1>2, SideFindings DEF Counterparts, PathAfter, Fingerprint
<1>3. CASE b.path \in DOMAIN renames \/ b.members # None
  BY <1>3 DEF Counterparts, PathAfter, NewPath
<1>. QED
  BY <1>2, <1>3

\* And what a round matches is a counterpart.
LEMMA MatchedAreCounterparts ==
    ASSUME NEW c \in Current, NEW b \in AllFindings(base),
           \/ Fingerprint(b) = Fingerprint(c)
           \/ b.structure = c.structure /\ NewPath(b, renames) = c.path
    PROVE  b \in Counterparts(c)
<1>1. c.path \in Paths
  BY SideFindings DEF Current
<1>. QED
  BY <1>1, ReviewAssumption DEF Counterparts, PathAfter, NewPath

\* The findings of a snapshot are records, and not None.
LEMMA NoneNotFound ==
    ASSUME NEW side
    PROVE  None \notin AllFindings(side)
BY NoneIsNoFinding DEF AllFindings, Parsed

-----------------------------------------------------------------------------
(* The invariant of a command                                              *)

\* Git tells of renames to files that the commit does not have, one for each.
RenamesKnown ==
    /\ \A p \in DOMAIN renames : compared[renames[p]] = Absent
    /\ \A p, q \in DOMAIN renames : renames[p] = renames[q] => p = q

\* A report is made of what was read, and nothing it is made of changes later.
ReportIsJudged ==
    Reviewed => /\ report.delta = Delta /\ report.exit = Exit
                /\ exceptions # Invalid

IInv == TypeOK /\ RenamesKnown /\ ReportIsJudged

\* What a change set says, of Git's rules.
LEMMA ChangeSetsAre ==
    ASSUME TypeOK, NEW changes \in C!ChangeSets(ref, tracked, tree)
    PROVE  /\ changes.deleted \subseteq Paths
           /\ DOMAIN changes.renames \subseteq Paths
           /\ \A p \in DOMAIN changes.renames :
                 /\ changes.renames[p] \in Paths
                 /\ ref[changes.renames[p]] = Absent
           /\ \A p, q \in DOMAIN changes.renames :
                 changes.renames[p] = changes.renames[q] => p = q
<1> DEFINE removed == C!Removed(ref, tracked, tree)
           created == C!Created(ref, tracked, tree)
<1>1. PICK f \in C!Renamings(ref, tracked, tree) :
          /\ changes.renames = f
          /\ changes.deleted =
                ((C!Committed(ref) \ C!Listed(tracked, tree)) \cup removed)
                    \ DOMAIN f
  BY DEF C!ChangeSets
<1>2. PICK old \in SUBSET removed : f \in [old -> created]
  BY DEF C!Renamings
<1>3. \A p, q \in DOMAIN f : f[p] = f[q] => p = q
  BY DEF C!Renamings
<1>4. removed \subseteq Paths /\ C!Committed(ref) \subseteq Paths
  BY DEF C!Removed, C!Committed
<1>5. \A p \in created : p \in Paths /\ ref[p] = Absent
  BY DEF C!Created, TypeOK
<1>. QED
  BY <1>1, <1>2, <1>3, <1>4, <1>5

LEMMA IInvInit == Init => IInv
<1> SUFFICES ASSUME Init PROVE IInv
  OBVIOUS
<1>1. phase # "done" /\ DOMAIN renames = {}
  BY DEF Init, NoRenames
<1>2. RenamesKnown /\ ReportIsJudged
  BY <1>1 DEF RenamesKnown, ReportIsJudged, Reviewed
<1>3. TypeOK
  BY <1>1, ReviewAssumption DEF Init, TypeOK, Phases
<1>. QED
  BY <1>2, <1>3 DEF IInv

\* As long as there is no report, only what is read counts.
LEMMA NotYetJudged ==
    ASSUME phase' # "done"
    PROVE  ReportIsJudged'
BY DEF ReportIsJudged, Reviewed

LEMMA IInvNext == IInv /\ [Next]_vars => IInv'
<1> SUFFICES ASSUME IInv, [Next]_vars PROVE IInv'
  OBVIOUS
<1> USE DEF worldVars, readVars
<1>0. TypeOK /\ RenamesKnown /\ ReportIsJudged
  BY DEF IInv
<1>1. CASE CollectBase
  <2>1. TypeOK' /\ RenamesKnown'
    BY <1>0, <1>1 DEF CollectBase, TypeOK, RenamesKnown, Phases
  <2>. QED
    BY <1>1, <2>1, NotYetJudged DEF CollectBase, IInv
<1>2. CASE FindDeleted
  <2>1. deleted' \subseteq Paths
    BY <1>0, <1>2, ChangeSetsAre DEF FindDeleted
  <2>2. TypeOK' /\ RenamesKnown'
    BY <1>0, <1>2, <2>1 DEF FindDeleted, TypeOK, RenamesKnown, Phases
  <2>. QED
    BY <1>2, <2>2, NotYetJudged DEF FindDeleted, IInv
<1>3. CASE Collect \/ CollectUnstable
  <2>1. \A p \in Paths : Noted(p) \in States \cup {Missing}
    BY <1>0 DEF TypeOK, Noted
  <2>2. /\ inventory' \in [Paths -> States \cup {Missing}]
        /\ tree' \in [Paths -> States]
        /\ phase' = IF command = "scan" THEN "govern" ELSE "renames"
        /\ phase = "collect" /\ stable' \in BOOLEAN
    <3>1. \/ UNCHANGED tree
          \/ \E p \in Paths, s \in States : tree' = [tree EXCEPT ![p] = s]
      BY <1>3 DEF Collect, CollectUnstable
    <3>2. tree' \in [Paths -> States]
      BY <1>0, <3>1 DEF TypeOK
    <3>3. CollectTree /\ stable' \in BOOLEAN
      BY <1>3 DEF Collect, CollectUnstable
    <3>. QED
      BY <2>1, <3>2, <3>3 DEF CollectTree
  <2>3. UNCHANGED <<tracked, ref, exceptions, today, command, base, deleted,
                    compared, renames, report>>
    BY <1>3 DEF Collect, CollectUnstable
  <2>4. TypeOK' /\ RenamesKnown'
    BY <1>0, <2>2, <2>3 DEF TypeOK, RenamesKnown, Phases
  <2>. QED
    BY <2>2, <2>4, NotYetJudged DEF IInv
<1>4. CASE FindRenames
  <2>1. PICK changes \in C!ChangeSets(ref, tracked, tree) :
            renames' = changes.renames
    BY <1>4 DEF FindRenames
  <2>2. TypeOK' /\ RenamesKnown'
    BY <1>0, <1>4, <2>1, ChangeSetsAre
    DEF FindRenames, TypeOK, RenamesKnown, Phases
  <2>. QED
    BY <1>4, <2>2, NotYetJudged DEF FindRenames, IInv
<1>5. CASE Govern
  <2>1. Delta' = Delta /\ Exit' = Exit
    BY <1>5 DEF Govern, Delta, Exit, Current, ReviewComplete, ScanComplete,
                StatusOf
  <2>2. Exit \in 0 .. 2
    BY DEF Exit
  <2>3. TypeOK' /\ RenamesKnown'
    BY <1>0, <1>5, <2>2 DEF Govern, Failure, TypeOK, RenamesKnown, Phases
  <2>4. report'.delta # None =>
            /\ report'.delta = Delta /\ report'.exit = Exit
            /\ exceptions' # Invalid
    BY <1>5 DEF Govern, Failure
  <2>. QED
    BY <2>1, <2>3, <2>4 DEF IInv, ReportIsJudged, Reviewed
<1>6. CASE GitFails
  BY <1>0, <1>6 DEF GitFails, Failure, IInv, TypeOK, RenamesKnown,
                    ReportIsJudged, Reviewed, Phases
<1>7. CASE Change
  <2>1. TypeOK' /\ RenamesKnown'
    BY <1>0, <1>7 DEF Change, TypeOK, RenamesKnown
  <2>. QED
    BY <1>7, <2>1, NotYetJudged DEF Change, IInv
<1>8. CASE UNCHANGED vars
  <2>1. Delta' = Delta /\ Exit' = Exit
    BY <1>8 DEF vars, Delta, Exit, Current, ReviewComplete, ScanComplete,
                StatusOf
  <2>. QED
    BY <1>0, <1>8, <2>1 DEF vars, IInv, TypeOK, RenamesKnown, ReportIsJudged,
                            Reviewed
<1>. QED
  BY <1>1, <1>2, <1>3, <1>4, <1>5, <1>6, <1>7, <1>8 DEF Next

\* The variables of a command have their types, and what a step needs of an
\* earlier one is there.
THEOREM TypeCorrect == Spec => []TypeOK
<1>1. IInv => TypeOK
  BY DEF IInv
<1>. QED
  BY <1>1, IInvInit, IInvNext, PTL DEF Spec

\* At the end of every review each finding of either side is in exactly one
\* entry of one class (compare_findings, _incomplete_delta).
THEOREM EveryFindingTold == Spec => []DeltaIsPartition
<1>1. IInv => DeltaIsPartition
  <2> SUFFICES ASSUME IInv, Reviewed
               PROVE  EachFindingOnce(report.delta, AllFindings(base), Current)
    BY DEF DeltaIsPartition
  <2>1. report.delta = Delta
    BY DEF IInv, ReportIsJudged
  <2>2. None \notin AllFindings(base) /\ None \notin Current
    BY NoneNotFound DEF Current
  <2>. QED
    BY <2>1, <2>2, ComparedOnce, IncompleteOnce DEF Delta
<1>. QED
  BY <1>1, IInvInit, IInvNext, PTL DEF Spec

-----------------------------------------------------------------------------
(* What is new, and what a gate lets pass                                  *)

\* Whether the analysis is complete or not, the same is introduced.
LEMMA IntroducedOfReport ==
    ASSUME NEW old, NEW new, NEW ren
    PROVE  /\ CompareFindings(old, new, ren).introduced =
                {Entry(m[1], m[2]) :
                    m \in {n \in Certain(SecondRound(old, new, ren)) :
                              Expanded(n[1], n[2])}}
                  \cup {Entry(None, c) :
                          c \in new \ (News(SameFingerprint(old, new))
                                       \cup News(SecondRound(old, new, ren)))}
           /\ IncompleteDelta(CompareFindings(old, new, ren)).introduced =
                CompareFindings(old, new, ren).introduced
BY DEF CompareFindings, IncompleteDelta

\* What a review introduces is new, or a group that has grown over the only
\* finding it can be compared with (compare_findings).
THEOREM IntroducedNew == Spec => []IntroducedIsNew
<1> DEFINE old == AllFindings(base)
           E == SameFingerprint(old, Current)
           M == SecondRound(old, Current, renames)
<1>1. ASSUME IInv, Reviewed, NEW e \in report.delta.introduced,
             NEW b \in Counterparts(e.after)
      PROVE  \/ b = e.before /\ Expanded(b, e.after)
             \/ StillThere(b)
  <2>1. \/ \E m \in Certain(M) : Expanded(m[1], m[2]) /\ e = Entry(m[1], m[2])
        \/ \E c \in Current \ (News(E) \cup News(M)) : e = Entry(None, c)
    BY <1>1, IntroducedOfReport DEF IInv, ReportIsJudged, Delta
  <2>2. E \in SUBSET (old \X Current)
        /\ M \in SUBSET ((old \ Olds(E)) \X (Current \ News(E)))
    BY Rounds
  <2>3. b \in old
    BY DEF Counterparts
  <2>4. e.after \in Current \ News(E)
    BY <2>1, <2>2 DEF Entry, Certain
  <2>5. Fingerprint(b) # Fingerprint(e.after)
    <3> SUFFICES ASSUME Fingerprint(b) = Fingerprint(e.after) PROVE FALSE
      OBVIOUS
    <3>1. <<b, e.after>> \in E
      BY <2>3, <2>4 DEF SameFingerprint
    <3>. QED
      BY <2>4, <3>1 DEF News
  <2>6. b.structure = e.after.structure /\ NewPath(b, renames) = e.after.path
    BY <2>4, <2>5, CounterpartsAreMatched
  <2>7. CASE b \in Olds(E)
    BY <2>7 DEF Olds, SameFingerprint, StillThere
  <2>8. CASE b \notin Olds(E)
    <3>1. <<b, e.after>> \in M
      BY <2>3, <2>4, <2>6, <2>8 DEF SecondRound, Moved
    <3>2. e.after \in News(M)
      BY <3>1 DEF News
    <3>3. PICK m \in Certain(M) : Expanded(m[1], m[2]) /\ e = Entry(m[1], m[2])
      BY <2>1, <3>2 DEF Entry
    <3>4. b = m[1]
      BY <3>1, <3>3 DEF Entry, Certain
    <3>. QED
      BY <3>3, <3>4 DEF Entry
  <2>. QED
    BY <2>7, <2>8
<1>2. IInv => IntroducedIsNew
  BY <1>1 DEF IntroducedIsNew
<1>. QED
  BY <1>2, IInvInit, IInvNext, PTL DEF Spec

\* A group that has grown over a finding of the base meets no other one, as
\* Git renames a file only to where the commit has none.
LEMMA GrownIsCertain ==
    ASSUME RenamesKnown, compared = base,
           NEW m \in SecondRound(AllFindings(base), Current, renames),
           Expanded(m[1], m[2])
    PROVE  m \in Certain(SecondRound(AllFindings(base), Current, renames))
<1> DEFINE old == AllFindings(base)
           M == SecondRound(old, Current, renames)
<1>1. \A n \in M : /\ n[1] \in old /\ n[2] \in AllFindings(inventory)
                   /\ NewPath(n[1], renames) = n[2].path
                   /\ n[1].structure = n[2].structure
  BY DEF SecondRound, Moved, Current
<1> HIDE DEF M
<1>2. SUFFICES ASSUME NEW n \in M PROVE n[1] = m[1] <=> n[2] = m[2]
  BY DEF Certain, M
<1>3. m \in M /\ m[1].members # None /\ m[2].members # None
  BY DEF Expanded, M
<1>4. ASSUME n[1] = m[1] PROVE n[2] = m[2]
  BY <1>1, <1>3, <1>4, SideFindings
<1>5. ASSUME n[2] = m[2] PROVE n[1] = m[1]
  <2>1. /\ n[1] \in old /\ m[1] \in old /\ n[1].structure = m[1].structure
        /\ NewPath(n[1], renames) = NewPath(m[1], renames)
    BY <1>1, <1>3, <1>5
  <2>2. n[1].members # None
    BY <1>3, <2>1, SideFindings
  <2>3. base[n[1].path] # Absent /\ base[m[1].path] # Absent
    BY <2>1, SideFindings, ReviewAssumption
  <2>4. n[1].path = m[1].path
    BY <1>3, <2>1, <2>2, <2>3 DEF NewPath, RenamesKnown
  <2>. QED
    BY <1>3, <2>1, <2>4, SideFindings
<1>. QED
  BY <1>4, <1>5

\* "accepted" is said of what an entry is in force for, and of nothing that
\* looks like it.
LEMMA AcceptedIsInForce ==
    ASSUME TypeOK, exceptions # Invalid, NEW c \in Current,
           StatusOf(c) = "accepted"
    PROVE  InForce(c)
<1> DEFINE same == {e \in exceptions : /\ e.fingerprint = Fingerprint(c)
                                       /\ e.rule = Rule(c)}
<1>1. /\ same # {}
      /\ \A g \in Current \ {c} : Fingerprint(g) # Fingerprint(c)
      /\ \A e \in same : ~ (today >= e.expires)
  BY DEF StatusOf, Status
<1>2. PICK e \in same : TRUE
  BY <1>1
<1>3. today \in Nat /\ e.expires \in Nat
  BY <1>2, ReviewAssumption DEF TypeOK
<1>4. today < e.expires
  BY <1>1, <1>3
<1>. QED
  BY <1>1, <1>2, <1>4 DEF InForce

\* A gate that passes has looked at everything: each finding was in the base
\* and has not grown, or is accepted for today (exit code 0 of _review).
THEOREM GatePassesKnown == Spec => []GateMissesNothing
<1> DEFINE old == AllFindings(base)
           E == SameFingerprint(old, Current)
           M == SecondRound(old, Current, renames)
<1>1. ASSUME IInv, Reviewed, compared = base, command = "gate",
             report.exit = 0, NEW c \in Current
      PROVE  InForce(c) \/ \E b \in Counterparts(c) : ~Expanded(b, c)
  <2>1. Exit = 0 /\ exceptions # Invalid /\ TypeOK /\ RenamesKnown
    BY <1>1 DEF IInv, ReportIsJudged
  <2>2. ReviewComplete /\ \A e \in Delta.introduced :
                              StatusOf(e.after) = "accepted"
    BY <1>1, <2>1 DEF Exit
  <2>3. Delta = CompareFindings(old, Current, renames)
    BY <2>2 DEF Delta
  <2>4. CASE c \in News(E)
    <3>1. PICK m \in E : m[2] = c
      BY <2>4 DEF News
    <3>2. m[1] \in old /\ Fingerprint(m[1]) = Fingerprint(c)
      BY <3>1 DEF SameFingerprint
    <3>3. m[1] \in Counterparts(c)
      BY <3>2, MatchedAreCounterparts
    <3>4. ~Expanded(m[1], c)
      <4>1. m[1].members = c.members
        BY <3>2 DEF Fingerprint
      <4>2. c.members # None => c.members \in [Symbols -> Nat]
        BY SideFindings DEF Current
      <4>. QED
        BY <4>1, <4>2 DEF Expanded
    <3>. QED
      BY <3>3, <3>4
  <2>5. CASE c \in News(M)
    <3>1. PICK m \in M : m[2] = c
      BY <2>5 DEF News
    <3>2. /\ m[1] \in old /\ m[1].structure = c.structure
          /\ NewPath(m[1], renames) = c.path
      BY <3>1 DEF SecondRound, Moved
    <3>3. m[1] \in Counterparts(c)
      BY <3>2, MatchedAreCounterparts
    <3>4. CASE Expanded(m[1], c)
      <4>1. m \in Certain(M)
        BY <1>1, <2>1, <3>1, <3>4, GrownIsCertain
      <4>2. Entry(m[1], c) \in Delta.introduced
        BY <2>3, <3>1, <3>4, <4>1, IntroducedOfReport
      <4>3. StatusOf(c) = "accepted"
        BY <2>2, <4>2 DEF Entry
      <4>. QED
        BY <2>1, <4>3, AcceptedIsInForce
    <3>. QED
      BY <3>3, <3>4
  <2>6. CASE c \notin News(E) /\ c \notin News(M)
    <3>1. Entry(None, c) \in Delta.introduced
      BY <2>3, <2>6, IntroducedOfReport
    <3>2. StatusOf(c) = "accepted"
      BY <2>2, <3>1 DEF Entry
    <3>. QED
      BY <2>1, <3>2, AcceptedIsInForce
  <2>. QED
    BY <2>4, <2>5, <2>6
<1>2. IInv => GateMissesNothing
  BY <1>1 DEF GateMissesNothing
<1>. QED
  BY <1>2, IInvInit, IInvNext, PTL DEF Spec

=============================================================================
