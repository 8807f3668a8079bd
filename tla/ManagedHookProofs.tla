-------------------------- MODULE ManagedHookProofs --------------------------
(***************************************************************************)
(* What a proposed change makes of a registry, for every registry that     *)
(* parses, whatever numbers and spellings somebody gave its identifiers,   *)
(* and what becomes of the registry under all who change it.               *)
(***************************************************************************)
EXTENDS ManagedHook, TLAPS, WellFoundedInduction

-----------------------------------------------------------------------------
(* The highest number                                                      *)

\* A set of natural numbers that is not empty has a smallest element.
LEMMA Smallest ==
  ASSUME NEW T \in SUBSET Nat, T # {}
  PROVE  \E m \in T : \A k \in T : m <= k
<1> DEFINE R == OpToRel(<, Nat)
<1>1. IsWellFoundedOn(R, Nat)
  BY NatLessThanWellFounded
<1> HIDE DEF R
<1>2. \E m \in T : \A k \in T : ~ (<<k, m>> \in R)
  BY <1>1, WFMin
<1>3. R = {ss \in Nat \X Nat : ss[1] < ss[2]}
  BY DEF R, OpToRel
<1>4. PICK m \in T : \A k \in T : ~ (<<k, m>> \in R)
  BY <1>2
<1>5. ASSUME NEW k \in T PROVE m <= k
  <2>1. <<k, m>> \in Nat \X Nat /\ <<k, m>>[1] = k /\ <<k, m>>[2] = m
    OBVIOUS
  <2>2. ~ (k < m)
    BY <1>3, <1>4, <2>1
  <2>. QED
    BY <2>2
<1>. QED
  BY <1>5

LEMMA NumbersTyped ==
  ASSUME NEW rules \in Seq(Rules)
  PROVE  /\ \A i \in DOMAIN rules : rules[i].id.number \in Nat
         /\ Numbers(rules) \subseteq Nat
<1>1. ASSUME NEW i \in DOMAIN rules PROVE rules[i].id.number \in Nat
  <2>1. rules[i] \in Rules
    OBVIOUS
  <2>2. rules[i].id \in Ids
    BY <2>1 DEF Rules
  <2>. QED
    BY <2>2 DEF Ids
<1>. QED
  BY <1>1 DEF Numbers

\* The numbers of the first n rules have an upper bound: otherwise there would
\* be a smallest n for which they have none.
LEMMA NumbersBounded ==
  ASSUME NEW rules \in Seq(Rules)
  PROVE  \E u \in Nat : \A m \in Numbers(rules) : m <= u
<1> DEFINE Bounded(n) ==
             \E u \in Nat : \A i \in 1..n : rules[i].id.number <= u
           T == {n \in Nat : n <= Len(rules) /\ ~Bounded(n)}
<1>1. \A i \in DOMAIN rules : rules[i].id.number \in Nat
  BY NumbersTyped
<1>2. Len(rules) \in Nat /\ DOMAIN rules = 1..Len(rules)
  OBVIOUS
<1>3. T = {}
  <2>1. SUFFICES ASSUME T # {} PROVE FALSE
    OBVIOUS
  <2>2. PICK n \in T : \A k \in T : n <= k
    BY <2>1, Smallest
  <2>3. n # 0
    <3>1. \A i \in 1..0 : rules[i].id.number <= 0
      OBVIOUS
    <3>. QED
      BY <3>1, 0 \in Nat
  <2>4. n - 1 \in Nat /\ n - 1 <= Len(rules) /\ n \in 1..Len(rules)
    BY <2>3, <1>2
  <2>5. Bounded(n - 1)
    <3>1. ~(n <= n - 1)
      BY <2>4
    <3>2. n - 1 \notin T
      BY <2>2, <3>1
    <3>. QED
      BY <2>4, <3>2
  <2>6. PICK u \in Nat : \A i \in 1..(n - 1) : rules[i].id.number <= u
    BY <2>5
  <2>7. rules[n].id.number \in Nat
    BY <1>1, <1>2, <2>4
  <2>8. PICK w \in Nat : u <= w /\ rules[n].id.number <= w
    <3>1. \A x, y \in Nat : \E w \in Nat : x <= w /\ y <= w
      <4>1. ASSUME NEW x \in Nat, NEW y \in Nat
            PROVE  x + y \in Nat /\ x <= x + y /\ y <= x + y
        OBVIOUS
      <4>. QED
        BY <4>1
    <3>. QED
      BY <2>7, <3>1
  <2>9. ASSUME NEW i \in 1..n PROVE rules[i].id.number <= w
    <3>1. CASE i = n
      BY <3>1, <2>8
    <3>2. CASE i # n
      <4>1. i \in 1..(n - 1)
        BY <3>2, <2>4
      <4>2. i \in DOMAIN rules
        BY <1>2, <2>4
      <4>3. rules[i].id.number \in Nat
        BY <1>1, <4>2
      <4>4. rules[i].id.number <= u
        BY <2>6, <4>1
      <4>5. \A x, y, z \in Nat : x <= y /\ y <= z => x <= z
        OBVIOUS
      <4>. QED
        BY <4>3, <4>4, <4>5, <2>8
    <3>. QED
      BY <3>1, <3>2
  <2>. QED
    BY <2>9, n \in T
<1>4. Bounded(Len(rules))
  <2>1. SUFFICES ASSUME ~Bounded(Len(rules)) PROVE FALSE
    OBVIOUS
  <2>2. Len(rules) \in T
    BY <1>2, <2>1
  <2>. QED
    BY <1>3, <2>2
<1>5. PICK u \in Nat : \A i \in 1..Len(rules) : rules[i].id.number <= u
  BY <1>4
<1>. QED
  BY <1>2, <1>5 DEF Numbers

\* The least upper bound is one of the numbers, or 0 where there is none.
LEMMA HighestExists ==
  ASSUME NEW rules \in Seq(Rules)
  PROVE  \E n \in Numbers(rules) \cup {0} : \A m \in Numbers(rules) : m <= n
<1> DEFINE N == Numbers(rules)
           T == {u \in Nat : \A m \in N : m <= u}
<1>1. N \subseteq Nat
  BY NumbersTyped
<1>2. T # {}
  BY NumbersBounded
<1>3. PICK h \in T : \A u \in T : h <= u
  BY <1>2, Smallest
<1>4. CASE h = 0 \/ h \in N
  BY <1>3, <1>4
<1>5. CASE h # 0 /\ h \notin N
  <2>1. h - 1 \in Nat /\ ~ (h <= h - 1)
    BY <1>5
  <2>2. \A m \in N : m <= h - 1
    BY <1>1, <1>3, <1>5
  <2>. QED
    BY <1>3, <2>1, <2>2
<1>. QED
  BY <1>4, <1>5

\* _next_rule_id gives an identifier above all that were ever given.
LEMMA NextIdAbove ==
  ASSUME NEW rules \in Seq(Rules)
  PROVE  /\ NextId(rules) \in Ids
         /\ \A m \in Numbers(rules) : m < NextId(rules).number
<1> DEFINE highest == CHOOSE n \in Numbers(rules) \cup {0} :
                         \A m \in Numbers(rules) : m <= n
<1>1. /\ highest \in Numbers(rules) \cup {0}
      /\ \A m \in Numbers(rules) : m <= highest
  BY HighestExists
<1> HIDE DEF highest
<1>2. Numbers(rules) \subseteq Nat
  BY NumbersTyped
<1>3. highest \in Nat
  BY <1>1, <1>2
<1>4. NextId(rules) = [number |-> highest + 1, spelling |-> Canonical]
  BY DEF NextId, highest
<1>. QED
  BY <1>1, <1>2, <1>3, <1>4, RulesAssumption DEF Ids

-----------------------------------------------------------------------------
(* One change                                                              *)

\* A rule that is added keeps the registry parseable and its rules in place.
LEMMA AddGood ==
  ASSUME NEW rules \in Registries, NEW result \in Add(rules)
  PROVE  result \in Registries /\ Continues(result, rules)
<1> DEFINE new(s) == [id |-> NextId(rules), symbol |-> s, active |-> TRUE]
<1>1. rules \in Seq(Rules) /\ Parses(rules)
  BY DEF Registries
<1>2. PICK s \in Symbols :
         /\ Len(rules) < MaxRules
         /\ \A i \in DOMAIN rules : rules[i].active => rules[i].symbol # s
         /\ result = Append(rules, new(s))
  BY DEF Add
<1>3. new(s) \in Rules /\ new(s).id = NextId(rules) /\ new(s).symbol = s
  BY <1>1, NextIdAbove DEF Rules
<1> DEFINE last == new(s)
<1> HIDE DEF new
<1>4. /\ result \in Seq(Rules)
      /\ Len(rules) \in Nat
      /\ Len(result) = Len(rules) + 1
      /\ DOMAIN rules = 1..Len(rules)
      /\ DOMAIN result = 1..(Len(rules) + 1)
      /\ \A i \in DOMAIN rules : result[i] = rules[i]
      /\ result[Len(rules) + 1] = last
  BY <1>1, <1>2, <1>3
<1>5. \A i \in DOMAIN rules : rules[i].id.number < NextId(rules).number
  BY <1>1, NextIdAbove DEF Numbers
<1>6. \A i \in DOMAIN rules : rules[i].id.number \in Nat
  BY <1>1, NumbersTyped
<1>7. \A i \in DOMAIN rules :
         /\ rules[i].id # NextId(rules)
         /\ rules[i].active => rules[i].symbol # s
  <2>1. ASSUME NEW i \in DOMAIN rules PROVE rules[i].id # NextId(rules)
    <3>1. NextId(rules).number \in Nat
      BY <1>1, NextIdAbove DEF Ids
    <3>2. \A x, y \in Nat : x < y => x # y
      OBVIOUS
    <3>. QED
      BY <1>5, <1>6, <3>1, <3>2
  <2>. QED
    BY <1>2, <2>1
<1>8. \A i \in DOMAIN result : i \in DOMAIN rules \/ i = Len(rules) + 1
  BY <1>4
<1>9. Parses(result)
  <2>1. Len(result) <= MaxRules
    BY <1>2, <1>4, RulesAssumption
  <2>2. ASSUME NEW i \in DOMAIN result, NEW j \in DOMAIN result, i # j
        PROVE  /\ result[i].id # result[j].id
               /\ result[i].active /\ result[j].active =>
                     result[i].symbol # result[j].symbol
    <3>1. CASE i \in DOMAIN rules /\ j \in DOMAIN rules
      BY <1>1, <1>4, <2>2, <3>1 DEF Parses
    <3>2. CASE i \in DOMAIN rules /\ j = Len(rules) + 1
      BY <1>3, <1>4, <1>7, <3>2
    <3>3. CASE i = Len(rules) + 1 /\ j \in DOMAIN rules
      BY <1>3, <1>4, <1>7, <3>3
    <3>. QED
      BY <1>8, <2>2, <3>1, <3>2, <3>3
  <2>. QED
    BY <2>1, <2>2 DEF Parses
<1>10. Continues(result, rules)
  <2>1. Len(result) >= Len(rules)
    BY <1>4
  <2>2. \A i \in DOMAIN result \ DOMAIN rules : i = Len(rules) + 1
    BY <1>8
  <2>3. \A n \in Numbers(rules) : last.id.number > n
    <3>1. \A n \in Numbers(rules) : n < NextId(rules).number
      BY <1>1, NextIdAbove
    <3>. QED
      BY <1>3, <3>1
  <2>. QED
    BY <1>4, <2>1, <2>2, <2>3 DEF Continues
<1>. QED
  BY <1>4, <1>9, <1>10 DEF Registries

\* A rule that is resolved keeps its place, and the others are as they were.
LEMMA ResolveGood ==
  ASSUME NEW rules \in Registries, NEW result \in Resolve(rules)
  PROVE  result \in Registries /\ Continues(result, rules)
<1>1. rules \in Seq(Rules) /\ Parses(rules)
  BY DEF Registries
<1>2. PICK k \in DOMAIN rules : result = [rules EXCEPT ![k].active = FALSE]
  BY DEF Resolve
<1>3. /\ DOMAIN result = DOMAIN rules
      /\ DOMAIN rules = 1..Len(rules)
      /\ Len(rules) \in Nat
      /\ \A i \in DOMAIN rules : i # k => result[i] = rules[i]
      /\ result[k] = [rules[k] EXCEPT !.active = FALSE]
  BY <1>1, <1>2
<1>4. \A i \in DOMAIN rules : rules[i] \in Rules
  BY <1>1
<1>5. ASSUME NEW i \in DOMAIN rules
      PROVE  /\ result[i] \in Rules
             /\ result[i].id = rules[i].id
             /\ result[i].symbol = rules[i].symbol
             /\ result[i].active => rules[i].active
  <2>1. CASE i = k
    BY <1>3, <1>4, <2>1 DEF Rules
  <2>2. CASE i # k
    BY <1>3, <1>4, <2>2
  <2>. QED
    BY <2>1, <2>2
<1>6. result \in [1..Len(rules) -> Rules]
  <2>1. result = [i \in DOMAIN result |-> result[i]]
    BY <1>2
  <2>. QED
    BY <1>3, <1>5, <2>1
<1>7. result \in Seq(Rules) /\ Len(result) = Len(rules)
  BY <1>3, <1>6
<1>8. Parses(result)
  BY <1>1, <1>3, <1>5, <1>7 DEF Parses
<1>9. Continues(result, rules)
  BY <1>3, <1>5, <1>7 DEF Continues
<1>. QED
  BY <1>7, <1>8, <1>9 DEF Registries

LEMMA ChangesGood ==
  ASSUME NEW rules \in Registries, NEW result \in Changes(rules)
  PROVE  result \in Registries /\ Continues(result, rules)
  BY AddGood, ResolveGood DEF Changes

-----------------------------------------------------------------------------
(* All changes                                                             *)

RegistryOK ==
    /\ registry \in Contents \cup {None, Unreadable}
    /\ lineage \subseteq Contents \cup {None}
    /\ edited \in BOOLEAN

PendingOK ==
    /\ pending.expected \in Contents \cup {None}
    /\ pending.result \in Results[pending.expected]
    /\ ~edited => registry \in {pending.expected, pending.result}

\* The inductive invariant: what a confirmation has begun with, or what it
\* makes of it, is in the registry unless somebody edited it.
HookInv ==
    /\ RegistryOK
    /\ pending # None => PendingOK
    /\ written => pending # None
    /\ setupPending # None => setupPending.digest \in Contents \cup {None}

LEMMA ResultsGood ==
  ASSUME NEW c \in Contents \cup {None}, NEW result \in Results[c]
  PROVE  result \in Contents /\ (c \in Contents => Continues(result, c))
<1>1. result \in Contents
  BY ContentsAssumption
<1>2. ASSUME c \in Contents PROVE Continues(result, c)
  <2>1. c \in Registries /\ c # None
    BY <1>2, ContentsAssumption
  <2>2. result \in Changes(c)
    BY <2>1 DEF Results, Proposals
  <2>. QED
    BY <2>1, <2>2, ChangesGood
<1>. QED
  BY <1>1, <1>2

LEMMA HookInvInit == Init => HookInv
  BY DEF Init, I!Init, HookInv, RegistryOK

\* What the steps of the hook leave alone is all that the invariant is about.
LEMMA HookStepsKeep ==
  ASSUME HookInv, UNCHANGED <<fileVars, edited>>
  PROVE  HookInv'
  BY DEF HookInv, RegistryOK, PendingOK, fileVars

\* A hand that edits is remembered while a confirmation is pending.
LEMMA EditsRemembered ==
  ASSUME HookInv, Others
  PROVE  /\ edited' \in BOOLEAN
         /\ I!EditRegistry => edited' = TRUE
         /\ pending # None /\ ~edited' => ~edited
<1>1. edited' = IF I!EditRegistry THEN TRUE
                ELSE edited /\ ~(stage = "idle" /\ Adopted
                                    /\ setupPending = None)
  BY DEF Others
<1>. QED
  BY <1>1 DEF HookInv, RegistryOK, Adopted

LEMMA OthersKeep ==
  ASSUME HookInv, Others
  PROVE  HookInv'
<1> USE DEF HookInv, RegistryOK, PendingOK
<1>0. /\ edited' \in BOOLEAN
      /\ I!EditRegistry => edited' = TRUE
      /\ pending # None /\ ~edited' => ~edited
  BY EditsRemembered
<1>1. CASE I!StartConfirmation
  <2>1. PICK result \in Results[registry] :
          pending' = [expected |-> registry, result |-> result]
    BY <1>1 DEF I!StartConfirmation
  <2>2. registry \in Contents \cup {None}
    BY <1>1 DEF I!StartConfirmation
  <2>3. /\ UNCHANGED <<registry, setupPending, written, lineage>>
        /\ pending = None
    BY <1>1 DEF I!StartConfirmation
  <2>4. PendingOK'
    BY <2>1, <2>2, <2>3
  <2>. QED
    BY <1>0, <2>3, <2>4
<1>2. CASE I!WriteRegistry
  <2>1. /\ pending # None /\ registry' = pending.result
        /\ UNCHANGED <<pending, setupPending, lineage>>
    BY <1>2 DEF I!WriteRegistry
  <2>2. pending.result \in Contents
    BY <2>1, ResultsGood
  <2>. QED
    BY <1>0, <2>1, <2>2
<1>3. CASE I!FindWritten
  BY <1>0, <1>3 DEF I!FindWritten
<1>4. CASE I!Adopt
  <2>1. /\ written /\ UNCHANGED <<registry, pending, setupPending, written>>
        /\ lineage' = lineage \cup {pending.result}
    BY <1>4 DEF I!Adopt
  <2>2. pending.result \in Contents
    BY <2>1, ResultsGood
  <2>. QED
    BY <1>0, <2>1, <2>2
<1>5. CASE I!Interrupt
  BY <1>0, <1>5 DEF I!Interrupt
<1>6. CASE I!EndConfirmation
  BY <1>0, <1>6 DEF I!EndConfirmation
<1>7. CASE I!StartSetup
  <2>1. /\ UNCHANGED <<registry, pending, written, lineage>>
        /\ setupPending'.digest \in Contents \cup {None}
    BY <1>7 DEF I!StartSetup
  <2>. QED
    BY <1>0, <2>1
<1>8. CASE I!CommitSetup
  <2>1. /\ UNCHANGED <<registry, pending, setupPending, written>>
        /\ setupPending # None
        /\ lineage' = lineage \/ lineage' = lineage \cup {setupPending.digest}
    BY <1>8 DEF I!CommitSetup
  <2>. QED
    BY <1>0, <2>1
<1>9. CASE I!EndSetup
  BY <1>0, <1>9 DEF I!EndSetup
<1>10. CASE I!EditRegistry
  <2>1. /\ registry' \in RegistryEdits
        /\ UNCHANGED <<pending, setupPending, written, lineage>>
    BY <1>10 DEF I!EditRegistry
  <2>. QED
    BY <1>0, <1>10, <2>1, ContentsAssumption
<1>. QED
  BY <1>1, <1>2, <1>3, <1>4, <1>5, <1>6, <1>7, <1>8, <1>9, <1>10
     DEF Others, I!Next

LEMMA HookInvAlways == Spec => []HookInv
<1>1. Init => HookInv
  BY HookInvInit
<1>2. HookInv /\ [Next]_vars => HookInv'
  <2>1. SUFFICES ASSUME HookInv, [Next]_vars PROVE HookInv'
    OBVIOUS
  <2>2. CASE Others
    BY <2>1, <2>2, OthersKeep
  <2>3. CASE Load \/ ReadRegistry \/ ReadRecord \/ ReadPending
               \/ CheckRegistry \/ VerifyRegistry
    <3>1. UNCHANGED <<fileVars, edited>>
      BY <2>3 DEF Load, ReadRegistry, ReadRecord, ReadPending,
                  CheckRegistry, VerifyRegistry
    <3>. QED
      BY <2>1, <3>1, HookStepsKeep
  <2>4. CASE UNCHANGED vars
    BY <2>1, <2>4, HookStepsKeep DEF vars
  <2>. QED
    BY <2>1, <2>2, <2>3, <2>4 DEF Next
<1>. QED
  BY <1>1, <1>2, PTL DEF Spec

\* Every change that the registry admits, whatever it has become under setups,
\* confirmations and edits, gives a registry that parses.
THEOREM AllChangesParse == Spec => []ChangesParse
<1>1. HookInv => ChangesParse
  <2>1. SUFFICES ASSUME HookInv, registry \in Contents,
                        NEW result \in Changes(registry)
                 PROVE  Parses(result)
    BY DEF HookInv, RegistryOK, ChangesParse
  <2>2. registry \in Registries
    BY <2>1, ContentsAssumption
  <2>3. result \in Registries
    BY <2>1, <2>2, ChangesGood
  <2>. QED
    BY <2>3 DEF Registries
<1>. QED
  BY <1>1, HookInvAlways, PTL

\* The rules of a registry that nobody edits keep their places and their
\* identifiers, and a new one has a number above them all.
THEOREM RulesKept == Spec => RegistryContinues
<1>1. HookInv /\ [Next]_vars =>
         [registry' # registry /\ registry \in Contents /\ ~edited' =>
             Continues(registry', registry)]_vars
  <2>1. SUFFICES ASSUME HookInv, Next, registry' # registry,
                        registry \in Contents, ~edited'
                 PROVE  Continues(registry', registry)
    BY DEF vars, fileVars
  <2>2. Others
    BY <2>1 DEF Next, Load, ReadRegistry, ReadRecord, ReadPending,
                CheckRegistry, VerifyRegistry, fileVars
  <2>3. ~I!EditRegistry
    BY <2>1, <2>2, EditsRemembered
  <2>4. pending # None /\ registry' = pending.result
    BY <2>1, <2>2, <2>3
       DEF Others, I!Next, I!StartConfirmation, I!WriteRegistry,
           I!FindWritten, I!Adopt, I!Interrupt, I!EndConfirmation,
           I!StartSetup, I!CommitSetup, I!EndSetup
  <2>5. ~edited
    BY <2>1, <2>2, <2>4, EditsRemembered
  <2>6. PendingOK /\ registry = pending.expected
    BY <2>1, <2>4, <2>5 DEF HookInv, PendingOK
  <2>. QED
    BY <2>1, <2>4, <2>6, ResultsGood DEF PendingOK
<1>2. Spec => []HookInv
  BY HookInvAlways
<1>. QED
  BY <1>1, <1>2, PTL DEF Spec, RegistryContinues

-----------------------------------------------------------------------------
(* The hook.  A registry that nobody edits never returns to what it was, so *)
(* if it is at the end what the hook has loaded, it always was; then the    *)
(* confirmation that was pending at the beginning, and no longer when the   *)
(* hook looked for it, has ended with that registry adopted.                *)

\* The rules are those of before, or later versions of them and more.
Before(old, new) ==
    /\ Len(new) >= Len(old)
    /\ \A i \in DOMAIN old :
          /\ new[i].id = old[i].id
          /\ new[i].symbol = old[i].symbol
          /\ new[i].active => old[i].active

NotAfter(c, d) ==
    \/ c = None
    \/ c = d
    \/ c \in Contents /\ d \in Contents /\ Before(c, d)

LEMMA ContentsRules ==
  ASSUME NEW c \in Contents
  PROVE  /\ Len(c) \in Nat /\ DOMAIN c = 1..Len(c)
         /\ \A i \in DOMAIN c : c[i] \in Rules
         /\ c = [i \in DOMAIN c |-> c[i]]
<1>1. c \in Seq(Rules)
  BY ContentsAssumption DEF Registries
<1>. QED
  BY <1>1

LEMMA BeforeTransitive ==
  ASSUME NEW c \in Contents, NEW d \in Contents, NEW e \in Contents,
         Before(c, d), Before(d, e)
  PROVE  Before(c, e)
<1>1. Len(c) <= Len(d) /\ Len(d) <= Len(e)
  BY ContentsRules DEF Before
<1>2. DOMAIN c \subseteq DOMAIN d /\ Len(c) <= Len(e)
  BY <1>1, ContentsRules
<1>. QED
  BY <1>2, ContentsRules DEF Before

LEMMA BeforeAntisymmetric ==
  ASSUME NEW c \in Contents, NEW d \in Contents, Before(c, d), Before(d, c)
  PROVE  c = d
<1>1. Len(c) = Len(d) /\ DOMAIN c = DOMAIN d
  BY ContentsRules DEF Before
<1>2. ASSUME NEW i \in DOMAIN c PROVE c[i] = d[i]
  <2>1. c[i] \in Rules /\ d[i] \in Rules
    BY <1>1, ContentsRules
  <2>2. c[i].id = d[i].id /\ c[i].symbol = d[i].symbol
    BY <1>1 DEF Before
  <2>3. c[i].active = d[i].active
    BY <1>1, <2>1 DEF Before, Rules
  <2>. QED
    BY <2>1, <2>2, <2>3 DEF Rules
<1>. QED
  BY <1>1, <1>2, ContentsRules

LEMMA NotAfterTransitive ==
  ASSUME NEW c, NEW d, NEW e, NotAfter(c, d), NotAfter(d, e)
  PROVE  NotAfter(c, e)
  BY BeforeTransitive, ContentsAssumption DEF NotAfter

LEMMA NotAfterAntisymmetric ==
  ASSUME NEW c, NEW d, NotAfter(c, d), NotAfter(d, c)
  PROVE  c = d
  BY BeforeAntisymmetric, ContentsAssumption DEF NotAfter

\* What setup and confirmation adopt is never ahead of a registry that nobody
\* edits.
Ordered ==
    /\ record # None => NotAfter(record.adopted, registry)
    /\ setupPending # None => NotAfter(setupPending.digest, registry)
    /\ written => registry = pending.result

OrderInv ==
    /\ record \in Records \cup {None}
    /\ lineage # {} \/ pending # None => record # None
    /\ ~edited => Ordered
    /\ stage # "idle" => answer = "none"
    /\ stage # "idle" /\ ~edited =>
          /\ NotAfter(loaded, registry)
          /\ registry = loaded /\ pending = None => settled
          /\ registry = loaded /\ stage \in {"check", "verify"} => settled

LEMMA OrderInvInit == Init => OrderInv
  BY DEF Init, I!Init, OrderInv, Ordered

\* Unless they edit it, the others leave the registry or make it grow.
LEMMA OthersGrow ==
  ASSUME HookInv, OrderInv, Others, ~edited'
  PROVE  /\ Ordered'
         /\ NotAfter(registry, registry')
         /\ stage # "idle" => ~edited
         /\ pending # None /\ pending' = None =>
               /\ record' = record /\ registry' = registry
               /\ record.adopted = registry
<1> USE DEF NotAfter
<1>1. /\ ~I!EditRegistry
      /\ ~edited \/ (stage = "idle" /\ Adopted /\ setupPending = None)
  BY DEF Others, HookInv, RegistryOK
<1>2. Ordered
  BY <1>1 DEF OrderInv, HookInv, Ordered, Adopted
<1>3. stage # "idle" => ~edited
  BY <1>1
<1>4. CASE I!WriteRegistry
  <2>1. /\ pending # None /\ registry' = pending.result
        /\ UNCHANGED <<record, pending, setupPending, lineage>>
    BY <1>4 DEF I!WriteRegistry
  <2>2. ~edited /\ PendingOK /\ registry \in {pending.expected, pending.result}
    BY <2>1, EditsRemembered DEF HookInv, PendingOK
  <2>3. /\ pending.result \in Contents
        /\ pending.expected \in Contents =>
              Continues(pending.result, pending.expected)
    BY <2>2, ResultsGood DEF PendingOK
  <2>4. NotAfter(registry, registry')
    BY <2>1, <2>2, <2>3 DEF PendingOK, Continues, Before
  <2>5. /\ record # None => NotAfter(record.adopted, registry')
        /\ setupPending # None => NotAfter(setupPending.digest, registry')
    <3> HIDE DEF NotAfter
    <3>. QED
      BY <1>2, <2>4, NotAfterTransitive DEF Ordered
  <2>6. Ordered'
    BY <2>1, <2>5 DEF Ordered
  <2>. QED
    BY <1>3, <2>1, <2>4, <2>6
<1>5. CASE I!StartConfirmation
  <2>1. /\ pending = None
        /\ UNCHANGED <<registry, record, setupPending, written, lineage>>
    BY <1>5 DEF I!StartConfirmation
  <2>. QED
    BY <1>2, <1>3, <2>1 DEF Ordered, HookInv
<1>6. CASE I!Adopt
  <2>1. /\ written /\ UNCHANGED <<registry, pending, setupPending, written>>
        /\ record' = [record EXCEPT !.adopted = pending.result]
    BY <1>6 DEF I!Adopt
  <2>2. record \in Records
    BY <2>1 DEF HookInv, OrderInv
  <2>3. record'.adopted = registry'
    BY <1>2, <2>1, <2>2 DEF Ordered, Records
  <2>. QED
    BY <1>2, <1>3, <2>1, <2>3 DEF Ordered
<1>7. CASE I!CommitSetup
  <2>1. /\ UNCHANGED <<registry, pending, setupPending, written>>
        /\ setupPending # None
        /\ \/ record' = [lifecycle |-> "active",
                         adopted |-> setupPending.digest]
           \/ record # None /\ record' = [record EXCEPT !.lifecycle = "disabled"]
    BY <1>7 DEF I!CommitSetup, I!Trusted
  <2>2. \/ record'.adopted = setupPending.digest
        \/ record # None /\ record'.adopted = record.adopted
    BY <2>1 DEF OrderInv, Records
  <2>3. record' # None => NotAfter(record'.adopted, registry)
    <3> HIDE DEF NotAfter
    <3>. QED
      BY <1>2, <2>1, <2>2 DEF Ordered
  <2>4. Ordered'
    BY <1>2, <2>1, <2>3 DEF Ordered
  <2>. QED
    BY <1>3, <2>1, <2>4
<1>8. CASE I!EndConfirmation
  BY <1>2, <1>3, <1>8 DEF I!EndConfirmation, Ordered
<1>9. CASE I!FindWritten \/ I!Interrupt \/ I!StartSetup \/ I!EndSetup
  BY <1>2, <1>3, <1>9
  DEF I!FindWritten, I!Interrupt, I!StartSetup, I!EndSetup, Ordered
<1>. QED
  BY <1>1, <1>4, <1>5, <1>6, <1>7, <1>8, <1>9 DEF Others, I!Next

\* The installation record stays once it is there.
LEMMA RecordStays ==
  ASSUME HookInv, OrderInv, Others
  PROVE  /\ record' \in Records \cup {None}
         /\ lineage' # {} \/ pending' # None => record' # None
<1>1. CASE I!Adopt
  <2>1. record \in Records /\ pending.result \in Contents
    BY <1>1, ResultsGood DEF I!Adopt, HookInv, PendingOK, OrderInv
  <2>. QED
    BY <1>1, <2>1, RecordsAssumption DEF I!Adopt, Records
<1>2. CASE I!CommitSetup
  BY <1>2, RecordsAssumption
  DEF I!CommitSetup, I!Trusted, HookInv, OrderInv, Records
<1>3. CASE I!StartConfirmation
  BY <1>3 DEF I!StartConfirmation, OrderInv
<1>4. CASE /\ ~I!Adopt /\ ~I!CommitSetup /\ ~I!StartConfirmation
  <2>1. UNCHANGED <<record, lineage>> /\ (pending' # None => pending # None)
    BY <1>4
    DEF Others, I!Next, I!WriteRegistry, I!FindWritten, I!Interrupt,
        I!EndConfirmation, I!StartSetup, I!EndSetup, I!EditRegistry
  <2>. QED
    BY <2>1 DEF OrderInv
<1>. QED
  BY <1>1, <1>2, <1>3, <1>4

LEMMA OrderInvOthers ==
  ASSUME HookInv, OrderInv, Others
  PROVE  OrderInv'
<1>1. ~edited' => Ordered'
  BY OthersGrow
<1>2. ASSUME stage # "idle", ~edited'
      PROVE  /\ NotAfter(loaded, registry')
             /\ registry' = loaded /\ pending' = None => settled'
             /\ registry' = loaded /\ stage \in {"check", "verify"} => settled'
  <2>1. ~edited /\ NotAfter(loaded, registry) /\ NotAfter(registry, registry')
    BY <1>2, OthersGrow DEF OrderInv
  <2>2. NotAfter(loaded, registry')
    BY <2>1, NotAfterTransitive
  <2>3. registry' = loaded => registry = loaded
    BY <2>1, NotAfterAntisymmetric
  <2>4. settled' = (settled \/ Settled')
    BY <1>2 DEF Others
  <2>5. ASSUME registry' = loaded, pending' = None, pending # None
        PROVE  Settled'
    <3>1. /\ record' = record /\ registry' = registry
          /\ record.adopted = registry /\ record # None
      BY <1>2, <2>5, OthersGrow DEF OrderInv
    <3>. QED
      BY <2>5, <3>1 DEF Settled, Adopted, Others, hookVars
  <2>. QED
    BY <1>2, <2>1, <2>2, <2>3, <2>4, <2>5 DEF OrderInv
<1>3. UNCHANGED <<stage, loaded, answer>>
  BY DEF Others, hookVars
<1>. QED
  BY <1>1, <1>2, <1>3, RecordStays DEF OrderInv

\* A step of the hook.
LEMMA OrderInvHook ==
  ASSUME OrderInv, UNCHANGED <<fileVars, edited>>,
         \/ Load \/ ReadRegistry \/ ReadRecord \/ ReadPending
         \/ CheckRegistry \/ VerifyRegistry
  PROVE  OrderInv'
<1> USE DEF fileVars, OrderInv, Ordered, NotAfter
<1>1. CASE stage' = "idle"
  BY <1>1
<1>2. CASE Load /\ stage' # "idle"
  <2>1. /\ loaded' = record.adopted /\ stage' = "registry"
        /\ settled' = Settled' /\ record # None
        /\ answer' = "none"
    BY <1>2 DEF Load, Answer
  <2>. QED
    BY <2>1 DEF Settled, Adopted
<1>3. CASE stage' # "idle" /\ ~Load
  <2>1. /\ stage # "idle" /\ UNCHANGED <<loaded, settled, answer>>
        /\ \/ stage' \notin {"check", "verify"}
           \/ stage' = "check" /\ pending = None
           \/ stage = "check"
    BY <1>3 DEF ReadRegistry, ReadRecord, ReadPending, CheckRegistry,
                VerifyRegistry, Answer, Continue
  <2>. QED
    BY <2>1
<1>. QED
  BY <1>1, <1>2, <1>3

LEMMA OrderInvAlways == Spec => [](HookInv /\ OrderInv)
<1>1. HookInv /\ OrderInv /\ [Next]_vars => OrderInv'
  <2> SUFFICES ASSUME HookInv, OrderInv, [Next]_vars PROVE OrderInv'
    OBVIOUS
  <2>1. CASE Others
    BY <2>1, OrderInvOthers
  <2>2. CASE \/ Load \/ ReadRegistry \/ ReadRecord \/ ReadPending
             \/ CheckRegistry \/ VerifyRegistry
    <3>1. UNCHANGED <<fileVars, edited>>
      BY <2>2 DEF Load, ReadRegistry, ReadRecord, ReadPending,
                  CheckRegistry, VerifyRegistry
    <3>. QED
      BY <2>2, <3>1, OrderInvHook
  <2>3. CASE UNCHANGED vars
    BY <2>3 DEF vars, fileVars, hookVars, OrderInv, Ordered
  <2>. QED
    BY <2>1, <2>2, <2>3 DEF Next
<1>. QED
  BY <1>1, OrderInvInit, HookInvAlways, PTL DEF Spec

\* The hook answers from rules that were, at one instant since it loaded the
\* record, the registry and the trusted one with no confirmation under way,
\* for any registries and any number of setups and confirmations in between.
THEOREM AnswersTrusted == Spec => AnswersUnderTrust
<1>1. HookInv /\ OrderInv /\ [Next]_vars =>
         [stage # "idle" /\ answer' = "checked" => settled \/ edited]_vars
  <2> SUFFICES ASSUME HookInv, OrderInv, Next, stage # "idle",
                      answer' = "checked"
               PROVE  settled \/ edited
    OBVIOUS
  <2>0. answer' # answer
    BY DEF OrderInv
  <2>1. stage \in {"check", "verify"} /\ registry = loaded
    BY <2>0
    DEF Next, Load, ReadRegistry, ReadRecord, ReadPending, CheckRegistry,
        VerifyRegistry, Others, Answer, Continue, hookVars
  <2>. QED
    BY <2>1 DEF OrderInv
<1>. QED
  BY <1>1, OrderInvAlways, PTL DEF Spec, AnswersUnderTrust

=============================================================================
