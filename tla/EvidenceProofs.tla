---------------------------- MODULE EvidenceProofs ----------------------------
(***************************************************************************)
(* Proofs about the two places where evidence is gathered for someone who  *)
(* relies on it: the check of a file for callers (PythonCallers) and the   *)
(* packets of an assisted review (AssistedReview).  The two have nothing   *)
(* in common and are proved one after the other.                           *)
(*                                                                         *)
(* Callers.  CheckInv says that every name with one import at the top is   *)
(* bound to what it should be, whatever else the file imports, and that an *)
(* answer names calls that match, a complete one all of them.  What is     *)
(* left is no matter of states: for each known shape of a call, that it    *)
(* matches exactly if Python would call the protected function.            *)
(*                                                                         *)
(* Packets.  AssistInv says that the working tree that was collected was   *)
(* there at one instant, and that all that was collected is still there as *)
(* long as nothing changes.  The selection of files is a recursive         *)
(* function; what holds of it after every turn is proved by the smallest   *)
(* turn after which it would not.                                          *)
(***************************************************************************)
EXTENDS AssistedReview, PythonCallers, SequenceTheorems,
        WellFoundedInduction, TLAPS

-----------------------------------------------------------------------------
(* Dotted names                                                            *)

\* The join of a dotted name that is not empty is its continuation.
LEMMA JoinContinues ==
  ASSUME NEW start \in Seq(Names) \ {<<>>}, NEW rest \in Seq(Names)
  PROVE  Join(start, rest) = start \o rest
<1>1. CASE rest = <<>>
  BY <1>1, ConcatEmptySeq DEF Join
<1>. QED
  BY <1>1 DEF Join

\* The join is a dotted name, with the dot in front if the start is empty.
LEMMA JoinTyped ==
  ASSUME NEW start \in Seq(Names), NEW rest \in DottedNames
  PROVE  Join(start, rest) \in DottedNames
<1>1. start \in DottedNames
  BY SeqMonotonic DEF DottedNames
<1>2. <<Nothing>> \in DottedNames
  BY DEF DottedNames
<1>. QED
  BY <1>1, <1>2, ConcatProperties DEF Join, DottedNames

\* The first packages of a path.
LEMMA Packages ==
  ASSUME NEW package \in Seq(Names), NEW n \in 0 .. Len(package)
  PROVE  /\ SubSeq(package, 1, n) \in Seq(Names)
         /\ Len(SubSeq(package, 1, n)) = n
<1>1. \A i \in 1 .. n : package[i] \in Names
  BY ElementOfSeq
<1>. QED
  BY <1>1, SubSeqProperties

-----------------------------------------------------------------------------
(* Imports                                                                 *)

\* The fields of an import of the file at hand.
LEMMA ImportTyped ==
  ASSUME file \in FileTypes, NEW i \in DOMAIN file.imports
  PROVE  /\ file.imports[i] \in Imports
         /\ file.imports[i].module \in Seq(Names)
         /\ file.imports[i].name \in Names \cup {Nothing, Star}
         /\ file.imports[i].as \in Names \cup {Nothing}
         /\ file.imports[i].level \in Nat
         /\ file.imports[i].name = Nothing => file.imports[i].level = 0
         /\ file.imports[i].level = 0 => file.imports[i].module # <<>>
         /\ file.package \in Seq(Names)
<1>1. file.imports \in Seq(Imports) /\ file.package \in Seq(Names)
  BY DEF FileTypes
<1>2. i \in 1 .. Len(file.imports)
  BY <1>1
<1>3. file.imports[i] \in Imports
  BY <1>1, <1>2, ElementOfSeq
<1>. QED
  BY <1>1, <1>3 DEF Imports

\* What the check takes for the module is a dotted name.
LEMMA ResolveTyped ==
  ASSUME file \in FileTypes, NEW i \in DOMAIN file.imports
  PROVE  Resolve(file.imports[i]) \in DottedNames \cup {Nothing}
<1> DEFINE imp == file.imports[i]
           depth == Len(file.package) - (imp.level - 1)
<1>0. /\ imp.module \in Seq(Names)
      /\ imp.level \in Nat /\ file.package \in Seq(Names)
      /\ Len(file.package) \in Nat
  BY ImportTyped
<1>1. imp.module \in DottedNames
  <2> HIDE DEF imp
  <2>. QED
    BY <1>0, SeqMonotonic DEF DottedNames
<1>2. CASE imp.level = 0 \/ (imp.level > 1 /\ depth <= 0)
  BY <1>0, <1>1, <1>2 DEF Resolve
<1>3. CASE ~(imp.level = 0 \/ (imp.level > 1 /\ depth <= 0))
  <2>1. depth \in 0 .. Len(file.package)
    BY <1>0, <1>3
  <2>2. SubSeq(file.package, 1, depth) \in Seq(Names)
    BY <1>0, <2>1, Packages
  <2>3. Resolve(imp) = Join(SubSeq(file.package, 1, depth), imp.module)
    BY <1>3 DEF Resolve
  <2>. QED
    BY <1>1, <2>2, <2>3, JoinTyped
<1>. QED
  BY <1>2, <1>3

\* Where Python finds a module, the check finds the same one.
LEMMA ResolveIsImported ==
  ASSUME file \in FileTypes, NEW i \in DOMAIN file.imports,
         Imported(file.imports[i]) # Nothing
  PROVE  /\ Resolve(file.imports[i]) = Imported(file.imports[i])
         /\ Imported(file.imports[i]) \in Seq(Names) \ {<<>>}
<1> DEFINE imp == file.imports[i]
<1>1. /\ imp.module \in Seq(Names) /\ imp.level \in Nat
      /\ imp.level = 0 => imp.module # <<>>
      /\ file.package \in Seq(Names) /\ Len(file.package) \in Nat
  BY ImportTyped
<1>2. CASE imp.level = 0
  BY <1>1, <1>2 DEF Resolve, Imported
<1>3. CASE imp.level # 0
  <2> DEFINE depth == Len(file.package) + 1 - imp.level
             front == SubSeq(file.package, 1, depth)
  <2>1. imp.level <= Len(file.package)
    BY <1>1, <1>3 DEF Imported
  <2>2. depth \in 1 .. Len(file.package)
        /\ depth = Len(file.package) - (imp.level - 1)
    BY <1>1, <1>3, <2>1
  <2>3. front \in Seq(Names) /\ Len(front) = depth
    BY <1>1, <2>2, Packages
  <2>4. front # <<>>
    BY <2>2, <2>3
  <2>5. Imported(imp) = front \o imp.module
    BY <1>1, <1>3, <2>1 DEF Imported
  <2>6. Resolve(imp) = Join(front, imp.module)
    BY <1>1, <1>3, <2>2 DEF Resolve
  <2> HIDE DEF front, depth
  <2>7. front \o imp.module \in Seq(Names) \ {<<>>}
    BY <1>1, <2>3, <2>4, ConcatProperties, ConcatEqualIffEmpty
  <2>. QED
    BY <1>1, <2>3, <2>4, <2>5, <2>6, <2>7, JoinContinues
<1>. QED
  BY <1>2, <1>3

-----------------------------------------------------------------------------
(* The inductive invariant of the check                                    *)

\* An import that is not of a function named like its module.
Plainly(imp) ==
    Imported(imp) # <<>> => imp.name # LastName(Imported(imp))

\* The one import of a name, at the top.
Certain(n, i) ==
    /\ ImportsOf(n) = {i}
    /\ file.imports[i].name # Star
    /\ file.imports[i].context = "top"
    /\ Imported(file.imports[i]) # Nothing
    /\ Plainly(file.imports[i])

\* What such an import must be taken for: the protected module, the protected
\* function or neither.
Expected(imp) ==
    LET as(a) == [module |-> target.module, attr |-> a]
    IN  IF imp.name = Nothing
        THEN IF imp.module = target.module THEN as(Nothing) ELSE Nothing
        ELSE IF Append(Imported(imp), imp.name) = target.module
             THEN as(Nothing)
             ELSE IF imp.name = target.symbol /\ Imported(imp) = target.module
                  THEN as(target.symbol) ELSE Nothing

CheckTypeOK ==
    /\ target \in Targets
    /\ file \in Files
    /\ stage \in {"parse", "locate", "imports", "calls", "consumers", "done"}
    /\ next \in 1 .. Len(file.imports) + 1
    /\ bindings \in [Names -> Bindings \cup {Nothing}]

\* Whatever else the file imports, the imports so far have bound each name with
\* a certain import as they should.
Collected ==
    \A n \in Names, i \in DOMAIN file.imports :
        Certain(n, i) =>
            bindings[n] = IF i < next THEN Expected(file.imports[i])
                          ELSE Nothing

Matched == {call \in file.calls :
               call.chain[1] \notin file.rebound /\ Matches(call)}

\* An answer names calls that match once all imports are collected, and a
\* complete one all of them.
Answered ==
    /\ stage \in {"calls", "consumers"} => next = Len(file.imports) + 1
    /\ stage = "consumers" => keyed = Matched
    /\ Checked =>
          \/ result.consumers = {} /\ ~result.complete
          \/ /\ next = Len(file.imports) + 1
             /\ result.consumers \subseteq Matched
             /\ result.complete => result.consumers = Matched

CheckInv == CheckTypeOK /\ Collected /\ Answered

\* Nothing is collected at first.
LEMMA CheckInvInit == CheckInit => CheckInv
<1> SUFFICES ASSUME CheckInit PROVE CheckInv
  OBVIOUS
<1>1. file \in Files /\ file \in FileTypes
  BY CallersAssumption DEF CheckInit
<1>2. Len(file.imports) \in Nat
  BY <1>1 DEF FileTypes
<1>3. CheckTypeOK
  BY <1>1, <1>2 DEF CheckInit, CheckTypeOK
<1>4. Collected
  <2> SUFFICES ASSUME NEW n \in Names, NEW i \in DOMAIN file.imports
               PROVE  bindings[n] = IF i < next THEN Expected(file.imports[i])
                                    ELSE Nothing
    BY DEF Collected
  <2>1. i \in 1 .. Len(file.imports)
    BY <1>1 DEF FileTypes
  <2>. QED
    BY <1>2, <2>1 DEF CheckInit
<1>5. Answered
  BY DEF CheckInit, Answered, Checked
<1>. QED
  BY <1>3, <1>4, <1>5 DEF CheckInv

\* One import, whatever it is: it binds at most its own name, and if it is a
\* certain one then to what it should.
LEMMA CollectOne ==
  ASSUME CheckInv, CollectImport
  PROVE  /\ bindings' \in [Names -> Bindings \cup {Nothing}]
         /\ \A n \in Names :
               next \notin ImportsOf(n) => bindings'[n] = bindings[n]
         /\ \A n \in Names : Certain(n, next) =>
               bindings'[n] = Expected(file.imports[next])
<1> DEFINE imp == file.imports[next]
           name == BoundName(imp)
<1>1. /\ file \in FileTypes /\ next \in DOMAIN file.imports
      /\ target.module \in Seq(Names) \ {<<>>} /\ target.symbol \in Names
      /\ bindings \in [Names -> Bindings \cup {Nothing}]
  <2>1. file \in FileTypes /\ next \in 1 .. Len(file.imports)
    BY CallersAssumption DEF CheckInv, CheckTypeOK, CollectImport, FileTypes
  <2>. QED
    BY <2>1, CallersAssumption DEF CheckInv, CheckTypeOK, FileTypes
<1>2. /\ imp \in Imports
      /\ imp.module \in Seq(Names)
      /\ imp.name \in Names \cup {Nothing, Star}
      /\ imp.as \in Names \cup {Nothing}
      /\ imp.name = Nothing => imp.module # <<>>
      /\ Resolve(imp) \in DottedNames \cup {Nothing}
  BY <1>1, ImportTyped, ResolveTyped
<1>3. imp.name # Star => name \in Names
  BY <1>2, ElementOfSeq, EmptySeq DEF BoundName
\* What a step does to the bindings.
<1>4. \/ bindings' = bindings
      \/ /\ imp.name # Star
         /\ \E m \in DottedNames, a \in Names \cup {Nothing} :
               bindings' = [bindings EXCEPT ![name] =
                               [module |-> m, attr |-> a]]
  <2>1. target.module \in DottedNames /\ imp.module \in DottedNames
    BY <1>1, <1>2, SeqMonotonic DEF DottedNames
  <2>2. CASE imp.name = Nothing
    <3>1. CollectPlain(imp)
      BY <2>2 DEF CollectImport
    <3>. QED
      BY <2>1, <2>2, <3>1, CallersAssumption
      DEF CollectPlain, Unsupported, Bind
  <2>3. CASE imp.name # Nothing
    <3>1. CollectFrom(imp, Resolve(imp))
      BY <2>3 DEF CollectImport
    <3> HIDE DEF imp
    <3>. QED
      BY <1>2, <2>1, <2>3, <3>1 DEF CollectFrom, Unsupported, Bind
  <2>. QED
    BY <2>2, <2>3
<1>5. bindings' \in [Names -> Bindings \cup {Nothing}]
  <2> HIDE DEF imp, name
  <2>. QED
    BY <1>1, <1>3, <1>4 DEF Bindings
<1>6. ASSUME NEW n \in Names, next \notin ImportsOf(n)
      PROVE  bindings'[n] = bindings[n]
  <2>1. imp.name # Star /\ name # n
    BY <1>1, <1>6 DEF ImportsOf
  <2> HIDE DEF imp, name
  <2>. QED
    BY <1>1, <1>3, <1>4, <2>1
<1>7. ASSUME NEW n \in Names, Certain(n, next)
      PROVE  bindings'[n] = Expected(imp)
  <2>1. /\ n = name /\ imp.name # Star /\ imp.context = "top"
        /\ Imported(imp) # Nothing /\ Plainly(imp)
    BY <1>7 DEF Certain, ImportsOf
  <2>2. bindings[n] = Nothing
    BY <1>1, <1>7 DEF CheckInv, Collected, CheckTypeOK, FileTypes
  <2>3. CASE imp.name = Nothing
    <3>1. CollectPlain(imp)
      BY <2>3 DEF CollectImport
    <3> HIDE DEF imp, name
    <3>. QED
      BY <1>1, <2>1, <2>2, <2>3, <3>1 DEF CollectPlain, Bind, Expected, name
  <2>4. CASE imp.name # Nothing
    <3>1. /\ Resolve(imp) = Imported(imp)
          /\ Imported(imp) \in Seq(Names) \ {<<>>}
      BY <1>1, <2>1, ResolveIsImported
    <3>2. CollectFrom(imp, Imported(imp))
      BY <2>4, <3>1 DEF CollectImport
    <3> HIDE DEF imp, name
    <3>3. imp.name \in Names
      BY <1>2, <2>1, <2>4
    <3>4. Join(Imported(imp), <<imp.name>>) = Append(Imported(imp), imp.name)
      <4>1. <<imp.name>> \in Seq(Names)
        BY <3>3
      <4>2. Join(Imported(imp), <<imp.name>>) = Imported(imp) \o <<imp.name>>
        BY <3>1, <4>1, JoinContinues
      <4>. QED
        BY <3>1, <3>3, <4>2, AppendIsConcat
    <3>5. Imported(imp) = target.module =>
             Append(Imported(imp), imp.name) # target.module
      BY <1>1, <3>3, AppendProperties
    <3>. QED
      BY <1>1, <2>1, <2>2, <2>4, <3>1, <3>2, <3>3, <3>4, <3>5
      DEF CollectFrom, Unsupported, Bind, Expected, Plainly, name
  <2>. QED
    BY <2>3, <2>4
<1>. QED
  BY <1>5, <1>6, <1>7

\* What is certain, and what it must stand for, is read from the inputs.
LEMMA InputsKept ==
  ASSUME UNCHANGED inputs
  PROVE  /\ target' = target /\ file' = file
         /\ \A n, i : Certain(n, i)' <=> Certain(n, i)
         /\ \A i : Expected(file.imports[i])' = Expected(file.imports[i])
<1>1. target' = target /\ file' = file
  BY DEF inputs
<1>2. \A imp : Imported(imp)' = Imported(imp)
  BY <1>1 DEF Imported
<1>. QED
  BY <1>1, <1>2
  DEF Certain, Plainly, ImportsOf, BoundName, LastName, Expected

\* Steps that leave the bindings alone.
LEMMA BindingsKept ==
  ASSUME CheckInv, UNCHANGED <<inputs, next, bindings>>,
         stage' \in {"parse", "locate", "imports", "calls", "consumers",
                     "done"}
  PROVE  CheckTypeOK' /\ Collected' /\ Matched' = Matched
<1>1. target' = target /\ file' = file /\ next' = next /\ bindings' = bindings
  BY InputsKept
<1>2. CheckTypeOK'
  BY <1>1 DEF CheckInv, CheckTypeOK
<1>3. Collected'
  BY <1>1, InputsKept DEF CheckInv, Collected
<1>4. \A call : Matches(call)' <=> Matches(call)
  BY <1>1 DEF Matches, Shadowed, BoundByParameter, LocalDefShadows, LastName
<1>. QED
  BY <1>1, <1>2, <1>3, <1>4 DEF Matched

\* One step of the check.
LEMMA CheckInvNext == CheckInv /\ [CheckNext]_checkVars => CheckInv'
<1> SUFFICES ASSUME CheckInv, [CheckNext]_checkVars
             PROVE  CheckInv'
  OBVIOUS
<1>0. /\ file \in FileTypes /\ file.imports \in Seq(Imports)
      /\ Len(file.imports) \in Nat /\ next \in 1 .. Len(file.imports) + 1
      /\ stage \in {"parse", "locate", "imports", "calls", "consumers", "done"}
  BY CallersAssumption DEF CheckInv, CheckTypeOK, FileTypes
<1>1. CASE ResolvedRule
  <2>1. CheckTypeOK' /\ Collected'
    BY <1>1, BindingsKept DEF ResolvedRule, Answer
  <2>2. Answered'
    BY <1>1 DEF ResolvedRule, Answer, Answered, Checked
  <2>. QED
    BY <2>1, <2>2 DEF CheckInv
<1>2. CASE Parse
  <2>1. CheckTypeOK' /\ Collected'
    BY <1>2, BindingsKept DEF Parse
  <2>2. Answered'
    BY <1>2 DEF Parse, Answered, Checked
  <2>. QED
    BY <2>1, <2>2 DEF CheckInv
<1>3. CASE SymbolMissing
  <2>1. CheckTypeOK' /\ Collected'
    BY <1>3, BindingsKept DEF SymbolMissing, Answer
  <2>2. diagnostics' # {}
    BY <1>3 DEF SymbolMissing
  <2>3. Answered'
    BY <1>3, <2>2 DEF SymbolMissing, Answer, Answered, Checked
  <2>. QED
    BY <2>1, <2>3 DEF CheckInv
<1>4. CASE Locate
  <2>1. CheckTypeOK' /\ Collected'
    BY <1>4, BindingsKept DEF Locate
  <2>2. Answered'
    BY <1>4 DEF Locate, Answered, Checked
  <2>. QED
    BY <2>1, <2>2 DEF CheckInv
<1>5. CASE CollectImport
  <2>1. /\ UNCHANGED inputs /\ UNCHANGED <<stage, keyed, result>>
        /\ stage = "imports" /\ next <= Len(file.imports) /\ next' = next + 1
    BY <1>5 DEF CollectImport
  <2>2. /\ bindings' \in [Names -> Bindings \cup {Nothing}]
        /\ \A n \in Names :
              next \notin ImportsOf(n) => bindings'[n] = bindings[n]
        /\ \A n \in Names : Certain(n, next) =>
              bindings'[n] = Expected(file.imports[next])
    BY <1>5, CollectOne
  <2>3. CheckTypeOK'
    BY <1>0, <2>1, <2>2, InputsKept DEF CheckInv, CheckTypeOK
  <2>4. Collected'
    <3>1. SUFFICES ASSUME NEW n \in Names, NEW i \in DOMAIN file.imports,
                          Certain(n, i)
                   PROVE  bindings'[n] =
                            IF i < next' THEN Expected(file.imports[i])
                            ELSE Nothing
      BY <2>1, InputsKept DEF Collected
    <3>2. /\ i \in 1 .. Len(file.imports)
          /\ bindings[n] = IF i < next THEN Expected(file.imports[i])
                           ELSE Nothing
      BY <1>0, <3>1 DEF CheckInv, Collected
    <3>3. CASE i = next
      BY <1>0, <2>1, <2>2, <3>1, <3>2, <3>3
    <3>4. CASE i # next
      <4>1. next \notin ImportsOf(n)
        BY <3>1, <3>4 DEF Certain
      <4>2. bindings'[n] = bindings[n] /\ (i < next' <=> i < next)
        BY <1>0, <2>1, <2>2, <3>2, <3>4, <4>1
      <4>. QED
        BY <3>2, <4>2
    <3>. QED
      BY <3>3, <3>4
  <2>5. Answered'
    BY <2>1 DEF Answered, Checked
  <2>. QED
    BY <2>3, <2>4, <2>5 DEF CheckInv
<1>6. CASE Inspect
  <2>1. CheckTypeOK' /\ Collected'
    BY <1>6, BindingsKept DEF Inspect
  <2>2. Answered'
    BY <1>0, <1>6, InputsKept DEF Inspect, Answered, Checked
  <2>. QED
    BY <2>1, <2>2 DEF CheckInv
<1>7. CASE Match
  <2>1. CheckTypeOK' /\ Collected' /\ Matched' = Matched
    BY <1>7, BindingsKept DEF Match
  <2>2. keyed' = Matched /\ stage = "calls" /\ stage' = "consumers"
    BY <1>7 DEF Match, Matched
  <2>3. next' = Len(file'.imports) + 1
    BY <1>7, InputsKept DEF Match, CheckInv, Answered
  <2>4. Answered'
    BY <2>1, <2>2, <2>3 DEF Answered, Checked
  <2>. QED
    BY <2>1, <2>4 DEF CheckInv
<1>8. CASE Conclude
  <2> DEFINE doubtful == {call \in keyed : /\ call.scopes # <<>>
                                           /\ QualName(call) \in file.twice}
  <2>1. CheckTypeOK' /\ Collected' /\ Matched' = Matched
    BY <1>8, BindingsKept DEF Conclude, Answer
  <2>2. keyed = Matched /\ next' = Len(file'.imports) + 1
    BY <1>8, InputsKept DEF Conclude, CheckInv, Answered
  <2>3. /\ result'.consumers = keyed \ doubtful
        /\ result'.complete <=> diagnostics' = {}
        /\ doubtful # {} => diagnostics' # {}
        /\ stage' = "done"
    BY <1>8 DEF Conclude, Answer
  <2> HIDE DEF doubtful
  <2>4. result'.complete => result'.consumers = Matched'
    BY <2>1, <2>2, <2>3
  <2>5. result'.consumers \subseteq Matched'
    BY <2>1, <2>2, <2>3
  <2>6. Answered'
    BY <2>2, <2>3, <2>4, <2>5 DEF Answered, Checked
  <2>. QED
    BY <2>1, <2>6 DEF CheckInv
<1>9. CASE UNCHANGED checkVars
  <2>1. /\ UNCHANGED <<inputs, next, bindings>>
        /\ UNCHANGED <<stage, keyed, result>>
    BY <1>9 DEF checkVars, inputs
  <2>2. CheckTypeOK' /\ Collected' /\ Matched' = Matched
    BY <1>0, <2>1, BindingsKept
  <2>3. Answered'
    BY <2>1, <2>2, InputsKept DEF CheckInv, Answered, Checked
  <2>. QED
    BY <2>2, <2>3 DEF CheckInv
<1>. QED
  BY <1>1, <1>2, <1>3, <1>4, <1>5, <1>6, <1>7, <1>8, <1>9 DEF CheckNext

LEMMA CheckInvariance == CheckSpec => []CheckInv
  BY CheckInvInit, CheckInvNext, PTL DEF CheckSpec

-----------------------------------------------------------------------------
(* Calls of a known shape                                                  *)

\* The parts of a call.
LEMMA CallTyped ==
  ASSUME CheckInv, NEW call \in file.calls
  PROVE  /\ call.chain \in Seq(Names) /\ call.chain # <<>>
         /\ Len(call.chain) \in Nat /\ Len(call.chain) >= 1
         /\ call.chain[1] \in Names
         /\ \A i \in 2 .. Len(call.chain) : call.chain[i] \in Names
         /\ call.scopes \in Seq(Scopes)
<1>1. call \in Calls
  BY CallersAssumption DEF CheckInv, CheckTypeOK, FileTypes
<1>2. /\ call.chain \in Seq(Names) /\ call.chain # <<>>
      /\ call.scopes \in Seq(Scopes)
  BY <1>1 DEF Calls
<1>3. Len(call.chain) \in Nat /\ Len(call.chain) >= 1
  BY <1>2, EmptySeq
<1>. QED
  BY <1>2, <1>3, ElementOfSeq

\* Once the imports are collected, the name of such a call is bound to what
\* its import should stand for.
LEMMA CallIsBound ==
  ASSUME CheckInv, next = Len(file.imports) + 1,
         NEW call \in file.calls, Unambiguous(call), KnownShape(call)
  PROVE  LET imp == ImportFor(call)
         IN  /\ bindings[call.chain[1]] = Expected(imp)
             /\ imp.module \in Seq(Names)
             /\ imp.name \in Names \cup {Nothing}
             /\ imp.as \in Names \cup {Nothing}
             /\ imp.name = Nothing => imp.module # <<>>
             /\ Imported(imp) \in Seq(Names) \ {<<>>}
<1> DEFINE n == call.chain[1]
           imp == ImportFor(call)
<1>1. file \in FileTypes /\ file.imports \in Seq(Imports)
  BY CallersAssumption DEF CheckInv, CheckTypeOK, FileTypes
<1>2. PICK i \in DOMAIN file.imports :
        /\ ImportsOf(n) = {i}
        /\ file.imports[i].name # Star
        /\ file.imports[i].context = "top"
        /\ Imported(file.imports[i]) # Nothing
  BY DEF Unambiguous
<1>3. imp = file.imports[i]
  <2>1. \A j \in DOMAIN file.imports : ImportsOf(n) = {j} => j = i
    BY <1>2
  <2>. QED
    BY <1>2, <2>1 DEF ImportFor
<1>4. Certain(n, i)
  BY <1>2, <1>3 DEF Certain, Plainly, KnownShape
<1>5. n \in Names /\ i \in 1 .. Len(file.imports) /\ Len(file.imports) \in Nat
  BY <1>1, CallTyped
<1>6. bindings[n] = Expected(imp)
  BY <1>3, <1>4, <1>5 DEF CheckInv, Collected
<1>7. Imported(imp) \in Seq(Names) \ {<<>>}
  BY <1>1, <1>2, <1>3, ResolveIsImported
<1>. QED
  BY <1>1, <1>2, <1>3, <1>6, <1>7, ImportTyped

\* What the check takes for hidden is hidden, and the other way round.
LEMMA ShadowedIsHidden ==
  ASSUME NEW call, Unambiguous(call), KnownShape(call),
         call.scopes \in Seq(Scopes)
  PROVE  Hidden(call) <=> Shadowed(call)
<1> DEFINE n == call.chain[1]
           around(i) == call.scopes[i]
<1>1. \A i \in DOMAIN call.scopes :
        /\ around(i).kind \in {"def", "class"}
        /\ n \notin around(i).outer
        /\ around(i).kind = "class" /\ n \in around(i).binds => i = 1
  <2>1. \A i \in DOMAIN call.scopes : i \in 1 .. Len(call.scopes)
    OBVIOUS
  <2>2. \A i \in DOMAIN call.scopes : around(i) \in Scopes
    BY <2>1, ElementOfSeq
  <2>3. \A i \in 2 .. Len(call.scopes) :
           around(i).kind = "class" => n \notin around(i).binds
    BY DEF KnownShape
  <2>. QED
    BY <2>1, <2>2, <2>3 DEF Unambiguous, Scopes
<1>2. ASSUME Hidden(call) PROVE Shadowed(call)
  BY <1>1, <1>2 DEF Hidden, Shadowed, BoundByParameter, LocalDefShadows
<1>3. ASSUME Shadowed(call) PROVE Hidden(call)
  BY <1>1, <1>3 DEF Hidden, Shadowed, BoundByParameter, LocalDefShadows
<1>. QED
  BY <1>2, <1>3

\* The rest of a chain, by its length.
LEMMA RestOfChain ==
  ASSUME NEW chain \in Seq(Names), chain # <<>>
  PROVE  /\ Len(chain) = 1 => Tail(chain) = <<>>
         /\ Len(chain) = 2 => Tail(chain) = <<chain[2]>>
         /\ Len(chain) = 3 => Tail(chain) = <<chain[2], chain[3]>>
<1> DEFINE rest == Tail(chain)
<1>1. /\ rest \in Seq(Names) /\ Len(rest) = Len(chain) - 1
      /\ \A i \in 1 .. Len(rest) : rest[i] = chain[i + 1]
  BY HeadTailProperties
<1>2. \A i \in 2 .. Len(chain) : chain[i] \in Names
  BY ElementOfSeq
<1>3. Len(chain) \in Nat
  OBVIOUS
<1> HIDE DEF rest
<1>4. ASSUME Len(chain) = 1 PROVE rest = <<>>
  BY <1>1, <1>4, EmptySeq
<1>5. ASSUME Len(chain) = 2 PROVE rest = <<chain[2]>>
  <2>1. <<chain[2]>> \in Seq(Names) /\ Len(rest) = 1 /\ rest[1] = chain[2]
    BY <1>1, <1>2, <1>5
  <2>. QED
    BY <1>1, <2>1, SeqEqual
<1>6. ASSUME Len(chain) = 3 PROVE rest = <<chain[2], chain[3]>>
  <2>1. /\ <<chain[2], chain[3]>> \in Seq(Names) /\ Len(rest) = 2
        /\ rest[1] = chain[2] /\ rest[2] = chain[3]
    BY <1>1, <1>2, <1>6
  <2>. QED
    BY <1>1, <2>1, SeqEqual
<1>. QED
  BY <1>4, <1>5, <1>6 DEF rest

\* One name and two more.
LEMMA TwoAfterOne ==
  ASSUME NEW a \in Names, NEW b \in Names, NEW c \in Names
  PROVE  <<a>> \o <<b, c>> = Append(<<a, b>>, c)
  OBVIOUS

\* A name after a dotted one.
LEMMA NameAfter ==
  ASSUME NEW path \in Seq(Names), NEW module \in Seq(Names),
         NEW name \in Names, NEW symbol \in Names
  PROVE  /\ path \o <<name>> = Append(module, symbol)
               <=> path = module /\ name = symbol
         /\ Append(path, name) # path
         /\ Append(path, name) \in Seq(Names)
<1>1. path \o <<name>> = Append(path, name)
  BY AppendIsConcat
<1>2. Append(path, name) = Append(module, symbol)
         <=> path = module /\ name = symbol
  BY AppendInjective
<1>3. /\ Append(path, name) \in Seq(Names)
      /\ Len(Append(path, name)) = Len(path) + 1 /\ Len(path) \in Nat
  BY AppendProperties
<1>. QED
  BY <1>1, <1>2, <1>3

\* A caller of a known shape matches.
LEMMA CallerMatches ==
  ASSUME CheckInv, next = Len(file.imports) + 1, NEW call \in file.calls,
         Unambiguous(call), KnownShape(call), IsCaller(call)
  PROVE  call \in Matched
<1> DEFINE imp == ImportFor(call)
           chain == call.chain
           T == target.module
           binding == bindings[chain[1]]
           as(a) == [module |-> T, attr |-> a]
<1>1. /\ T \in Seq(Names) /\ T # <<>> /\ target.symbol \in Names
      /\ Len(T) \in Nat /\ Nothing \notin Names
  BY CallersAssumption DEF CheckInv, CheckTypeOK
<1>2. /\ chain \in Seq(Names) /\ chain # <<>> /\ Len(chain) \in Nat
      /\ Len(chain) >= 1
      /\ \A i \in 2 .. Len(chain) : chain[i] \in Names
  BY CallTyped
<1>3. /\ binding = Expected(imp)
      /\ imp.module \in Seq(Names)
      /\ imp.name \in Names \cup {Nothing}
      /\ imp.as \in Names \cup {Nothing}
      /\ imp.name = Nothing => imp.module # <<>>
      /\ Imported(imp) \in Seq(Names) \ {<<>>}
  BY CallIsBound
<1>4. /\ ~Shadowed(call)
      /\ Meaning(imp) \o Tail(chain) = Append(T, target.symbol)
      /\ imp.name = Nothing => imp.module # Append(T, target.symbol)
  BY CallTyped, ShadowedIsHidden DEF IsCaller
<1>5. \/ Len(chain) \in {1, 2}
         /\ (imp.name = Nothing /\ imp.as = Nothing => Len(imp.module) = 1)
      \/ /\ Len(chain) = 3
         /\ imp.name = Nothing /\ imp.as = Nothing /\ imp.module = T
  <2>1. \/ Len(chain) <= 2
           /\ (imp.name = Nothing /\ imp.as = Nothing => Len(imp.module) = 1)
        \/ /\ Len(chain) = 3
           /\ imp.name = Nothing /\ imp.as = Nothing /\ imp.module = T
    BY DEF KnownShape
  <2>2. Len(chain) <= 2 => Len(chain) \in {1, 2}
    <3>1. \A n \in Nat : n >= 1 /\ n <= 2 => n \in {1, 2}
      OBVIOUS
    <3>. QED
      BY <1>2, <3>1
  <2>. QED
    BY <2>1, <2>2
<1>6. \A a \in Names \cup {Nothing} : as(a) # Nothing
  <2>1. T \in DottedNames
    BY <1>1, SeqMonotonic DEF DottedNames
  <2>. QED
    BY <2>1, CallersAssumption DEF Bindings
<1> HIDE DEF imp, chain, T
<1>7. /\ chain[1] \notin file.rebound
      /\ Len(chain) \in {2, 3} => chain[2] \in Names
      /\ Len(chain) = 3 => chain[3] \in Names
  BY <1>2 DEF Unambiguous, chain
\* f()
<1>8. ASSUME binding = as(target.symbol), Len(chain) = 1 PROVE Matches(call)
  BY <1>1, <1>4, <1>6, <1>8 DEF Matches, chain, T
\* alias.f()
<1>9. ASSUME binding = as(Nothing), Len(chain) = 2, chain[2] = target.symbol
      PROVE  Matches(call)
  BY <1>4, <1>6, <1>9 DEF Matches, LastName, chain, T
\* package.module.f()
<1>10. ASSUME binding = as(Nothing), Len(chain) = 3, chain[3] = target.symbol,
              chain[2] = LastName(T)
       PROVE  Matches(call)
  BY <1>4, <1>6, <1>10 DEF Matches, Shadowed, LastName, chain, T
<1>11. /\ Len(chain) = 1 => Tail(chain) = <<>>
       /\ Len(chain) = 2 => Tail(chain) = <<chain[2]>>
       /\ Len(chain) = 3 => Tail(chain) = <<chain[2], chain[3]>>
  BY <1>2, RestOfChain
\* A module, under its own name or another.
<1>12. ASSUME imp.name = Nothing, Len(chain) \in {1, 2},
              Meaning(imp) = imp.module
       PROVE  Matches(call)
  <2>1. Len(chain) = 2
    <3>1. ASSUME Len(chain) = 1 PROVE FALSE
      BY <1>3, <1>4, <1>11, <1>12, <3>1, ConcatEmptySeq
    <3>. QED
      BY <1>12, <3>1
  <2>2. imp.module \o <<chain[2]>> = Append(T, target.symbol)
    BY <1>4, <1>11, <1>12, <2>1
  <2>3. imp.module = T /\ chain[2] = target.symbol
    <3> DEFINE module == imp.module
               symbol == target.symbol
    <3>1. module \in Seq(Names) /\ T \in Seq(Names)
      BY <1>1, <1>3
    <3>2. chain[2] \in Names /\ symbol \in Names
      BY <1>1, <1>7, <2>1
    <3>3. module \o <<chain[2]>> = Append(T, symbol)
      BY <2>2
    <3> HIDE DEF module, symbol
    <3>4. module = T /\ chain[2] = symbol
      BY <3>1, <3>2, <3>3, NameAfter
    <3>. QED
      BY <3>4 DEF module, symbol
  <2>4. binding = as(Nothing)
    BY <1>3, <1>12, <2>3 DEF Expected, T
  <2>. QED
    BY <1>9, <2>1, <2>3, <2>4
<1>13. ASSUME imp.name = Nothing, imp.as # Nothing, Len(chain) \in {1, 2}
       PROVE  Matches(call)
  BY <1>12, <1>13 DEF Meaning
<1>14. ASSUME imp.name = Nothing, imp.as = Nothing, Len(chain) \in {1, 2}
       PROVE  Matches(call)
  <2>1. imp.module = <<imp.module[1]>>
    <3>1. Len(imp.module) = 1
      BY <1>5, <1>14, 1 # 3, 2 # 3
    <3>2. imp.module[1] \in Names
      BY <1>3, <3>1, ElementOfSeq
    <3>. QED
      BY <1>3, <3>1, <3>2, SeqEqual
  <2>. QED
    BY <1>12, <1>14, <2>1 DEF Meaning
<1>15. ASSUME imp.name = Nothing, imp.as = Nothing, Len(chain) = 3,
              imp.module = T
       PROVE  Matches(call)
  <2>1. Meaning(imp) = <<T[1]>>
    BY <1>15 DEF Meaning
  <2>2. <<T[1]>> \o <<chain[2], chain[3]>> = Append(T, target.symbol)
    BY <1>4, <1>11, <1>15, <2>1
  <2>3. T[1] \in Names
    BY <1>1, ElementOfSeq
  <2>4. <<T[1]>> \o <<chain[2], chain[3]>>
          = Append(<<T[1], chain[2]>>, chain[3])
    BY <1>7, <1>15, <2>3, TwoAfterOne
  <2>5. <<T[1], chain[2]>> \in Seq(Names)
    BY <1>7, <1>15, <2>3
  <2>6. <<T[1], chain[2]>> = T /\ chain[3] = target.symbol
    <3>1. chain[3] \in Names /\ target.symbol \in Names /\ T \in Seq(Names)
      BY <1>1, <1>7, <1>15
    <3>2. Append(<<T[1], chain[2]>>, chain[3]) = Append(T, target.symbol)
      BY <2>2, <2>4
    <3>. QED
      BY <2>5, <3>1, <3>2, AppendInjective
  <2>8. LastName(T) = chain[2]
    <3>1. T[Len(T)] = <<T[1], chain[2]>>[Len(<<T[1], chain[2]>>)]
      BY <2>6
    <3>. QED
      BY <3>1 DEF LastName
  <2>7. binding = as(Nothing)
    BY <1>3, <1>15 DEF Expected, T
  <2>. QED
    BY <1>10, <1>15, <2>6, <2>7, <2>8
<1>16. ASSUME imp.name # Nothing, Len(chain) \in {1, 2} PROVE Matches(call)
  <2> DEFINE M == Imported(imp)
  <2>1. /\ imp.name \in Names /\ M \in Seq(Names)
        /\ Meaning(imp) = Append(M, imp.name)
    BY <1>3, <1>16 DEF Meaning
  <2>2. Expected(imp) = IF Append(M, imp.name) = T THEN as(Nothing)
                        ELSE IF imp.name = target.symbol /\ M = T
                             THEN as(target.symbol) ELSE Nothing
    BY <1>16 DEF Expected, T
  <2> HIDE DEF M
  <2>3. CASE Len(chain) = 1
    <3>1. Append(M, imp.name) = Append(T, target.symbol)
      <4>1. Append(M, imp.name) \in Seq(Names)
        BY <2>1, NameAfter
      <4>2. Append(M, imp.name) \o <<>> = Append(T, target.symbol)
        BY <1>4, <1>11, <2>1, <2>3
      <4>. QED
        BY <4>1, <4>2, ConcatEmptySeq
    <3>2. M = T /\ imp.name = target.symbol
      BY <1>1, <2>1, <3>1, AppendInjective
    <3>3. Append(M, imp.name) # T
      BY <2>1, <3>2, NameAfter
    <3>. QED
      BY <1>3, <1>8, <2>2, <2>3, <3>2, <3>3
  <2>4. CASE Len(chain) = 2
    <3>1. Append(M, imp.name) \o <<chain[2]>> = Append(T, target.symbol)
      BY <1>4, <1>11, <2>1, <2>4
    <3>2. Append(M, imp.name) \in Seq(Names)
      BY <2>1, NameAfter
    <3>3. Append(M, imp.name) = T /\ chain[2] = target.symbol
      <4>1. chain[2] \in Names /\ target.symbol \in Names /\ T \in Seq(Names)
        BY <1>1, <1>7, <2>4
      <4>. QED
        BY <3>1, <3>2, <4>1, NameAfter
    <3>. QED
      BY <1>3, <1>9, <2>2, <2>4, <3>3
  <2>. QED
    BY <1>16, <2>3, <2>4
<1>17. Matches(call)
  BY <1>5, <1>13, <1>14, <1>15, <1>16
<1>. QED
  BY <1>7, <1>17 DEF Matched, chain

\* A match of one or two names is a caller.
LEMMA MatchIsCaller ==
  ASSUME CheckInv, next = Len(file.imports) + 1, NEW call \in Matched,
         Unambiguous(call), KnownShape(call), Len(call.chain) <= 2
  PROVE  IsCaller(call)
<1> DEFINE imp == ImportFor(call)
           chain == call.chain
           T == target.module
           binding == bindings[chain[1]]
           M == Imported(imp)
<1>0. call \in file.calls /\ Matches(call)
  BY DEF Matched
<1>1. /\ T \in Seq(Names) /\ T # <<>> /\ target.symbol \in Names
      /\ Nothing \notin Names
  BY CallersAssumption DEF CheckInv, CheckTypeOK
<1>2. /\ chain \in Seq(Names) /\ chain # <<>> /\ Len(chain) \in {1, 2}
      /\ \A i \in 2 .. Len(chain) : chain[i] \in Names
  <2>1. \A n \in Nat : n >= 1 /\ n <= 2 => n \in {1, 2}
    OBVIOUS
  <2>. QED
    BY <1>0, <2>1, CallTyped
<1>3. /\ binding = Expected(imp)
      /\ imp.module \in Seq(Names)
      /\ imp.name \in Names \cup {Nothing}
      /\ imp.as \in Names \cup {Nothing}
      /\ imp.name = Nothing => imp.module # <<>>
      /\ M \in Seq(Names) \ {<<>>}
  BY <1>0, CallIsBound
<1>4. ~Hidden(call)
  <2>1. \A n : n \in {1, 2} => n # 3
    OBVIOUS
  <2>2. ~Shadowed(call)
    BY <1>0, <1>2, <2>1 DEF Matches
  <2>. QED
    BY <1>0, <2>2, CallTyped, ShadowedIsHidden
<1>5. /\ binding # Nothing
      /\ binding.module = T
      /\ \/ Len(chain) = 1 /\ binding.attr = target.symbol
         \/ /\ Len(chain) = 2
            /\ binding.attr = Nothing /\ chain[2] = target.symbol
  BY <1>0, <1>2 DEF Matches, LastName
<1>6. /\ Len(chain) = 1 => Tail(chain) = <<>>
      /\ Len(chain) = 2 => Tail(chain) = <<chain[2]>>
  BY <1>2, RestOfChain
<1>7. imp.name = Nothing /\ imp.as = Nothing => Len(imp.module) = 1
  <2>1. \A n : n \in {1, 2} => n # 3
    OBVIOUS
  <2>. QED
    BY <1>2, <2>1 DEF KnownShape
<1> HIDE DEF imp, chain, T, M
<1>8. CASE Len(chain) = 1
  <2>1. imp.name = target.symbol /\ M = T
    <3>1. binding.attr = target.symbol /\ binding # Nothing
      BY <1>5, <1>8
    <3>. QED
      BY <1>1, <1>3, <3>1 DEF Expected, M, T
  <2>2. imp.name # Nothing /\ Meaning(imp) = Append(T, target.symbol)
    BY <1>1, <2>1 DEF Meaning, M
  <2>3. Meaning(imp) \o Tail(chain) = Append(T, target.symbol)
    <3>1. Append(T, target.symbol) \in Seq(Names)
      BY <1>1, NameAfter
    <3>2. Append(T, target.symbol) \o <<>> = Append(T, target.symbol)
      BY <3>1, ConcatEmptySeq
    <3>. QED
      BY <1>6, <1>8, <2>2, <3>2
  <2>. QED
    BY <1>4, <2>2, <2>3 DEF IsCaller, imp, chain, T
<1>9. CASE Len(chain) = 2
  <2>1. \/ imp.name = Nothing /\ imp.module = T
        \/ imp.name # Nothing /\ Append(M, imp.name) = T
    <3>1. binding.attr = Nothing /\ binding # Nothing
      BY <1>5, <1>9
    <3>. QED
      BY <1>1, <1>3, <3>1 DEF Expected, M, T
  <2>2. Meaning(imp) = T
    <3>1. CASE imp.name # Nothing
      BY <2>1, <3>1 DEF Meaning, M
    <3>2. CASE imp.name = Nothing /\ imp.as # Nothing
      BY <2>1, <3>2 DEF Meaning
    <3>3. CASE imp.name = Nothing /\ imp.as = Nothing
      <4>1. Len(T) = 1 /\ T[1] \in Names
        BY <1>1, <1>7, <2>1, <3>3, ElementOfSeq
      <4>2. <<T[1]>> = T
        BY <1>1, <4>1, SeqEqual
      <4>. QED
        BY <2>1, <3>3, <4>2 DEF Meaning
    <3>. QED
      BY <3>1, <3>2, <3>3
  <2>3. Meaning(imp) \o Tail(chain) = Append(T, target.symbol)
    <3>1. Tail(chain) = <<target.symbol>>
      BY <1>5, <1>6, <1>9
    <3>2. T \o <<target.symbol>> = Append(T, target.symbol)
      BY <1>1, AppendIsConcat
    <3>. QED
      BY <2>2, <3>1, <3>2
  <2>4. imp.name = Nothing => imp.module # Append(T, target.symbol)
    BY <1>1, <2>1, NameAfter
  <2>. QED
    BY <1>4, <2>3, <2>4 DEF IsCaller, imp, chain, T
<1>. QED
  BY <1>2, <1>8, <1>9

-----------------------------------------------------------------------------
(* What an answer is worth                                                 *)

\* A complete answer names every caller of a known shape.
THEOREM CallersAreFound == CheckSpec => []CallersFound
<1>1. CheckInv => CallersFound
  <2> SUFFICES ASSUME CheckInv, Checked, result.complete,
                      NEW call \in file.calls,
                      Unambiguous(call), KnownShape(call), IsCaller(call)
               PROVE  call \in result.consumers
    BY DEF CallersFound
  <2>1. next = Len(file.imports) + 1 /\ result.consumers = Matched
    BY DEF CheckInv, Answered
  <2>. QED
    BY <2>1, CallerMatches
<1>. QED
  BY <1>1, CheckInvariance, PTL

\* Whoever is named as a consumer by one or two names calls the function.
THEOREM ConsumersReallyCall == CheckSpec => []ConsumersCall
<1>1. CheckInv => ConsumersCall
  <2> SUFFICES ASSUME CheckInv, Checked, NEW call \in result.consumers,
                      Unambiguous(call), KnownShape(call),
                      Len(call.chain) <= 2
               PROVE  IsCaller(call)
    BY DEF ConsumersCall
  <2>1. next = Len(file.imports) + 1 /\ call \in Matched
    BY DEF CheckInv, Answered
  <2>. QED
    BY <2>1, MatchIsCaller
<1>. QED
  BY <1>1, CheckInvariance, PTL

-----------------------------------------------------------------------------
(* Files that have nothing to do with the protected module                 *)

\* All imports are of other packages, and none of a name like the last part of
\* its module, which the check takes for that module.
Unrelated ==
    \A i \in DOMAIN file.imports :
        LET imp == file.imports[i]
        IN  /\ imp.level = 0
            /\ imp.module[1] # target.module[1]
            /\ imp.name # LastName(imp.module)

\* Such a file leaves the check complete, as the docstring of
\* _collect_bindings has it of every file with unrelated imports.
UnrelatedIsComplete ==
    Checked /\ Located /\ ~unparsed /\ Unrelated => result.complete

\* Its imports bind nothing and nothing is undecided.
NothingBound ==
    Located /\ ~unparsed /\ Unrelated =>
        /\ bindings = [n \in Names |-> Nothing]
        /\ diagnostics = {}
        /\ stage = "consumers" => keyed = {}
        /\ Checked => result.complete

\* An import of another package changes nothing.
LEMMA UnrelatedImport ==
  ASSUME CheckInv, Unrelated, CollectImport
  PROVE  UNCHANGED <<bindings, diagnostics>>
<1> DEFINE imp == file.imports[next]
<1>1. /\ file \in FileTypes /\ next \in DOMAIN file.imports
      /\ target.module \in Seq(Names) \ {<<>>}
  BY CallersAssumption
  DEF CheckInv, CheckTypeOK, CollectImport, FileTypes
<1>2. /\ imp.module \in Seq(Names) /\ imp.module # <<>>
      /\ imp.name \in Names \cup {Nothing, Star}
      /\ imp.level = 0
      /\ imp.module[1] # target.module[1]
      /\ imp.name # LastName(imp.module)
  BY <1>1, ImportTyped DEF Unrelated
<1>3. imp.module # target.module
  BY <1>2
<1>4. CASE imp.name = Nothing
  BY <1>3, <1>4 DEF CollectImport, CollectPlain
<1>5. CASE imp.name # Nothing
  <2>1. CollectFrom(imp, imp.module)
    BY <1>2, <1>5 DEF CollectImport, Resolve
  <2>2. imp.module # Nothing
    BY <1>2, CallersAssumption, SeqMonotonic DEF DottedNames
  <2>3. CASE imp.name = Star
    BY <1>3, <1>5, <2>1, <2>2, <2>3 DEF CollectFrom
  <2>4. CASE imp.name # Star
    <3> DEFINE name == imp.name
               module == imp.module
    <3>1. name \in Names /\ module \in Seq(Names) \ {<<>>}
      BY <1>2, <1>5, <2>4
    <3> HIDE DEF name, module
    <3>2. <<name>> \in Seq(Names)
      BY <3>1
    <3>3. Join(module, <<name>>) = module \o <<name>>
      BY <3>1, <3>2, JoinContinues
    <3>4. (module \o <<name>>)[1] = module[1]
      BY <3>1, <3>2, ConcatProperties
    <3>5. Join(imp.module, <<imp.name>>) # target.module
      BY <1>2, <3>3, <3>4 DEF name, module
    <3>. QED
      BY <1>2, <1>3, <2>1, <2>2, <2>4, <3>5 DEF CollectFrom
  <2>. QED
    BY <2>3, <2>4
<1>. QED
  BY <1>4, <1>5

LEMMA NothingBoundNext ==
  CheckInv /\ NothingBound /\ [CheckNext]_checkVars => NothingBound'
<1> SUFFICES ASSUME CheckInv, NothingBound, [CheckNext]_checkVars,
                    Located', ~unparsed', Unrelated'
             PROVE  NothingBound'
  BY DEF NothingBound
<1> DEFINE none == [n \in Names |-> Nothing]
<1>0. UNCHANGED inputs
  BY DEF CheckNext, ResolvedRule, Parse, SymbolMissing, Locate,
         CollectImport, Inspect, Match, Conclude, inputs, checkVars
<1>1. Located /\ ~unparsed /\ Unrelated /\ ~Broken
  BY <1>0 DEF inputs, Located, Unrelated, Broken
<1>2. /\ bindings = none /\ diagnostics = {}
      /\ stage = "consumers" => keyed = {}
      /\ Checked => result.complete
  BY <1>1 DEF NothingBound
<1>3. CASE ResolvedRule
  BY <1>2, <1>3 DEF ResolvedRule, Answer, NothingBound, Checked
<1>4. CASE Parse
  BY <1>1, <1>2, <1>4 DEF Parse, NothingBound, Checked
<1>5. CASE SymbolMissing
  BY <1>1, <1>5 DEF SymbolMissing
<1>6. CASE Locate
  BY <1>2, <1>6 DEF Locate, NothingBound, Checked
<1>7. CASE CollectImport
  <2>1. UNCHANGED <<bindings, diagnostics>>
    BY <1>1, <1>7, UnrelatedImport
  <2>2. UNCHANGED <<stage, keyed, result>>
    BY <1>7 DEF CollectImport
  <2>. QED
    BY <1>2, <2>1, <2>2 DEF NothingBound, Checked
<1>8. CASE Inspect
  <2>1. {n \in Names : bindings[n] # Nothing} = {}
    BY <1>2
  <2>2. diagnostics' = diagnostics
    BY <1>8, <2>1 DEF Inspect
  <2>. QED
    BY <1>2, <1>8, <2>2 DEF Inspect, NothingBound, Checked
<1>9. CASE Match
  <2>1. ASSUME NEW call \in file.calls PROVE ~Matches(call)
    BY <1>2, <2>1, CallTyped DEF Matches
  <2>2. keyed' = {}
    BY <1>9, <2>1 DEF Match
  <2>. QED
    BY <1>2, <1>9, <2>2 DEF Match, NothingBound, Checked
<1>10. CASE Conclude
  <2>1. keyed = {}
    BY <1>2, <1>10 DEF Conclude
  <2>2. diagnostics' = {}
    BY <1>2, <1>10, <2>1 DEF Conclude
  <2>. QED
    BY <1>2, <1>10, <2>2 DEF Conclude, Answer, NothingBound, Checked
<1>11. CASE UNCHANGED checkVars
  BY <1>2, <1>11 DEF checkVars, NothingBound, Checked
<1>. QED
  BY <1>3, <1>4, <1>5, <1>6, <1>7, <1>8, <1>9, <1>10, <1>11
  DEF CheckNext

\* But for names like the last part of their module, unrelated imports do leave
\* the check complete: what the run MCUnrelated shows is the only exception.
THEOREM UnrelatedHarmless == CheckSpec => []UnrelatedIsComplete
<1>1. CheckInit => NothingBound
  BY DEF CheckInit, NothingBound, Checked
<1>2. NothingBound => UnrelatedIsComplete
  BY DEF NothingBound, UnrelatedIsComplete
<1>. QED
  BY <1>1, <1>2, NothingBoundNext, CheckInvariance, PTL DEF CheckSpec

-----------------------------------------------------------------------------
(* The files of a packet                                                   *)

Selections == [files : Seq(Entries), text : Nat, omitted : Nat]

EntryOf(p) == FileEntry(p, Text(base, p), Text(inventory, p))

\* What has been collected of both sides when a packet is built.
SidesKnown ==
    base \in [Paths -> States] /\ inventory \in Inventories

\* The text of a file on both sides, and its size.
LEMMA TextsTyped ==
  ASSUME SidesKnown, NEW p \in Paths
  PROVE  /\ Text(base, p) \in Texts /\ Text(inventory, p) \in Texts
         /\ Size(Text(base, p)) \in Nat /\ Size(Text(inventory, p)) \in Nat
<1>1. Text(base, p) \in Texts /\ Text(inventory, p) \in Texts
  BY DEF Text, Texts
<1>2. ASSUME NEW text \in Texts PROVE Size(text) \in Nat
  <2>1. CASE text = None
    BY <2>1 DEF Size
  <2>2. CASE text \in Contents /\ text # None
    <3>1. text \in Seq({text[i] : i \in DOMAIN text})
      BY <2>2, AssistedReviewAssumption
    <3>2. Len(text) \in Nat
      BY <3>1
    <3>. QED
      BY <2>2, <3>2 DEF Size
  <2>. QED
    BY <2>1, <2>2 DEF Texts
<1>. QED
  BY <1>1, <1>2

\* An entry is made of a file that is there on one side at least.
LEMMA EntryTyped ==
  ASSUME SidesKnown, NEW p \in Paths,
         ~ (Text(base, p) = None /\ Text(inventory, p) = None)
  PROVE  EntryOf(p) \in Entries
<1> DEFINE before == Text(base, p)
           after == Text(inventory, p)
<1>1. before \in Texts /\ after \in Texts
  BY TextsTyped
<1> HIDE DEF before, after
<1>2. ChangedAfterLines(before, after) \subseteq Nat
  <2>1. CASE after = None
    <3>1. before # None
      BY <2>1 DEF before, after
    <3>. QED
      BY <2>1, <3>1 DEF ChangedAfterLines
  <2>2. CASE after # None /\ before = None
    <3>1. after \in Contents
      BY <1>1, <2>2 DEF Texts
    <3>2. after \in Seq({after[i] : i \in DOMAIN after})
      BY <3>1, AssistedReviewAssumption
    <3>3. Len(after) \in Nat
      BY <3>2
    <3>4. ChangedAfterLines(before, after) = 1 .. Len(after)
      BY <2>2 DEF ChangedAfterLines
    <3>. QED
      BY <3>3, <3>4
  <2>3. CASE after # None /\ before # None
    <3>1. <<before, after>> \in Contents \X Contents
      BY <1>1, <2>3 DEF Texts
    <3>2. Marks[<<before, after>>] \in SUBSET Nat
      BY <3>1, AssistedReviewAssumption
    <3>3. ChangedAfterLines(before, after) = Marks[<<before, after>>]
      BY <2>3 DEF ChangedAfterLines
    <3>. QED
      BY <3>2, <3>3
  <2>. QED
    BY <2>1, <2>2, <2>3
<1>. QED
  BY <1>1, <1>2 DEF EntryOf, FileEntry, Entries, before, after

\* A candidate becomes the next entry, or it is counted as omitted.
LEMMA SelectOne ==
  ASSUME SidesKnown, NEW chosen \in Selections, NEW p \in Paths,
         Len(chosen.files) <= MaxFiles
  PROVE  /\ Select(chosen, p) \in Selections
         /\ Len(Select(chosen, p).files) <= MaxFiles
         /\ \/ /\ Select(chosen, p).files = chosen.files
               /\ Select(chosen, p).omitted = chosen.omitted + 1
            \/ /\ Select(chosen, p).files = Append(chosen.files, EntryOf(p))
               /\ Select(chosen, p).omitted = chosen.omitted
<1> DEFINE before == Text(base, p)
           after == Text(inventory, p)
           size == Size(before) + Size(after)
           full == \/ Len(chosen.files) >= MaxFiles
                   \/ chosen.text + size > MaxText
                   \/ before = None /\ after = None
<1>1. size \in Nat
  BY TextsTyped
<1>2. /\ chosen.files \in Seq(Entries) /\ chosen.text \in Nat
      /\ chosen.omitted \in Nat /\ Len(chosen.files) \in Nat
      /\ MaxFiles \in Nat
  BY AssistedReviewAssumption DEF Selections
<1>3. CASE full
  <2>1. Select(chosen, p) = [chosen EXCEPT !.omitted = @ + 1]
    BY <1>3 DEF Select
  <2>. QED
    BY <1>2, <2>1 DEF Selections
<1>4. CASE ~full
  <2> DEFINE new == [chosen EXCEPT !.files = Append(@, EntryOf(p)),
                                   !.text = @ + size]
  <2>1. Select(chosen, p) = new
    BY <1>4 DEF Select, EntryOf
  <2>2. EntryOf(p) \in Entries
    BY <1>4, EntryTyped
  <2> HIDE DEF size
  <2>3. /\ new \in Selections
        /\ new.files = Append(chosen.files, EntryOf(p))
        /\ new.omitted = chosen.omitted
    <3>1. Append(chosen.files, EntryOf(p)) \in Seq(Entries)
      BY <1>2, <2>2, AppendProperties
    <3>2. chosen.text + size \in Nat
      BY <1>1, <1>2
    <3>. QED
      BY <1>2, <3>1, <3>2, chosen \in Selections DEF Selections
  <2>4. Len(Append(chosen.files, EntryOf(p))) = Len(chosen.files) + 1
    BY <1>2, <2>2, AppendProperties
  <2>5. ~ (Len(chosen.files) >= MaxFiles)
    BY <1>4
  <2>6. Len(chosen.files) + 1 <= MaxFiles
    BY <1>2, <2>5
  <2>. QED
    BY <2>1, <2>3, <2>4, <2>6
<1>. QED
  BY <1>3, <1>4

-----------------------------------------------------------------------------
(* The order of the selection                                              *)

\* A set of natural numbers that is not empty has a smallest element.
LEMMA Smallest ==
  ASSUME NEW T \in SUBSET Nat, T # {}
  PROVE  \E m \in T : \A k \in T : m <= k
<1> DEFINE R == OpToRel(<, Nat)
<1>1. IsWellFoundedOn(R, Nat)
  BY NatLessThanWellFounded
<1> HIDE DEF R
<1>2. R = {ss \in Nat \X Nat : ss[1] < ss[2]}
  BY DEF R, OpToRel
<1>3. PICK m \in T : \A k \in T : ~ (<<k, m>> \in R)
  BY <1>1, WFMin
<1>4. ASSUME NEW k \in T PROVE m <= k
  <2>1. <<k, m>> \in Nat \X Nat /\ <<k, m>>[1] = k /\ <<k, m>>[2] = m
    OBVIOUS
  <2>2. ~ (k < m)
    BY <1>2, <1>3, <2>1
  <2>. QED
    BY <2>2
<1>. QED
  BY <1>4

\* What a function that counts the turns has at one of them.
Continued(f, n) ==
    IF n = 0 THEN [files |-> <<>>, text |-> 0, omitted |-> 0]
    ELSE IF Candidate(n) THEN Select(f[n - 1], PathAt(n))
    ELSE f[n - 1]

\* There is such a function up to every turn: otherwise there would be a first
\* one without, and the function up to the turn before could be continued.
LEMMA SelectionExists ==
  ASSUME NEW last \in Nat
  PROVE  \E f : f = [n \in 0 .. last |-> Continued(f, n)]
<1> DEFINE Exists(k) == \E f : f = [n \in 0 .. k |-> Continued(f, n)]
           T == {k \in Nat : ~Exists(k)}
<1>1. ASSUME T # {} PROVE FALSE
  <2>1. PICK k \in T : \A j \in T : k <= j
    BY <1>1, Smallest
  <2>2. k # 0
    <3> DEFINE f == [n \in 0 .. 0 |-> Continued(<<>>, 0)]
    <3>1. f = [n \in 0 .. 0 |-> Continued(f, n)]
      BY DEF Continued
    <3>2. Exists(0)
      BY <3>1
    <3>. QED
      BY <3>2
  <2>3. k - 1 \in Nat /\ ~ (k <= k - 1)
    BY <2>2
  <2>4. Exists(k - 1)
    BY <2>1, <2>3
  <2>5. PICK f : f = [n \in 0 .. k - 1 |-> Continued(f, n)]
    BY <2>4
  <2> DEFINE g == [n \in 0 .. k |-> IF n = k THEN Continued(f, k) ELSE f[n]]
  <2>6. ASSUME NEW n \in 0 .. k PROVE g[n] = Continued(g, n)
    <3>1. CASE n = 0
      BY <2>2, <2>3, <2>5, <3>1 DEF Continued
    <3>2. CASE n # 0
      <4>1. n - 1 \in 0 .. k /\ n - 1 # k
        BY <3>2
      <4>2. g[n - 1] = f[n - 1]
        BY <4>1
      <4>3. Continued(g, n) = Continued(f, n)
        BY <4>2, <3>2 DEF Continued
      <4>4. n # k => n \in 0 .. k - 1
        BY <2>3
      <4>5. n # k => f[n] = Continued(f, n)
        BY <2>5, <4>4
      <4>. QED
        BY <4>3, <4>5
    <3>. QED
      BY <3>1, <3>2
  <2>7. g = [n \in 0 .. k |-> Continued(g, n)]
    BY <2>6
  <2>8. Exists(k)
    BY <2>7
  <2>. QED
    BY <2>8
<1>. QED
  BY <1>1

\* Hence the selection is what its definition says, turn for turn.
LEMMA ChosenTurnByTurn ==
  \A n \in 0 .. LastTurn : ChosenUpTo[n] = Continued(ChosenUpTo, n)
<1> DEFINE IsIt(f) == f = [n \in 0 .. LastTurn |-> Continued(f, n)]
<1>1. LastTurn \in Nat
  BY AssistedReviewAssumption DEF LastTurn
<1>2. \E f : IsIt(f)
  BY <1>1, SelectionExists
<1>3. ChosenUpTo = CHOOSE f : IsIt(f)
  BY DEF ChosenUpTo, Continued
<1>4. IsIt(ChosenUpTo)
  BY <1>2, <1>3
<1> HIDE DEF IsIt
<1>5. ChosenUpTo = [n \in 0 .. LastTurn |-> Continued(ChosenUpTo, n)]
  BY <1>4 DEF IsIt
<1>. QED
  BY <1>5

\* What is chosen by turn n: entries of both sides, within the budget, and as
\* long as none was omitted an entry for every candidate so far.
GoodUpTo(n) ==
    LET chosen == ChosenUpTo[n]
    IN  /\ chosen \in Selections
        /\ Len(chosen.files) <= MaxFiles
        /\ \A i \in DOMAIN chosen.files :
              \E p \in Paths : chosen.files[i] = EntryOf(p)
        /\ chosen.omitted = 0 =>
              \A m \in 1 .. n : Candidate(m) =>
                 \E i \in DOMAIN chosen.files :
                    chosen.files[i] = EntryOf(PathAt(m))

\* The next turn keeps that.
LEMMA GoodTurn ==
  ASSUME SidesKnown, Touched(changes.set) \subseteq Paths,
         NEW n \in 1 .. LastTurn, GoodUpTo(n - 1)
  PROVE  GoodUpTo(n)
<1> DEFINE old == ChosenUpTo[n - 1]
           new == ChosenUpTo[n]
<1>0. LastTurn \in Nat /\ n \in Nat /\ n - 1 \in Nat /\ n # 0
  BY AssistedReviewAssumption DEF LastTurn
<1>1. new = IF Candidate(n) THEN Select(old, PathAt(n)) ELSE old
  BY <1>0, ChosenTurnByTurn DEF Continued
<1>2. /\ old \in Selections /\ Len(old.files) <= MaxFiles
      /\ \A i \in DOMAIN old.files : \E p \in Paths : old.files[i] = EntryOf(p)
      /\ old.omitted = 0 =>
            \A m \in 1 .. n - 1 : Candidate(m) =>
               \E i \in DOMAIN old.files : old.files[i] = EntryOf(PathAt(m))
  BY DEF GoodUpTo
<1> HIDE DEF old, new
<1>3. \A m \in 1 .. n : m = n \/ m \in 1 .. n - 1
  BY <1>0
<1>4. CASE ~Candidate(n)
  <2>1. new = old
    BY <1>1, <1>4
  <2>2. GoodUpTo(n) <=>
          /\ new \in Selections
          /\ Len(new.files) <= MaxFiles
          /\ \A i \in DOMAIN new.files :
                \E p \in Paths : new.files[i] = EntryOf(p)
          /\ new.omitted = 0 =>
                \A m \in 1 .. n : Candidate(m) =>
                   \E i \in DOMAIN new.files :
                      new.files[i] = EntryOf(PathAt(m))
    BY DEF GoodUpTo, new
  <2>. QED
    BY <1>2, <1>3, <1>4, <2>1, <2>2
<1>5. CASE Candidate(n)
  <2> DEFINE path == PathAt(n)
  <2>1. path \in Paths
    <3>1. CASE n <= LastPath
      BY <1>0, <3>1, AssistedReviewAssumption DEF PathAt, Paths
    <3>2. CASE ~ (n <= LastPath)
      BY <1>0, <3>2, AssistedReviewAssumption DEF PathAt, Paths, LastTurn
    <3>. QED
      BY <3>1, <3>2
  <2>2. new = Select(old, path)
    BY <1>1, <1>5
  <2> HIDE DEF path
  <2>3. /\ new \in Selections
        /\ Len(new.files) <= MaxFiles
        /\ \/ new.files = old.files /\ new.omitted = old.omitted + 1
           \/ /\ new.files = Append(old.files, EntryOf(path))
              /\ new.omitted = old.omitted
    BY <1>2, <2>1, <2>2, SelectOne
  <2>4. /\ old.omitted \in Nat /\ old.files \in Seq(Entries)
        /\ DOMAIN old.files = 1 .. Len(old.files) /\ Len(old.files) \in Nat
    BY <1>2 DEF Selections
  <2>5. CASE new.files = old.files /\ new.omitted = old.omitted + 1
    <3>1. new.omitted # 0
      BY <2>4, <2>5
    <3>. QED
      BY <1>2, <2>3, <2>5, <3>1 DEF GoodUpTo, new
  <2>6. CASE /\ new.files = Append(old.files, EntryOf(path))
             /\ new.omitted = old.omitted
    <3> DEFINE entry == EntryOf(path)
               more == Append(old.files, entry)
    <3> HIDE DEF entry
    <3>1. /\ DOMAIN more = 1 .. Len(old.files) + 1
          /\ \A i \in DOMAIN old.files :
                i \in DOMAIN more /\ more[i] = old.files[i]
          /\ more[Len(old.files) + 1] = entry
      BY <2>4
    <3> HIDE DEF more
    <3>2. new.files = more /\ entry = EntryOf(path)
      BY <2>6 DEF more, entry
    <3>3. Len(old.files) + 1 \in DOMAIN more
      BY <2>4, <3>1
    <3>4. \A i \in DOMAIN more : i \in DOMAIN old.files \/ more[i] = entry
      BY <2>4, <3>1
    <3>5. \A i \in DOMAIN more : \E p \in Paths : more[i] = EntryOf(p)
      BY <1>2, <2>1, <3>1, <3>2, <3>4
    <3>6. ASSUME new.omitted = 0, NEW m \in 1 .. n, Candidate(m)
          PROVE  \E i \in DOMAIN more : more[i] = EntryOf(PathAt(m))
      <4>1. CASE m = n
        BY <3>1, <3>2, <3>3, <4>1 DEF path
      <4>2. CASE m \in 1 .. n - 1
        <5>1. PICK i \in DOMAIN old.files : old.files[i] = EntryOf(PathAt(m))
          BY <1>2, <2>6, <3>6, <4>2
        <5>. QED
          BY <3>1, <5>1
      <4>. QED
        BY <1>3, <4>1, <4>2
    <3>. QED
      BY <2>3, <3>2, <3>5, <3>6 DEF GoodUpTo, new
  <2>. QED
    BY <2>3, <2>5, <2>6
<1>. QED
  BY <1>4, <1>5

\* Hence the whole selection is good.
LEMMA ChosenGood ==
  ASSUME SidesKnown, Touched(changes.set) \subseteq Paths
  PROVE  \A n \in 0 .. LastTurn : GoodUpTo(n)
<1> DEFINE T == {n \in 0 .. LastTurn : ~GoodUpTo(n)}
<1>0. LastTurn \in Nat /\ MaxFiles \in Nat
  BY AssistedReviewAssumption DEF LastTurn
<1>1. ASSUME T # {} PROVE FALSE
  <2>1. PICK n \in T : \A k \in T : n <= k
    <3>1. T \in SUBSET Nat
      BY <1>0
    <3> HIDE DEF T
    <3>. QED
      BY <1>1, <3>1, Smallest
  <2>2. GoodUpTo(0)
    <3> DEFINE none == [files |-> <<>>, text |-> 0, omitted |-> 0]
    <3>1. ChosenUpTo[0] = none
      BY <1>0, ChosenTurnByTurn DEF Continued
    <3>2. none \in Selections /\ Len(none.files) <= MaxFiles
      BY <1>0, EmptySeq DEF Selections
    <3>3. DOMAIN none.files = {} /\ 1 .. 0 = {}
      OBVIOUS
    <3>. QED
      BY <3>1, <3>2, <3>3 DEF GoodUpTo
  <2>3. n \in 1 .. LastTurn /\ n - 1 \in 0 .. LastTurn /\ ~ (n <= n - 1)
    <3>1. n # 0
      BY <2>1, <2>2
    <3>. QED
      BY <1>0, <3>1
  <2>4. GoodUpTo(n - 1)
    BY <2>1, <2>3
  <2>5. GoodUpTo(n)
    BY <2>3, <2>4, GoodTurn
  <2>. QED
    BY <2>5
<1>. QED
  BY <1>1

-----------------------------------------------------------------------------
(* What was collected                                                      *)

\* A missing file has no text, as one that is not there.
LEMMA NotedText ==
  ASSUME NEW p \in Paths
  PROVE  Text([q \in Paths |-> Noted(q)], p) = Text(tree, p)
  BY AssistedReviewAssumption DEF Text, Noted

\* What a change set touches does not depend on the renames that Git finds: the
\* old and the new path of one are there with and without it.
LEMMA TouchedIs ==
  ASSUME NEW set \in C!ChangeSets(head, tracked, tree)
  PROVE  Touched(set) =
           C!Modified(head, tracked, tree)
             \cup (C!Listed(tracked, tree) \ C!Committed(head))
             \cup C!Created(head, tracked, tree)
             \cup (C!Committed(head) \ C!Listed(tracked, tree))
             \cup C!Removed(head, tracked, tree)
<1> DEFINE listed == C!Listed(tracked, tree)
           committed == C!Committed(head)
           removed == C!Removed(head, tracked, tree)
           created == C!Created(head, tracked, tree)
           edited == C!Modified(head, tracked, tree)
<1>1. PICK f \in C!Renamings(head, tracked, tree) :
        set = [renames |-> f,
               modified |-> edited,
               deleted |-> ((committed \ listed) \cup removed) \ DOMAIN f,
               added |-> ((listed \ committed) \cup created)
                            \ {f[p] : p \in DOMAIN f}]
  BY DEF C!ChangeSets
<1>2. PICK old \in SUBSET removed : f \in [old -> created]
  BY DEF C!Renamings
<1>3. DOMAIN f \subseteq removed /\ {f[p] : p \in DOMAIN f} \subseteq created
  BY <1>2
<1> DEFINE targets == {f[p] : p \in DOMAIN f}
<1>4. Touched(set) = edited
          \cup (((listed \ committed) \cup created) \ targets)
          \cup (((committed \ listed) \cup removed) \ DOMAIN f)
          \cup DOMAIN f \cup targets
  BY <1>1 DEF Touched
<1> HIDE DEF targets
<1>. QED
  BY <1>3, <1>4 DEF targets

\* Git's change set speaks of the files, and unless a tracked one is missing it
\* has every file that HEAD and the working tree do not agree about.
LEMMA ChangeSetTouches ==
  ASSUME tracked \subseteq Paths,
         NEW set \in C!ChangeSets(head, tracked, tree)
  PROVE  /\ Touched(set) \subseteq Paths
         /\ \A p \in Paths :
               /\ head[p] # tree[p]
               /\ p \in tracked => tree[p] # Absent
               => p \in Touched(set)
  BY TouchedIs
  DEF C!Modified, C!Listed, C!Committed, C!Removed, C!Created

\* A packet that is built of what was collected.
LEMMA PacketTyped ==
  ASSUME TypeOK, phase = "build"
  PROVE  /\ SidesKnown
         /\ Packet \in Packets
         /\ Len(Packet.files) <= MaxFiles
         /\ \A i \in DOMAIN Packet.files :
               \E p \in Paths : Packet.files[i] = EntryOf(p)
<1>1. /\ SidesKnown /\ Touched(changes.set) \subseteq Paths
      /\ changes.base_commit \in Commits
      /\ registry \in Registries
  BY AssistedReviewAssumption DEF TypeOK, SidesKnown
<1>2. LastTurn \in 0 .. LastTurn
  BY AssistedReviewAssumption DEF LastTurn
<1>3. GoodUpTo(LastTurn)
  BY <1>1, <1>2, ChosenGood
<1>4. /\ Chosen \in Selections /\ Len(Chosen.files) <= MaxFiles
      /\ \A i \in DOMAIN Chosen.files :
            \E p \in Paths : Chosen.files[i] = EntryOf(p)
  BY <1>3 DEF GoodUpTo, Chosen
<1>5. \A p \in Paths : Text(inventory, p) \in Texts
  BY <1>1, TextsTyped
<1>6. Chosen.files \in Seq(Entries) /\ Chosen.omitted \in Nat
  BY <1>4 DEF Selections
<1>7. Packet.files = Chosen.files
  BY DEF Packet
<1>8. Packet \in Packets
  BY <1>1, <1>5, <1>6 DEF Packet, Packets
<1>. QED
  BY <1>1, <1>4, <1>7, <1>8

-----------------------------------------------------------------------------
(* The inductive invariant of the commands                                 *)

WorkingTreeSeen == tree \in during

\* What was collected of the working tree was all there at one instant: the
\* files are read together.
CollectedWasSeen ==
    phase \in {"changes", "build"} =>
        \E t \in during : \A p \in Paths : Text(inventory, p) = Text(t, p)

\* As long as nothing changes, what was collected is what is there.
CollectedIsCurrent ==
    still =>
        /\ phase \in {"tree", "changes", "build"} => base = head
        /\ phase \in {"changes", "build"} =>
              inventory = [p \in Paths |-> Noted(p)]
        /\ phase = "build" =>
              /\ changes.base_commit = head
              /\ changes.set \in C!ChangeSets(head, tracked, tree)

AssistInv ==
    /\ TypeOK
    /\ WorkingTreeSeen
    /\ CollectedWasSeen
    /\ CollectedIsCurrent
    /\ AnchoredIsExact

LEMMA AssistInvInit == Init => AssistInv
<1> SUFFICES ASSUME Init PROVE AssistInv
  OBVIOUS
<1>1. TypeOK
  BY AssistedReviewAssumption DEF Init, TypeOK, Phases
<1>2. /\ WorkingTreeSeen /\ CollectedWasSeen /\ CollectedIsCurrent
      /\ AnchoredIsExact
  BY DEF Init, WorkingTreeSeen, CollectedWasSeen, CollectedIsCurrent,
         AnchoredIsExact
<1>. QED
  BY <1>1, <1>2 DEF AssistInv

\* The end of a command that is not anchored, and the begin of the next one.
LEMMA NotAnchored ==
  ASSUME phase' = "done" => report'.status # "anchored"
  PROVE  AnchoredIsExact'
  BY DEF AnchoredIsExact

LEMMA NothingCollected ==
  ASSUME phase' \in {"base", "done"}
  PROVE  CollectedWasSeen' /\ CollectedIsCurrent'
  BY DEF CollectedWasSeen, CollectedIsCurrent

\* A response that is judged anchored quotes the packet it is judged by.
LEMMA ValidateExact ==
  ASSUME AssistInv, Validate
  PROVE  report' \in Reports /\ AnchoredIsExact'
<1> DEFINE texts == [p \in Paths |-> Text(inventory, p)]
<1>0. TypeOK /\ phase = "build" /\ CollectedWasSeen /\ CollectedIsCurrent
      /\ UNCHANGED <<worldVars, packet, historyVars>>
  BY DEF AssistInv, Validate
<1>1. PICK questions \in Responses, wellFormed \in BOOLEAN, named \in BOOLEAN :
        report' = IF ~PacketComplete \/ (named /\ packet # Packet)
                  THEN Rejected("stale")
                  ELSE Judged(Packet.files, questions, wellFormed /\ named)
  BY DEF Validate
<1> DEFINE judged == Judged(Packet.files, questions, wellFormed /\ named)
           valid == {q \in questions : QuestionHolds(Packet.files, q)}
<1>2. /\ judged.questions = valid /\ judged.exit \in {0, 2}
      /\ judged.status \in {"anchored", "unverified"}
      /\ judged.status = "anchored" => named
      /\ judged = [exit |-> judged.exit, status |-> judged.status,
                   questions |-> judged.questions]
  BY DEF Judged
<1>3. report' \in Reports
  <2>1. Rejected("stale") \in Reports
    BY DEF Rejected, Reports
  <2>2. valid \in SUBSET UNION Responses
    OBVIOUS
  <2> HIDE DEF judged, valid
  <2>3. judged \in Reports
    BY <1>2, <2>2 DEF Reports
  <2>. QED
    BY <1>1, <2>1, <2>3 DEF judged
<1>4. ASSUME report'.status = "anchored"
      PROVE  /\ \E t \in during :
                   packet.snapshot = [p \in Paths |-> Text(t, p)]
             /\ \A q \in report'.questions :
                   /\ \A a \in q : AnchorHolds(packet.files, a)
                   /\ \A a \in After(q) : Quoted(packet.snapshot, a)
                   /\ still => \A a \in Before(q) : Quoted(head, a)
  <2>1. report' = judged /\ named /\ packet = Packet
    <3>1. Rejected("stale").status # "anchored"
      BY DEF Rejected
    <3>2. report' = judged /\ ~(named /\ packet # Packet)
      BY <1>1, <1>4, <3>1
    <3>. QED
      BY <1>2, <1>4, <3>2
  <2>2. /\ packet.snapshot = texts /\ packet.files = Packet.files
        /\ report'.questions = valid
    BY <1>2, <2>1 DEF Packet
  <2>3. \E t \in during : packet.snapshot = [p \in Paths |-> Text(t, p)]
    BY <1>0, <2>2 DEF CollectedWasSeen
  <2>4. \A i \in DOMAIN packet.files :
          \E p \in Paths : packet.files[i] = EntryOf(p)
    BY <1>0, <2>2, PacketTyped
  <2>5. still => base = head
    BY <1>0 DEF CollectedIsCurrent
  <2>6. ASSUME NEW q \in valid
        PROVE  /\ \A a \in q : AnchorHolds(packet.files, a)
               /\ \A a \in After(q) : Quoted(packet.snapshot, a)
               /\ \A a \in Before(q) : Quoted(base, a)
    <3>1. \A a \in q : AnchorHolds(packet.files, a)
      BY <2>2 DEF QuestionHolds
    <3>2. ASSUME NEW a \in q
          PROVE  \E p \in Paths :
                   LET text == SideOf(EntryOf(p), a.side)
                   IN  /\ p = a.path
                       /\ text # None
                       /\ a.end_line <= Len(text)
                       /\ a.quote = SubSeq(text, a.start_line, a.end_line)
      <4>1. PICK i \in DOMAIN packet.files :
              LET text == SideOf(packet.files[i], a.side)
              IN  /\ packet.files[i].path = a.path
                  /\ text # None
                  /\ a.end_line <= Len(text)
                  /\ a.quote = SubSeq(text, a.start_line, a.end_line)
        BY <3>1 DEF AnchorHolds
      <4>2. PICK p \in Paths : packet.files[i] = EntryOf(p)
        BY <2>4
      <4>3. EntryOf(p).path = p
        BY DEF EntryOf, FileEntry
      <4>. QED
        BY <4>1, <4>2, <4>3
    <3>3. ASSUME NEW a \in After(q) PROVE Quoted(packet.snapshot, a)
      <4>1. a \in q /\ a.side = "after"
        BY DEF After
      <4>2. PICK p \in Paths :
              LET text == SideOf(EntryOf(p), a.side)
              IN  /\ p = a.path
                  /\ text # None
                  /\ a.end_line <= Len(text)
                  /\ a.quote = SubSeq(text, a.start_line, a.end_line)
        BY <3>2, <4>1
      <4>3. SideOf(EntryOf(p), a.side) = Text(inventory, p)
        BY <4>1 DEF SideOf, EntryOf, FileEntry
      <4>4. texts[p] = Text(inventory, p)
        OBVIOUS
      <4>5. Text(inventory, p) # None => Text(inventory, p) \in Contents
        BY DEF Text
      <4>. QED
        BY <2>2, <4>2, <4>3, <4>4, <4>5 DEF Quoted
    <3>4. ASSUME NEW a \in Before(q) PROVE Quoted(base, a)
      <4>1. a \in q /\ a.side = "before"
        BY DEF Before
      <4>2. PICK p \in Paths :
              LET text == SideOf(EntryOf(p), a.side)
              IN  /\ p = a.path
                  /\ text # None
                  /\ a.end_line <= Len(text)
                  /\ a.quote = SubSeq(text, a.start_line, a.end_line)
        BY <3>2, <4>1
      <4>3. SideOf(EntryOf(p), a.side) = Text(base, p)
        BY <4>1 DEF SideOf, EntryOf, FileEntry
      <4>4. Text(base, p) # None =>
               Text(base, p) \in Contents /\ Text(base, p) = base[p]
        BY DEF Text
      <4>. QED
        BY <4>2, <4>3, <4>4 DEF Quoted
    <3>. QED
      BY <3>1, <3>3, <3>4
  <2> HIDE DEF valid
  <2>. QED
    BY <2>2, <2>3, <2>5, <2>6
<1>5. AnchoredIsExact'
  <2>1. UNCHANGED <<head, packet, during, still>>
    BY <1>0 DEF worldVars, historyVars
  <2>. QED
    BY <1>4, <2>1 DEF AnchoredIsExact
<1>. QED
  BY <1>3, <1>5

\* One step of a command or of its environment.
LEMMA AssistInvNext == AssistInv /\ [Next]_vars => AssistInv'
<1> SUFFICES ASSUME AssistInv, [Next]_vars
             PROVE  AssistInv'
  OBVIOUS
<1> USE DEF worldVars, readVars, historyVars
<1>0. /\ TypeOK /\ WorkingTreeSeen /\ CollectedWasSeen /\ CollectedIsCurrent
      /\ AnchoredIsExact
  BY DEF AssistInv
<1>1. CASE CollectBase
  <2>1. TypeOK'
    BY <1>0, <1>1 DEF CollectBase, TypeOK, Phases
  <2>2. WorkingTreeSeen'
    BY <1>0, <1>1 DEF CollectBase, WorkingTreeSeen
  <2>3. CollectedWasSeen' /\ CollectedIsCurrent'
    BY <1>1 DEF CollectBase, CollectedWasSeen, CollectedIsCurrent
  <2>4. AnchoredIsExact'
    BY <1>1, NotAnchored DEF CollectBase
  <2>. QED
    BY <2>1, <2>2, <2>3, <2>4 DEF AssistInv
<1>2. CASE Collect
  <2>0. inventory' = [p \in Paths |-> Noted(p)]
    BY <1>2 DEF Collect
  <2>1. TypeOK'
    <3>1. \A p \in Paths : Noted(p) \in States \cup {Missing}
      BY <1>0 DEF TypeOK, Noted
    <3>2. inventory' \in Inventories
      BY <2>0, <3>1 DEF Inventories
    <3>. QED
      BY <1>0, <1>2, <3>2 DEF Collect, TypeOK, Phases
  <2>2. WorkingTreeSeen'
    BY <1>0, <1>2 DEF Collect, WorkingTreeSeen
  <2>3. CollectedWasSeen'
    <3>1. \A p \in Paths : Text(inventory', p) = Text(tree, p)
      BY <2>0, NotedText
    <3>2. tree \in during /\ during' = during
      BY <1>0, <1>2 DEF Collect, WorkingTreeSeen
    <3>. QED
      BY <3>1, <3>2 DEF CollectedWasSeen
  <2>4. CollectedIsCurrent'
    BY <1>0, <1>2, <2>0 DEF Collect, CollectedIsCurrent, Noted
  <2>5. AnchoredIsExact'
    BY <1>2, NotAnchored DEF Collect
  <2>. QED
    BY <2>1, <2>2, <2>3, <2>4, <2>5 DEF AssistInv
<1>3. CASE ListChanges
  <2>0. PICK set \in C!ChangeSets(head, tracked, tree) :
          changes' = [base_commit |-> head, set |-> set]
    BY <1>3 DEF ListChanges
  <2>1. TypeOK'
    <3>1. Touched(changes'.set) \subseteq Paths
      BY <1>0, <2>0, ChangeSetTouches DEF TypeOK
    <3>2. changes'.base_commit \in Commits
      BY <1>0, <2>0 DEF TypeOK
    <3>. QED
      BY <1>0, <1>3, <3>1, <3>2 DEF ListChanges, TypeOK, Phases
  <2>2. WorkingTreeSeen'
    BY <1>0, <1>3 DEF ListChanges, WorkingTreeSeen
  <2>3. CollectedWasSeen'
    BY <1>0, <1>3 DEF ListChanges, CollectedWasSeen
  <2>4. CollectedIsCurrent'
    <3>1. changes'.base_commit = head /\ changes'.set = set
      BY <2>0
    <3>2. UNCHANGED <<still, head, tracked, tree, base, inventory>>
      BY <1>3 DEF ListChanges
    <3>3. still => base = head /\ inventory = [p \in Paths |-> Noted(p)]
      BY <1>0, <1>3 DEF ListChanges, CollectedIsCurrent
    <3>. QED
      BY <2>0, <3>1, <3>2, <3>3 DEF CollectedIsCurrent, Noted
  <2>5. AnchoredIsExact'
    BY <1>3, NotAnchored DEF ListChanges
  <2>. QED
    BY <2>1, <2>2, <2>3, <2>4, <2>5 DEF AssistInv
<1>4. CASE Prepare
  <2>1. TypeOK'
    <3>1. packet' \in Packets /\ Len(packet'.files) <= MaxFiles
      BY <1>0, <1>4, PacketTyped DEF Prepare
    <3>. QED
      BY <1>0, <1>4, <3>1 DEF Prepare, Forget, TypeOK, Phases
  <2>2. WorkingTreeSeen'
    BY <1>4 DEF Prepare, WorkingTreeSeen
  <2>3. CollectedWasSeen' /\ CollectedIsCurrent'
    BY <1>4, NothingCollected DEF Prepare
  <2>4. AnchoredIsExact'
    BY <1>4, NotAnchored DEF Prepare
  <2>. QED
    BY <2>1, <2>2, <2>3, <2>4 DEF AssistInv
<1>5. CASE Validate
  <2>0. report' \in Reports /\ AnchoredIsExact'
    BY <1>5, ValidateExact
  <2>1. TypeOK'
    BY <1>0, <1>5, <2>0 DEF Validate, Forget, TypeOK, Phases
  <2>2. WorkingTreeSeen'
    BY <1>0, <1>5 DEF Validate, WorkingTreeSeen
  <2>3. CollectedWasSeen' /\ CollectedIsCurrent'
    BY <1>5, NothingCollected DEF Validate
  <2>. QED
    BY <2>0, <2>1, <2>2, <2>3 DEF AssistInv
<1>6. CASE Fail
  <2>0. report' \in Reports /\ report'.status # "anchored"
    BY <1>6 DEF Fail, Rejected, Reports
  <2>1. TypeOK'
    BY <1>0, <1>6, <2>0 DEF Fail, Forget, TypeOK, Phases
  <2>2. WorkingTreeSeen'
    BY <1>0, <1>6 DEF Fail, WorkingTreeSeen
  <2>3. CollectedWasSeen' /\ CollectedIsCurrent'
    BY <1>6, NothingCollected DEF Fail
  <2>4. AnchoredIsExact'
    BY <2>0, NotAnchored
  <2>. QED
    BY <2>1, <2>2, <2>3, <2>4 DEF AssistInv
<1>7. CASE Change
  <2>0. /\ phase # "done" /\ still' = FALSE /\ during' = during \cup {tree'}
        /\ UNCHANGED <<expected, command, phase, readVars, packet, report>>
    BY <1>7 DEF Change
  <2>1. /\ tree' \in [Paths -> States] /\ tracked' \subseteq Paths
        /\ head' \in Commits /\ registry' \in Registries
    BY <1>0, <1>7 DEF Change, TypeOK
  <2>2. TypeOK'
    BY <1>0, <2>0, <2>1 DEF TypeOK
  <2>3. WorkingTreeSeen' /\ CollectedIsCurrent'
    BY <2>0 DEF WorkingTreeSeen, CollectedIsCurrent
  <2>4. CollectedWasSeen'
    BY <1>0, <2>0 DEF CollectedWasSeen
  <2>5. AnchoredIsExact'
    BY <2>0, NotAnchored
  <2>. QED
    BY <2>2, <2>3, <2>4, <2>5 DEF AssistInv
<1>8. CASE UNCHANGED vars
  <2>1. TypeOK'
    BY <1>0, <1>8 DEF vars, TypeOK
  <2>2. WorkingTreeSeen' /\ CollectedWasSeen'
    BY <1>0, <1>8 DEF vars, WorkingTreeSeen, CollectedWasSeen
  <2>3. CollectedIsCurrent'
    BY <1>0, <1>8 DEF vars, CollectedIsCurrent, Noted
  <2>4. AnchoredIsExact'
    BY <1>0, <1>8 DEF vars, AnchoredIsExact
  <2>. QED
    BY <2>1, <2>2, <2>3, <2>4 DEF AssistInv
<1>. QED
  BY <1>1, <1>2, <1>3, <1>4, <1>5, <1>6, <1>7, <1>8 DEF Next

LEMMA AssistInvariance == Spec => []AssistInv
  BY AssistInvInit, AssistInvNext, PTL DEF Spec

-----------------------------------------------------------------------------
(* What a packet and a validation are worth                                *)

\* If nothing was omitted, each candidate has its entry.
LEMMA CandidatesHaveEntries ==
  ASSUME TypeOK, phase = "build", Packet.omitted = 0,
         NEW p \in Paths,
         p \in Touched(changes.set) \cup Context(changes.set, inventory)
  PROVE  \E i \in DOMAIN Chosen.files : Chosen.files[i] = EntryOf(p)
<1>1. /\ SidesKnown /\ Touched(changes.set) \subseteq Paths
      /\ LastPath \in Nat /\ LastTurn = LastPath + LastPath
  BY PacketTyped, AssistedReviewAssumption DEF TypeOK, LastTurn
<1>2. GoodUpTo(LastTurn)
  BY <1>1, ChosenGood
<1>3. Chosen.omitted = 0
  BY DEF Packet
<1>4. \A m \in 1 .. LastTurn : Candidate(m) =>
         \E i \in DOMAIN Chosen.files : Chosen.files[i] = EntryOf(PathAt(m))
  BY <1>2, <1>3 DEF GoodUpTo, Chosen
<1>5. p \in 1 .. LastPath
  BY DEF Paths
<1>6. CASE p \in Touched(changes.set)
  <2>1. p \in 1 .. LastTurn /\ PathAt(p) = p /\ Candidate(p)
    BY <1>1, <1>5, <1>6 DEF PathAt, Candidate
  <2>. QED
    BY <1>4, <2>1
<1>7. CASE p \in Context(changes.set, inventory)
  <2> DEFINE m == LastPath + p
  <2>1. m \in 1 .. LastTurn /\ ~ (m <= LastPath) /\ m - LastPath = p
    BY <1>1, <1>5
  <2> HIDE DEF m
  <2>2. PathAt(m) = p /\ Candidate(m)
    BY <1>7, <2>1 DEF PathAt, Candidate
  <2>. QED
    BY <1>4, <2>1, <2>2
<1>. QED
  BY <1>6, <1>7

\* What was read is there when it is used, and every packet is a packet.
THEOREM AssistTypeCorrect == Spec => []TypeOK
  BY AssistInvariance, PTL DEF AssistInv

\* A packet that is called complete shows every file that differs and its
\* neighbours, if nothing changed while it was built.
THEOREM CompleteShowsAll == Spec => []CompletePacketShowsAll
<1>1. AssistInv => CompletePacketShowsAll
  <2> SUFFICES
        ASSUME AssistInv, phase = "build", still, PacketComplete,
               NEW p \in Paths,
               \/ head[p] # tree[p]
               \/ /\ tree[p] # Absent
                  /\ \E d \in Paths : head[d] # tree[d] /\ Dir[d] = Dir[p]
        PROVE  \E i \in DOMAIN Chosen.files :
                  /\ Chosen.files[i].path = p
                  /\ Chosen.files[i].before = Text(head, p)
                  /\ Chosen.files[i].after = Text(tree, p)
    BY DEF CompletePacketShowsAll
  <2>1. /\ TypeOK /\ base = head /\ inventory = [q \in Paths |-> Noted(q)]
        /\ changes.set \in C!ChangeSets(head, tracked, tree)
    BY DEF AssistInv, CollectedIsCurrent
  <2>2. /\ Packet.omitted = 0
        /\ \A q \in Paths : inventory[q] \notin {Undecodable, Missing}
    BY DEF PacketComplete, CollectionComplete
  <2>3. \A q \in Paths : /\ q \in tracked => tree[q] # Absent
                         /\ tree[q] \in Contents \cup {Absent}
    BY <2>1, <2>2 DEF TypeOK, States, Noted
  <2>4. \A q \in Paths : head[q] # tree[q] => q \in Touched(changes.set)
    BY <2>1, <2>3, ChangeSetTouches DEF TypeOK
  <2>5. Text(inventory, p) = Text(tree, p)
    BY <2>1, NotedText
  <2>6. tree[p] # Absent => Text(tree, p) # None
    BY <2>3, AssistedReviewAssumption DEF Text
  <2>7. p \in Touched(changes.set) \cup Context(changes.set, inventory)
    BY <2>4, <2>5, <2>6 DEF Context
  <2>8. PICK i \in DOMAIN Chosen.files : Chosen.files[i] = EntryOf(p)
    BY <2>1, <2>2, <2>7, CandidatesHaveEntries
  <2>9. /\ EntryOf(p).path = p
        /\ EntryOf(p).before = Text(head, p)
        /\ EntryOf(p).after = Text(tree, p)
    BY <2>1, <2>5 DEF EntryOf, FileEntry
  <2>. QED
    BY <2>8, <2>9
<1>. QED
  BY <1>1, AssistInvariance, PTL

\* Whatever renames Git finds between the same commit, index and tree, the files
\* that are candidates for the packet are the same: how Git pairs the files does
\* not decide what a packet shows (touched and context_paths of
\* build_review_packet).
THEOREM RenamesLeaveCandidates ==
  ASSUME NEW one \in C!ChangeSets(head, tracked, tree),
         NEW other \in C!ChangeSets(head, tracked, tree)
  PROVE  /\ Touched(one) = Touched(other)
         /\ Context(one, inventory) = Context(other, inventory)
<1>1. Touched(one) = Touched(other)
  BY TouchedIs
<1>. QED
  BY <1>1 DEF Context

\* What is anchored is exact.
THEOREM AnchoredExact == Spec => []AnchoredIsExact
  BY AssistInvariance, PTL DEF AssistInv

=============================================================================
