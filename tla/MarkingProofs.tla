---------------------------- MODULE MarkingProofs ----------------------------
(***************************************************************************)
(* The unmanaged confirmation needs no lock to be safe: for every set of   *)
(* clients and drafts, what is linked as the registry is what was read and *)
(* approved, whatever has happened to the files since.                     *)
(***************************************************************************)
EXTENDS Marking, TLAPS

\* Nothing is running and nothing has been shown.
LEMMA TypeInit == Init => TypeOK
  BY MarkingAssumption DEF Init, TypeOK, Files

\* A process that returns or dies forgets what it has read.
LEMMA TypeReturn ==
  ASSUME TypeOK, NEW w \in Writers, Return(w),
         draft' \in Files, UNCHANGED <<registry, shown, approved, calm>>
  PROVE  TypeOK'
  BY DEF TypeOK, Return, Goto

\* One step of a running confirmation.
LEMMA TypeStep ==
  ASSUME TypeOK, NEW w \in Writers, Step(w) \/ Abort(w)
  PROVE  TypeOK'
<1>1. CASE Read(w)
  BY <1>1, MarkingAssumption DEF Read, Goto, TypeOK, Files, Digests
<1>2. CASE Create(w)
  BY <1>2 DEF Create, Goto, TypeOK, Files
<1>3. CASE CreateExists(w) \/ AlreadyConfirmed(w)
  BY <1>3 DEF CreateExists, AlreadyConfirmed, Goto, TypeOK
<1>4. CASE ReadRefused(w) \/ CreateRefused(w) \/ Abort(w)
  <2>1. draft \in Files
    BY DEF TypeOK
  <2>. QED
    BY <1>4, <2>1, TypeReturn DEF ReadRefused, CreateRefused, Abort
<1>5. CASE Clean(w)
  <2>1. draft' \in Files
    BY <1>5 DEF Clean, Files
  <2>. QED
    BY <1>5, <2>1, TypeReturn DEF Clean
<1>. QED
  BY <1>1, <1>2, <1>3, <1>4, <1>5 DEF Step

\* Every step keeps the types.
LEMMA TypeNext == TypeOK /\ [Next]_vars => TypeOK'
<1> SUFFICES ASSUME TypeOK, [Next]_vars PROVE TypeOK'
  OBVIOUS
<1>1. ASSUME NEW w \in Writers, NEW d \in Proposals, Propose(w, d)
      PROVE  TypeOK'
  <2>1. d \in Drafts
    BY MarkingAssumption
  <2>2. Digest[d] \in Digests
    BY <2>1 DEF Digests
  <2>. QED
    BY <1>1, <2>1, <2>2 DEF Propose, TypeOK, Files
<1>2. ASSUME NEW w \in Writers, NEW d \in Digests, Confirm(w, d)
      PROVE  TypeOK'
  BY <1>2 DEF Confirm, Goto, TypeOK
<1>3. ASSUME NEW w \in Writers, Step(w) \/ Abort(w) PROVE TypeOK'
  BY <1>3, TypeStep
<1>4. CASE Edit
  BY <1>4, MarkingAssumption DEF Edit, TypeOK, Files
<1>5. CASE CalmDown
  BY <1>5 DEF CalmDown, TypeOK
<1>6. CASE UNCHANGED vars
  BY <1>6 DEF vars, TypeOK
<1>. QED
  BY <1>1, <1>2, <1>3, <1>4, <1>5, <1>6 DEF Next, ClientNext

\* Type correctness, and that a confirmation past its read holds a draft of
\* the digest it was given.
THEOREM TypeCorrect == Spec => []TypeOK
  BY TypeInit, TypeNext, PTL DEF Spec

\* Only Create changes the registry, and it links what Read compared.
LEMMA ConsentStep ==
  TypeOK /\ ClientNext /\ registry' # registry =>
      /\ registry = None
      /\ registry' \in Drafts
      /\ Digest[registry'] \in approved
<1> SUFFICES ASSUME TypeOK, ClientNext, registry' # registry
             PROVE  /\ registry = None
                    /\ registry' \in Drafts
                    /\ Digest[registry'] \in approved
  OBVIOUS
<1>1. PICK w \in Writers : Create(w)
  BY DEF ClientNext, Propose, Confirm, Step, Read, ReadRefused, CreateExists,
         AlreadyConfirmed, CreateRefused, Clean, Abort
<1>. QED
  BY <1>1 DEF Create, TypeOK

\* The registry a confirmation creates was shown and approved, and there was
\* none before, whatever the other commands and edits did in between.
THEOREM Consent == Spec => ConsentBeforeRegistry
<1>1. TypeOK /\ [Next]_vars
      => [ClientNext /\ registry' # registry =>
            /\ registry = None
            /\ registry' \in Drafts
            /\ Digest[registry'] \in approved]_vars
  BY ConsentStep
<1>. QED
  BY <1>1, TypeCorrect, PTL DEF Spec, ConsentBeforeRegistry

=============================================================================
