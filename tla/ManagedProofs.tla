---------------------------- MODULE ManagedProofs ----------------------------
(***************************************************************************)
(* Confirmation alone, and setup and confirmation on one installation, for *)
(* every number of clients.  The first part is about Spec of Confirmation: *)
(* types, crash atomicity, the pending protocol and the refinement of      *)
(* Adoption.  The second is about ManagedSpec: the lock is held by one     *)
(* client whichever its kind, so what one transaction has written stands   *)
(* until it has taken its pending record away, and both together implement *)
(* Installation.                                                           *)
(***************************************************************************)
EXTENDS Managed, TLAPS

-----------------------------------------------------------------------------
(* Confirmation: type correctness                                          *)

\* A freshly installed repository.
LEMMA TypeInit == Init => TypeOK
<1> SUFFICES ASSUME Init PROVE TypeOK
  OBVIOUS
<1>1. record \in Records /\ record # None
  BY MarkersAssumption DEF Init, Records
<1>2. SharedTypeOK
  BY <1>1 DEF Init, SharedTypeOK
<1>. QED
  BY <1>1, <1>2 DEF Init, TypeOK, Executing

\* Leaving a command keeps the types of what it touches.
LEMMA TypeReturn ==
  ASSUME TypeOK, NEW p \in Confirmers, Return(p),
         UNCHANGED <<registry, record, edited, lineage, calm, proposal,
                     legacyDraft, pending, confirmation>>,
         UNCHANGED <<previewed, authorized>>
  PROVE  TypeOK'
  BY DEF TypeOK, SharedTypeOK, Return, Goto, Waiting, Holding, Executing

\* A client's start.
LEMMA TypeStart ==
  ASSUME TypeOK, NEW p \in Confirmers, Start(p)
  PROVE  TypeOK'
<1>1. CASE ProposeStart(p)
  BY <1>1 DEF ProposeStart, LoadRecord, Goto, TypeOK, SharedTypeOK, sharedVars,
              fileVars, historyVars, Waiting, Holding, Executing
<1>2. ASSUME NEW e \in previewed, ConfirmStart(p, e)
      PROVE  TypeOK'
  BY <1>2 DEF ConfirmStart, LoadRecord, Goto, TypeOK, SharedTypeOK, sharedVars,
              fileVars, historyVars, Waiting, Holding, Executing
<1>3. CASE RecoverStart(p)
  BY <1>3 DEF RecoverStart, LoadRecord, Goto, TypeOK, SharedTypeOK, sharedVars,
              fileVars, historyVars, Waiting, Holding, Executing
<1>4. QED
  BY <1>1, <1>2, <1>3 DEF Start

\* A step under the lock.
LEMMA TypeStep ==
  ASSUME TypeOK, NEW p \in Confirmers, Step(p)
  PROVE  TypeOK'
<1> USE DEF Goto
<1>1. CASE Propose(p)
  <2>1. registry \in Contents \cup {None}
    BY <1>1
    DEF Propose, RequireAdopted, TypeOK, SharedTypeOK, Records, Holding,
        Executing, Return
  <2>. QED
    BY <1>1, <2>1, ResultsAssumption
    DEF Propose, Return, TypeOK, SharedTypeOK, Envelopes, Waiting, Holding,
        Executing
<1>2. CASE \/ ProposeRefused(p) \/ RepeatedConflict(p) \/ ConfirmRefused(p)
           \/ RecoverNothing(p) \/ ReadConflict(p) \/ Review(p)
  <2>1. /\ Return(p)
        /\ UNCHANGED <<registry, record, edited, lineage, calm, proposal,
                       legacyDraft, pending, confirmation>>
        /\ UNCHANGED <<previewed, authorized>>
    BY <1>2 DEF ProposeRefused, RepeatedConflict, ConfirmRefused,
                RecoverNothing, ReadConflict, Review, fileVars, historyVars
  <2>. QED
    BY <2>1, TypeReturn
<1>3. CASE ConfirmResumes(p) \/ AlreadyConfirmed(p)
  BY <1>3 DEF ConfirmResumes, AlreadyConfirmed, Repeated, TypeOK, SharedTypeOK,
              sharedVars, fileVars, historyVars, Waiting, Holding, Executing
<1>4. CASE ConfirmPrepare(p)
  <2>1. proposal \in Envelopes
    BY <1>4 DEF ConfirmPrepare, ProposalAuthorized, VerifyPreimage, TypeOK
  <2>. QED
    BY <1>4, <2>1 DEF ConfirmPrepare, TypeOK, SharedTypeOK, sharedVars,
                      historyVars, Waiting, Holding, Executing
<1>5. CASE RecoverResumes(p)
  BY <1>5 DEF RecoverResumes, TypeOK, SharedTypeOK, sharedVars, fileVars,
              historyVars, Waiting, Holding, Executing
<1>6. CASE ReadRegistry(p) \/ UnlinkFails(p)
  BY <1>6 DEF ReadRegistry, UnlinkFails, TypeOK, SharedTypeOK, sharedVars,
              fileVars, historyVars, Waiting, Holding, Executing
<1>7. CASE WriteRegistry(p)
  BY <1>7 DEF WriteRegistry, TypeOK, SharedTypeOK, Envelopes, fileVars,
              historyVars, Waiting, Holding, Executing
<1>8. CASE WriteConfirmation(p)
  BY <1>8 DEF WriteConfirmation, TypeOK, SharedTypeOK, sharedVars,
              historyVars, Waiting, Holding, Executing
<1>9. CASE WriteRecord(p)
  <2>1. job[p] \in Envelopes /\ job[p].result \in Contents
    BY <1>9 DEF WriteRecord, TypeOK, Envelopes, Executing
  <2>2. record' \in Records /\ record' # None
    BY <1>9, <2>1, MarkersAssumption
    DEF WriteRecord, TypeOK, SharedTypeOK, Records
  <2>. QED
    BY <1>9, <2>1, <2>2 DEF WriteRecord, TypeOK, SharedTypeOK, fileVars,
                            historyVars, Waiting, Holding, Executing
<1>10. CASE UnlinkPending(p)
  BY <1>10 DEF UnlinkPending, TypeOK, SharedTypeOK, sharedVars, historyVars,
               Waiting, Holding, Executing
<1>. QED
  BY <1>1, <1>2, <1>3, <1>4, <1>5, <1>6, <1>7, <1>8, <1>9, <1>10 DEF Step

\* Every step of the specification.
LEMMA TypeNext == TypeOK /\ [Next]_vars => TypeOK'
<1> SUFFICES ASSUME TypeOK, [Next]_vars PROVE TypeOK'
  OBVIOUS
<1>1. ASSUME NEW p \in Confirmers, Start(p) PROVE TypeOK'
  BY <1>1, TypeStart
<1>2. ASSUME NEW p \in Confirmers, AcquireLock(p) PROVE TypeOK'
  BY <1>2, ConfirmersAssumption
  DEF AcquireLock, Goto, TypeOK, SharedTypeOK, fileVars, historyVars, Waiting,
      Holding, Executing
<1>3. ASSUME NEW p \in Confirmers, LockTimeout(p) \/ Abort(p) PROVE TypeOK'
  BY <1>3, TypeReturn DEF LockTimeout, Abort, fileVars, historyVars
<1>4. ASSUME NEW p \in Confirmers, Step(p) PROVE TypeOK'
  BY <1>4, TypeStep
<1>5. CASE LegacyDraft
  BY <1>5 DEF LegacyDraft, TypeOK, SharedTypeOK, sharedVars, historyVars,
              clientVars
<1>6. CASE Edit
  BY <1>6, MarkersAssumption
  DEF Edit, EditRegistry, CalmDown, TypeOK, SharedTypeOK, confirmationVars,
      fileVars, historyVars, clientVars
<1>7. CASE UNCHANGED vars
  BY <1>7 DEF TypeOK, SharedTypeOK, vars, sharedVars, confirmationVars,
              fileVars, historyVars, clientVars
<1>. QED
  BY <1>1, <1>2, <1>3, <1>4, <1>5, <1>6, <1>7 DEF Next, ClientNext

\* The files always hold what their parsers accept, and a client's locals are
\* those of its place in the code.
THEOREM TypeCorrect == Spec => []TypeOK
  BY TypeInit, TypeNext, PTL DEF Spec

-----------------------------------------------------------------------------
(* Confirmation: the inductive invariant                                   *)

\* A client is inside a command exactly while it holds the lock.
LockOwned == \A p \in Confirmers : pc[p] \in Holding <=> lock = p

\* What a client executes is the pending record, and each place it reaches
\* has the files before it written.
Stages ==
    \A p \in Confirmers :
        /\ pc[p] \in Executing => pending = job[p]
        /\ pc[p] \in {"writeRecord", "unlinkPending"} => confirmation = job[p]
        /\ pc[p] = "unlinkPending" => record.adopted = job[p].result
        /\ ~edited /\ pc[p] \in {"writeConfirmation", "writeRecord",
                                 "unlinkPending"} =>
              registry = job[p].result

\* Every digest a client can build on was adopted once, and every transaction
\* was authorised.
Trust ==
    /\ record.adopted \in lineage
    /\ pending # None => pending \in authorized /\ pending.expected \in lineage
    /\ \A p \in Confirmers :
          /\ pc[p] # "idle" => rec[p].adopted \in lineage
          /\ pc[p] \in {"confirm", "confirmLocked"} => job[p] \in authorized

IInv ==
    /\ TypeOK
    /\ LockOwned
    /\ Stages
    /\ Trust
    /\ CommitAtomic
    /\ RegistryFollowsAdoption

\* A freshly installed repository has nothing half done.
LEMMA IInvInit == Init => IInv
<1> SUFFICES ASSUME Init PROVE IInv
  OBVIOUS
<1>1. TypeOK
  BY TypeInit
<1>2. LockOwned
  BY MarkersAssumption, ConfirmersAssumption
  DEF Init, LockOwned, Holding, Executing
<1>3. Stages /\ Trust
  BY DEF Init, Stages, Trust, Executing
<1>. QED
  BY <1>1, <1>2, <1>3 DEF IInv, Init, CommitAtomic, RegistryFollowsAdoption

\* Leaving a command without having written anything.
LEMMA IInvReturn ==
  ASSUME IInv, TypeOK', NEW p \in Confirmers, Return(p),
         UNCHANGED <<registry, record, edited, lineage, calm, pending,
                     confirmation, authorized>>
  PROVE  IInv'
<1>1. LockOwned'
  BY MarkersAssumption, ConfirmersAssumption
  DEF IInv, LockOwned, Return, Goto, TypeOK, Holding, Executing
<1>2. Stages'
  BY DEF IInv, Stages, Return, Goto, TypeOK, Executing
<1>3. Trust'
  BY DEF IInv, Trust, Return, Goto, TypeOK
<1>. QED
  BY <1>1, <1>2, <1>3 DEF IInv, CommitAtomic, RegistryFollowsAdoption

\* A client's start touches no file.
LEMMA IInvStart ==
  ASSUME IInv, TypeOK', NEW p \in Confirmers, Start(p)
  PROVE  IInv'
<1>1. /\ \/ pc' = [pc EXCEPT ![p] = "propose"] /\ job' = job
         \/ pc' = [pc EXCEPT ![p] = "recover"] /\ job' = job
         \/ /\ pc' = [pc EXCEPT ![p] = "confirm"]
            /\ job' = [job EXCEPT ![p] = job'[p]]
            /\ job'[p] \in authorized'
      /\ rec' = [rec EXCEPT ![p] = record]
      /\ authorized \subseteq authorized'
      /\ pc[p] = "idle"
      /\ UNCHANGED <<registry, record, lock, edited, lineage, pending,
                     confirmation>>
  BY DEF IInv, TypeOK, Start, ProposeStart, ConfirmStart, RecoverStart,
         LoadRecord, Goto, sharedVars, fileVars, historyVars
<1>2. LockOwned'
  BY <1>1 DEF IInv, LockOwned, TypeOK, Holding, Executing
<1>3. Stages'
  BY <1>1 DEF IInv, Stages, TypeOK, Executing
<1>4. Trust'
  BY <1>1 DEF IInv, Trust, TypeOK
<1>. QED
  BY <1>1, <1>2, <1>3, <1>4 DEF IInv, CommitAtomic, RegistryFollowsAdoption

\* The client at hand holds the lock, so no other one is inside a command.
LEMMA Alone ==
  ASSUME IInv, NEW p \in Confirmers, pc[p] \in Holding,
         NEW q \in Confirmers, q # p
  PROVE  pc[q] \notin Holding /\ pc[q] \notin Executing
  BY DEF IInv, LockOwned, Holding

\* A step under the lock, where all the files are written.
LEMMA IInvStep ==
  ASSUME IInv, TypeOK', NEW p \in Confirmers, Step(p)
  PROVE  IInv'
<1> USE DEF Goto
<1>1. CASE \/ Propose(p) \/ ProposeRefused(p) \/ RepeatedConflict(p)
           \/ ConfirmRefused(p) \/ RecoverNothing(p) \/ ReadConflict(p)
           \/ Review(p)
  <2>1. /\ Return(p)
        /\ UNCHANGED <<registry, record, edited, lineage, calm, pending,
                       confirmation, authorized>>
    BY <1>1 DEF Propose, ProposeRefused, RepeatedConflict, ConfirmRefused,
                RecoverNothing, ReadConflict, Review, fileVars, historyVars
  <2>. QED
    BY <2>1, IInvReturn
\* From here on the client keeps the lock.
<1> DEFINE Within(from, to) ==
             /\ pc[p] \in from
             /\ pc' = [pc EXCEPT ![p] = to]
             /\ lock' = lock
             /\ rec' = rec
             /\ edited' = edited
             /\ authorized' = authorized
<1>2. ASSUME NEW from, from \subseteq Holding, NEW to \in Holding,
             Within(from, to)
      PROVE  LockOwned'
  BY <1>2 DEF IInv, LockOwned, TypeOK
<1>3. CASE ConfirmResumes(p) \/ AlreadyConfirmed(p) \/ UnlinkFails(p)
  <2>1. /\ \/ Within(Holding, "execute") /\ pending = job[p]
           \/ Within(Holding, "review")
        /\ UNCHANGED <<registry, record, lineage, pending, confirmation, job>>
    BY <1>3 DEF ConfirmResumes, AlreadyConfirmed, Repeated, UnlinkFails,
                sharedVars, fileVars, historyVars, Holding, Executing
  <2>2. LockOwned'
    BY <2>1, <1>2 DEF Holding, Executing
  <2>3. Stages' /\ Trust'
    BY <2>1 DEF IInv, Stages, Trust, TypeOK, Holding, Executing
  <2>. QED
    BY <2>1, <2>2, <2>3 DEF IInv, CommitAtomic, RegistryFollowsAdoption
<1>4. CASE ConfirmPrepare(p)
  <2>1. /\ Within({"confirmLocked"}, "execute")
        /\ pending = None
        /\ proposal = job[p]
        /\ pending' = job[p] /\ job'[p] = job[p] /\ job' = job
        /\ registry = pending'.expected
        /\ registry = rec[p].adopted
        /\ UNCHANGED <<registry, record, lineage, confirmation>>
    BY <1>4 DEF ConfirmPrepare, ProposalAuthorized, VerifyPreimage,
                RequireAdopted, IInv, TypeOK, sharedVars, historyVars
  <2>2. LockOwned'
    BY <2>1, <1>2 DEF Holding, Executing
  <2>3. job[p] \in authorized /\ job[p] # None /\ registry \in lineage
    BY <2>1, EnvelopesAssumption DEF IInv, TypeOK, Trust
  <2>4. Stages'
    BY <2>1, Alone DEF IInv, TypeOK, Stages, Holding, Executing
  <2>5. Trust'
    BY <2>1, <2>3 DEF IInv, TypeOK, Trust
  <2>. QED
    BY <2>1, <2>2, <2>3, <2>4, <2>5
    DEF IInv, CommitAtomic, RegistryFollowsAdoption
<1>5. CASE RecoverResumes(p)
  <2>1. /\ Within({"recoverLocked"}, "execute")
        /\ job' = [job EXCEPT ![p] = pending]
        /\ UNCHANGED <<registry, record, lineage, pending, confirmation>>
    BY <1>5 DEF RecoverResumes, sharedVars, fileVars, historyVars
  <2>2. LockOwned'
    BY <2>1, <1>2 DEF Holding, Executing
  <2>3. Stages'
    BY <2>1 DEF IInv, Stages, TypeOK, Executing
  <2>4. Trust'
    BY <2>1 DEF IInv, Trust, TypeOK
  <2>. QED
    BY <2>1, <2>2, <2>3, <2>4 DEF IInv, CommitAtomic, RegistryFollowsAdoption
<1>6. CASE ReadRegistry(p)
  <2>1. /\ \/ Within({"execute"}, "writeRegistry")
           \/ /\ Within({"execute"}, "writeConfirmation")
              /\ registry = job[p].result
        /\ UNCHANGED <<registry, record, lineage, pending, confirmation, job>>
    BY <1>6 DEF ReadRegistry, sharedVars, fileVars, historyVars
  <2>2. LockOwned'
    BY <2>1, <1>2 DEF Holding, Executing
  <2>3. Stages' /\ Trust'
    BY <2>1 DEF IInv, Stages, Trust, TypeOK, Executing
  <2>. QED
    BY <2>1, <2>2, <2>3 DEF IInv, CommitAtomic, RegistryFollowsAdoption
<1>7. CASE WriteRegistry(p)
  <2>1. /\ Within({"writeRegistry"}, "writeConfirmation")
        /\ registry' = job[p].result
        /\ pending = job[p] /\ job[p] # None
        /\ UNCHANGED <<record, lineage, pending, confirmation, job>>
    BY <1>7, EnvelopesAssumption
    DEF WriteRegistry, fileVars, historyVars, IInv, Stages, TypeOK, Executing
  <2>2. LockOwned'
    BY <2>1, <1>2 DEF Holding, Executing
  <2>3. Stages'
    BY <2>1, Alone DEF IInv, Stages, TypeOK, Holding, Executing
  <2>4. Trust'
    BY <2>1 DEF IInv, Trust, TypeOK
  <2>. QED
    BY <2>1, <2>2, <2>3, <2>4 DEF IInv, CommitAtomic, RegistryFollowsAdoption
<1>8. CASE WriteConfirmation(p)
  <2>1. /\ Within({"writeConfirmation"}, "writeRecord")
        /\ confirmation' = job[p]
        /\ pending = job[p] /\ job[p] # None
        /\ UNCHANGED <<registry, record, lineage, pending, job>>
    BY <1>8, EnvelopesAssumption
    DEF WriteConfirmation, sharedVars, historyVars, IInv, Stages, TypeOK,
        Executing
  <2>2. LockOwned'
    BY <2>1, <1>2 DEF Holding, Executing
  <2>3. Stages'
    BY <2>1, Alone DEF IInv, Stages, TypeOK, Holding, Executing
  <2>4. Trust'
    BY <2>1 DEF IInv, Trust, TypeOK
  <2>. QED
    BY <2>1, <2>2, <2>3, <2>4 DEF IInv, CommitAtomic, RegistryFollowsAdoption
<1>9. CASE WriteRecord(p)
  <2>1. /\ Within({"writeRecord"}, "unlinkPending")
        /\ record' = [record EXCEPT !.adopted = job[p].result]
        /\ lineage' = lineage \cup {job[p].result}
        /\ pending = job[p] /\ job[p] # None
        /\ UNCHANGED <<registry, pending, confirmation, job>>
    BY <1>9, EnvelopesAssumption
    DEF WriteRecord, fileVars, historyVars, IInv, Stages, TypeOK, Executing
  <2>2. record'.adopted = job[p].result
    BY <2>1 DEF IInv, TypeOK, SharedTypeOK, Records
  <2>3. LockOwned'
    BY <2>1, <1>2 DEF Holding, Executing
  <2>4. Stages'
    BY <2>1, <2>2, Alone DEF IInv, Stages, TypeOK, Holding, Executing
  <2>5. Trust'
    BY <2>1, <2>2 DEF IInv, Trust, TypeOK
  <2>. QED
    BY <2>1, <2>3, <2>4, <2>5 DEF IInv, CommitAtomic, RegistryFollowsAdoption
<1>10. CASE UnlinkPending(p)
  <2>1. /\ Within({"unlinkPending"}, "review")
        /\ pending' = None
        /\ confirmation = job[p]
        /\ record.adopted = job[p].result
        /\ ~edited => registry = job[p].result
        /\ UNCHANGED <<registry, record, lineage, confirmation, job>>
    BY <1>10 DEF UnlinkPending, sharedVars, historyVars, IInv, Stages
  <2>2. LockOwned'
    BY <2>1, <1>2 DEF Holding, Executing
  <2>3. Stages'
    BY <2>1, Alone DEF IInv, Stages, TypeOK, Holding, Executing
  <2>4. Trust'
    BY <2>1 DEF IInv, Trust, TypeOK
  <2>. QED
    BY <2>1, <2>2, <2>3, <2>4 DEF IInv, CommitAtomic, RegistryFollowsAdoption
<1>. QED
  BY <1>1, <1>3, <1>4, <1>5, <1>6, <1>7, <1>8, <1>9, <1>10 DEF Step

\* Every step of the specification, faults and edits included.
LEMMA IInvNext == IInv /\ [Next]_vars => IInv'
<1> SUFFICES ASSUME IInv, [Next]_vars PROVE IInv'
  OBVIOUS
<1>1. TypeOK'
  BY TypeNext DEF IInv
<1>2. ASSUME NEW p \in Confirmers, Start(p) PROVE IInv'
  BY <1>1, <1>2, IInvStart
<1>3. ASSUME NEW p \in Confirmers, AcquireLock(p) PROVE IInv'
  <2>1. /\ pc[p] \in Waiting /\ lock = None /\ lock' = p
        /\ \/ pc' = [pc EXCEPT ![p] = "proposeLocked"]
           \/ pc' = [pc EXCEPT ![p] = "confirmLocked"] /\ pc[p] = "confirm"
           \/ pc' = [pc EXCEPT ![p] = "recoverLocked"]
        /\ UNCHANGED <<registry, record, edited, lineage, pending,
                       confirmation, authorized, job, rec>>
    BY <1>3 DEF AcquireLock, LockFree, Goto, Waiting, fileVars, historyVars
  <2>2. LockOwned'
    BY <2>1, MarkersAssumption, ConfirmersAssumption
    DEF IInv, LockOwned, TypeOK, Waiting, Holding, Executing
  <2>3. Stages'
    BY <2>1 DEF IInv, Stages, TypeOK, Executing
  <2>4. Trust'
    BY <2>1 DEF IInv, Trust, TypeOK, Waiting
  <2>. QED
    BY <1>1, <2>1, <2>2, <2>3, <2>4
    DEF IInv, CommitAtomic, RegistryFollowsAdoption
<1>4. ASSUME NEW p \in Confirmers, LockTimeout(p) \/ Abort(p) PROVE IInv'
  BY <1>1, <1>4, IInvReturn DEF LockTimeout, Abort, fileVars, historyVars
<1>5. ASSUME NEW p \in Confirmers, Step(p) PROVE IInv'
  BY <1>1, <1>5, IInvStep
<1>6. CASE LegacyDraft \/ UNCHANGED vars
  <2>1. UNCHANGED <<registry, record, lock, edited, lineage, pending,
                    confirmation, authorized, pc, job, rec>>
    BY <1>6 DEF LegacyDraft, vars, sharedVars, confirmationVars, fileVars,
                historyVars, clientVars
  <2>. QED
    BY <1>1, <2>1 DEF IInv, LockOwned, Stages, Trust, CommitAtomic,
                      RegistryFollowsAdoption
<1>7. CASE Edit
  <2>1. /\ UNCHANGED <<record, lock, lineage, pending, confirmation,
                       authorized, pc, job, rec>>
        /\ edited' = TRUE \/ UNCHANGED <<registry, edited>>
    BY <1>7 DEF Edit, EditRegistry, CalmDown, confirmationVars, fileVars,
                historyVars, clientVars
  <2>. QED
    BY <1>1, <2>1 DEF IInv, LockOwned, Stages, Trust, CommitAtomic,
                      RegistryFollowsAdoption
<1>. QED
  BY <1>2, <1>3, <1>4, <1>5, <1>6, <1>7 DEF Next, ClientNext

\* The inductive invariant holds of every behaviour, crashes included.
THEOREM Invariance == Spec => []IInv
  BY IInvInit, IInvNext, PTL DEF Spec

-----------------------------------------------------------------------------
(* Confirmation: the properties                                            *)

\* Once nothing is pending, the last confirmation and the trusted digest
\* agree, wherever an earlier process died.
THEOREM CrashAtomicity == Spec => []CommitAtomic
<1>1. IInv => CommitAtomic
  BY DEF IInv
<1>. QED
  BY <1>1, Invariance, PTL

\* Without edits by hand the registry is the trusted one, or a pending
\* transaction accounts for it.
THEOREM RegistryAccounted == Spec => []RegistryFollowsAdoption
<1>1. IInv => RegistryFollowsAdoption
  BY DEF IInv
<1>. QED
  BY <1>1, Invariance, PTL

\* A pending record goes only when the three files behind it are written.
THEOREM PendingProtocol == Spec => PendingKeptUntilCommitted
<1>1. ASSUME IInv, [Next]_vars, pending # None, pending' # pending
      PROVE  /\ pending' = None
             /\ confirmation = pending
             /\ record.adopted = pending.result
  <2>1. PICK p \in Confirmers : UnlinkPending(p)
    BY <1>1 DEF Next, ClientNext, Start, Step, ProposeStart, ConfirmStart,
                RecoverStart, AcquireLock, LockTimeout, Propose,
                ProposeRefused, ConfirmResumes, AlreadyConfirmed, Repeated,
                RepeatedConflict, ConfirmPrepare, ConfirmRefused,
                RecoverResumes, RecoverNothing, ReadRegistry, ReadConflict,
                WriteRegistry, WriteConfirmation, WriteRecord, UnlinkFails,
                Review, Abort, LegacyDraft, Edit, vars, confirmationVars,
                fileVars
  <2>. QED
    BY <1>1, <2>1 DEF UnlinkPending, IInv, Stages, Executing
<1>2. IInv /\ [Next]_vars =>
        [pending # None /\ pending' # pending =>
            /\ pending' = None
            /\ confirmation = pending
            /\ record.adopted = pending.result]_vars
  BY <1>1
<1>. QED
  BY <1>2, Invariance, PTL DEF Spec, PendingKeptUntilCommitted

\* The files, the lock and the crashes implement the atomic adoption.
THEOREM Refinement == Spec => ImplementsAdoption
<1>1. Init => A!Init
  BY DEF Init, A!Init
<1>2. IInv /\ [Next]_vars => [A!Next]_(A!vars)
  <2> SUFFICES ASSUME IInv, [Next]_vars PROVE [A!Next]_(A!vars)
    OBVIOUS
  <2>1. ASSUME NEW p \in Confirmers, WriteRecord(p) PROVE A!Adopt
    <3>1. /\ pending = job[p] /\ pending # None
          /\ pending \in authorized /\ pending.expected \in lineage
      BY <2>1, EnvelopesAssumption
      DEF WriteRecord, IInv, Stages, Trust, TypeOK, Executing
    <3>2. /\ record'.adopted = pending.result
          /\ lineage' = lineage \cup {pending.result}
          /\ authorized' = authorized
      BY <2>1, <3>1
      DEF WriteRecord, IInv, TypeOK, SharedTypeOK, Records, historyVars
    <3>. QED
      BY <3>1, <3>2 DEF A!Adopt
  <2>2. ASSUME NEW p \in Confirmers, NEW e \in previewed, ConfirmStart(p, e)
        PROVE  A!Authorize
    BY <2>2 DEF ConfirmStart, IInv, TypeOK, Envelopes, A!Authorize,
                A!Envelopes, sharedVars
  <2>3. CASE /\ \A p \in Confirmers : ~WriteRecord(p)
             /\ \A p \in Confirmers, e \in previewed : ~ConfirmStart(p, e)
    <3>1. UNCHANGED <<record, lineage, authorized>>
      BY <2>3 DEF Next, ClientNext, Start, Step, ProposeStart, RecoverStart,
                  AcquireLock, LockTimeout, Propose, ProposeRefused,
                  ConfirmResumes, AlreadyConfirmed, Repeated,
                  RepeatedConflict, ConfirmPrepare, ConfirmRefused,
                  RecoverResumes, RecoverNothing, ReadRegistry, ReadConflict,
                  WriteRegistry, WriteConfirmation, UnlinkPending,
                  UnlinkFails, Review, Abort, LegacyDraft, Edit, EditRegistry,
                  CalmDown, vars, sharedVars, confirmationVars, historyVars
    <3>. QED
      BY <3>1 DEF A!vars
  <2>. QED
    BY <2>1, <2>2, <2>3 DEF A!Next
<1>. QED
  BY <1>1, <1>2, Invariance, PTL DEF Spec, ImplementsAdoption, A!Spec

-----------------------------------------------------------------------------
(* Both on one installation: the inductive invariant                       *)

SetupLocked == {"setupLocked"} \cup Setup!Executing

Late == {"writeConfirmation", "writeRecord", "unlinkPending"}

\* The files of confirmation and its clients' locals hold what they may.
ConfirmTypeOK ==
    /\ proposal \in Envelopes \cup {None}
    /\ pending \in Envelopes \cup {None}
    /\ confirmation \in Envelopes \cup {None}
    /\ previewed \subseteq Envelopes
    /\ authorized \subseteq Envelopes
    /\ pc \in [Confirmers ->
                  {"idle"} \cup Waiting \cup Holding]
    /\ job \in [Confirmers -> Envelopes \cup {None}]
    /\ rec \in [Confirmers -> Records \cup {None}]

\* Clients of both kinds are past the lock exactly while they hold it.
LockOwnedByOne ==
    /\ \A p \in Installers : setupPc[p] \in SetupLocked <=> lock = p
    /\ \A p \in Confirmers : pc[p] \in Holding <=> lock = p

\* The installation record is as the plan says.
Committed(plan) ==
    /\ plan.op = "install" =>
          record = [lifecycle |-> "active", adopted |-> plan.digest]
    /\ plan.op = "remove" /\ record # None => record.lifecycle = "disabled"

\* What an installer executes is the pending plan.
SetupStages ==
    \A p \in Installers :
        /\ setupPc[p] # "idle" => setupJob[p] \in Setup!Plans
        /\ setupPc[p] \in Setup!Executing => setupPending = setupJob[p]
        /\ setupPc[p] = "clearPending" => Committed(setupJob[p])

\* What a confirmer executes is the pending envelope, whose result is adopted
\* before the pending record goes.
ConfirmStages ==
    \A p \in Confirmers :
        /\ pc[p] \in {"confirm", "confirmLocked"} => job[p] \in authorized
        /\ pc[p] \in Executing => pending = job[p] /\ pending # None
        /\ pc[p] = "unlinkPending" => record.adopted = job[p].result

\* What a confirmer can build on was adopted once, and the installation
\* record, once there, stays.
BothTrusted ==
    /\ record # None => record.adopted \in lineage
    /\ proposal # None => proposal.result \in Results[proposal.expected]
    /\ pending # None => pending \in authorized
    /\ \A p \in Confirmers :
          pc[p] # "idle" =>
              record # None /\ rec[p] # None /\ rec[p].adopted \in lineage

BothInv ==
    /\ Setup!TypeOK
    /\ ConfirmTypeOK
    /\ LockOwnedByOne
    /\ SetupStages
    /\ ConfirmStages
    /\ BothTrusted

-----------------------------------------------------------------------------
(* What Installation sees of the clients                                   *)

\* The holder of the lock is alone, whatever the kind of the others.
LEMMA InstallerAlone ==
  ASSUME BothInv, NEW p \in Installers, setupPc[p] \in SetupLocked
  PROVE  /\ lock = p
         /\ \A q \in Installers : q # p => setupPc[q] \notin SetupLocked
         /\ \A q \in Confirmers : pc[q] \notin Holding
  BY KindsAssumption, ConfirmersAssumption DEF BothInv, LockOwnedByOne

LEMMA ConfirmerAlone ==
  ASSUME BothInv, NEW p \in Confirmers, pc[p] \in Holding
  PROVE  /\ lock = p
         /\ \A q \in Confirmers : q # p => pc[q] \notin Holding
         /\ \A q \in Installers : setupPc[q] \notin SetupLocked
  BY KindsAssumption, ConfirmersAssumption DEF BothInv, LockOwnedByOne

\* A client that stays on its side of the registry write changes nothing.
LEMMA WrittenSame ==
  ASSUME ConfirmTypeOK, NEW p \in Confirmers, NEW to,
         pc' = [pc EXCEPT ![p] = to], pc[p] \in Late <=> to \in Late
  PROVE  Written' = Written
  BY DEF ConfirmTypeOK, Written, Late

LEMMA WrittenNow ==
  ASSUME ConfirmTypeOK, NEW p \in Confirmers, NEW to \in Late,
         pc' = [pc EXCEPT ![p] = to]
  PROVE  Written' = TRUE
  BY DEF ConfirmTypeOK, Written, Late

\* The one client past it leaves.
LEMMA WrittenOver ==
  ASSUME BothInv, NEW p \in Confirmers, pc[p] \in Late, NEW to,
         to \notin Late, pc' = [pc EXCEPT ![p] = to]
  PROVE  Written /\ Written' = FALSE
<1>1. \A q \in Confirmers : q # p => pc[q] \notin Late
  BY ConfirmerAlone DEF Late, Holding, Executing
<1>. QED
  BY <1>1 DEF BothInv, ConfirmTypeOK, Written, Late

-----------------------------------------------------------------------------
(* Setup                                                                   *)

\* A plan that setup derives is a plan, and an install shows the registry.
LEMMA PlansTyped ==
  ASSUME Setup!TypeOK, NEW plan \in Setup!CurrentPlans
  PROVE  /\ plan \in Setup!Plans
         /\ plan.op = "install" =>
               registry # Unreadable /\ plan.digest = registry
<1>1. /\ registry # Unreadable => registry \in Contents \cup {None}
      /\ (IF record = None THEN config = None ELSE manifest.created) \in BOOLEAN
      /\ Setup!Active \in BOOLEAN
      /\ Setup!RegistryState \in Setup!RegistryStates
  BY MarkersAssumption
  DEF Setup!TypeOK, Setup!SharedTypeOK, Setup!Manifests, Setup!Active,
      Setup!RegistryState, Setup!RegistryStates
<1>2. CASE Setup!CanInstall /\ plan = Setup!InstallPlan
  <2>1. config \in Setup!Configs \cup {None} /\ registry # Unreadable
    BY <1>2 DEF Setup!CanInstall, Setup!TypeOK, Setup!Files
  <2> DEFINE post == [owned |-> Events, clash |-> FALSE,
                      other |-> IF config = None THEN Empty ELSE config.other]
  <2>2. post \in Setup!Configs
    <3>1. (IF config = None THEN Empty ELSE config.other) \in Others
      BY <2>1, SetupAssumption DEF Setup!Configs
    <3>. QED
      BY <3>1 DEF Setup!Configs
  <2>3. plan = [op |-> "install", pre |-> config, post |-> post,
                created |-> IF record = None THEN config = None
                            ELSE manifest.created,
                manifest |-> ~Setup!Active, state |-> Setup!RegistryState,
                digest |-> registry]
    BY <1>2, <2>1 DEF Setup!InstallPlan, Setup!PlanBase
  <2> HIDE DEF post
  <2>. QED
    BY <1>1, <2>1, <2>2, <2>3 DEF Setup!Plans
<1>3. CASE Setup!CanRemove /\ plan = Setup!RemovePlan
  <2>1. config \in Setup!Configs \cup {None}
    BY <1>3 DEF Setup!CanRemove, Setup!TypeOK, Setup!Files
  <2>2. Setup!Leftover \in Setup!Configs \cup {None}
    BY <2>1, SetupAssumption DEF Setup!Leftover, Setup!Configs
  <2>3. plan = [op |-> "remove", pre |-> config, post |-> Setup!Leftover,
                created |-> IF record = None THEN config = None
                            ELSE manifest.created,
                manifest |-> Setup!Active, state |-> Setup!RegistryState,
                digest |-> IF registry = Unreadable THEN None ELSE registry]
    BY <1>3 DEF Setup!RemovePlan, Setup!PlanBase
  <2>. QED
    BY <1>1, <2>1, <2>2, <2>3 DEF Setup!Plans
<1>. QED
  BY <1>2, <1>3 DEF Setup!CurrentPlans

\* What a step of an installer can do to what others see.  It touches nothing
\* of confirmation.
Quiet ==
    UNCHANGED <<registry, record, edited, lineage, calm, config, hostEdited,
                manifest, setupPending>>

\* Leaving a command: the lock goes if it was held.
LEMMA InstallerReturns ==
  ASSUME BothInv, NEW p \in Installers, Setup!Return(p), Quiet,
         UNCHANGED confirmationVars
  PROVE  BothInv' /\ [I!Next]_(I!vars)
<1> USE DEF Quiet, confirmationVars, fileVars, historyVars, clientVars,
            Setup!Return, Setup!Goto
<1>1. (Setup!TypeOK /\ ConfirmTypeOK)'
  BY DEF BothInv, Setup!TypeOK, Setup!SharedTypeOK, Setup!Labels, ConfirmTypeOK
<1>2. LockOwnedByOne'
  BY MarkersAssumption, KindsAssumption, ConfirmersAssumption
  DEF BothInv, LockOwnedByOne, Setup!TypeOK, SetupLocked, Setup!Executing
<1>3. (SetupStages /\ ConfirmStages /\ BothTrusted)'
  BY DEF BothInv, SetupStages, ConfirmStages, BothTrusted, Committed,
         Setup!TypeOK, Setup!Executing
<1>4. UNCHANGED I!vars
  BY DEF I!vars, SetupPlan, Written
<1>. QED
  BY <1>1, <1>2, <1>3, <1>4 DEF BothInv

\* Begin, or wait for the lock.
LEMMA InstallerWaits ==
  ASSUME BothInv, NEW p \in Installers,
         \/ Setup!Preview(p) \/ Setup!Repeat(p)
         \/ Setup!Apply(p) \/ Setup!AcquireLock(p),
         UNCHANGED confirmationVars
  PROVE  BothInv' /\ [I!Next]_(I!vars)
<1> USE DEF Setup!Goto, confirmationVars, fileVars, historyVars, clientVars
<1>1. Quiet
  BY DEF Quiet, Setup!Preview, Setup!Repeat, Setup!Apply, Setup!AcquireLock,
         Setup!sharedVars
<1>2. /\ \/ /\ setupPc' = [setupPc EXCEPT ![p] = "previewed"]
            /\ setupJob' = [setupJob EXCEPT ![p] = setupJob'[p]]
            /\ setupJob'[p] \in Setup!Plans
         \/ setupPc' = [setupPc EXCEPT ![p] = "setup"] /\ setupJob' = setupJob
         \/ /\ setupPc' = [setupPc EXCEPT ![p] = "setupLocked"]
            /\ setupJob' = setupJob
      /\ setupPc[p] \notin SetupLocked
      /\ setupPc'[p] = "setupLocked" => lock = None /\ lock' = p
      /\ setupPc'[p] # "setupLocked" => lock' = lock
      /\ setupPc'[p] # "previewed" => setupPc[p] # "idle"
  <2>1. CASE Setup!Preview(p)
    BY <2>1, PlansTyped
    DEF Setup!Preview, BothInv, Setup!TypeOK, Setup!sharedVars, SetupLocked,
        Setup!Executing
  <2>2. CASE Setup!Repeat(p)
    BY <2>2 DEF Setup!Repeat, BothInv, Setup!TypeOK, Setup!sharedVars,
                SetupLocked, Setup!Executing
  <2>3. CASE Setup!Apply(p) \/ Setup!AcquireLock(p)
    BY <2>3 DEF Setup!Apply, Setup!AcquireLock, Setup!LockFree, BothInv,
                Setup!TypeOK, Setup!sharedVars, SetupLocked, Setup!Executing
  <2>. QED
    BY <2>1, <2>2, <2>3
<1>3. (Setup!TypeOK /\ ConfirmTypeOK)'
  BY <1>1, <1>2, KindsAssumption, ConfirmersAssumption
  DEF Quiet, BothInv, Setup!TypeOK, Setup!SharedTypeOK, Setup!Labels,
      ConfirmTypeOK
<1>4. LockOwnedByOne'
  BY <1>2, MarkersAssumption, KindsAssumption, ConfirmersAssumption
  DEF BothInv, LockOwnedByOne, Setup!TypeOK, SetupLocked, Setup!Executing
<1>5. (SetupStages /\ ConfirmStages /\ BothTrusted)'
  BY <1>1, <1>2
  DEF Quiet, BothInv, SetupStages, ConfirmStages, BothTrusted, Committed,
      Setup!TypeOK, Setup!Executing
<1>6. UNCHANGED I!vars
  BY <1>1 DEF Quiet, I!vars, SetupPlan, Written
<1>. QED
  BY <1>3, <1>4, <1>5, <1>6 DEF BothInv

\* A pending setup is seen.
LEMMA PlanSeen ==
  ASSUME setupPending \in Setup!Plans
  PROVE  /\ SetupPlan # None
         /\ SetupPlan.op = setupPending.op
         /\ setupPending.op = "install" =>
               SetupPlan.digest = setupPending.digest
<1>1. setupPending # None
  BY SetupAssumption
<1>2. SetupPlan \in SetupPlans
  BY <1>1 DEF SetupPlan, SetupPlans, Setup!Plans
<1>. QED
  BY <1>1, <1>2, SetupPlansAssumption DEF SetupPlan

\* A step under the lock, where all the files of setup are written.
LEMMA InstallerSteps ==
  ASSUME BothInv, NEW p \in Installers, Setup!Step(p),
         UNCHANGED confirmationVars
  PROVE  BothInv' /\ [I!Next]_(I!vars)
<1> USE DEF Setup!Goto, confirmationVars, fileVars, historyVars, clientVars
<1>1. CASE Setup!AlreadyApplied(p) \/ Setup!Refused(p)
  BY <1>1, InstallerReturns DEF Setup!AlreadyApplied, Setup!Refused, Quiet
<1>2. CASE Setup!Apply(p)
  BY <1>2, InstallerWaits
\* From here on the client keeps the lock.
<1> DEFINE Within(from, to) ==
             /\ setupPc[p] = from
             /\ setupPc' = [setupPc EXCEPT ![p] = to]
             /\ setupJob' = setupJob
             /\ lock' = lock
<1>3. ASSUME NEW from \in SetupLocked, NEW to \in SetupLocked, Within(from, to)
      PROVE  LockOwnedByOne'
  BY <1>3 DEF BothInv, LockOwnedByOne, Setup!TypeOK
<1>4. CASE Setup!Resume(p)
  <2>1. /\ \/ Within("setupLocked", "applyConfig")
           \/ Within("setupLocked", "commitRecord")
        /\ setupPending = setupJob[p]
        /\ Quiet
    BY <1>4 DEF Setup!Resume, Setup!sharedVars, Quiet
  <2>2. LockOwnedByOne'
    BY <2>1, <1>3 DEF SetupLocked, Setup!Executing
  <2>3. (Setup!TypeOK /\ ConfirmTypeOK)'
    BY <2>1 DEF Quiet, BothInv, Setup!TypeOK, Setup!SharedTypeOK, Setup!Labels,
                Setup!Executing, ConfirmTypeOK
  <2>4. (SetupStages /\ ConfirmStages /\ BothTrusted)'
    BY <2>1
    DEF Quiet, BothInv, SetupStages, ConfirmStages, BothTrusted, Committed,
        Setup!TypeOK, Setup!Executing
  <2>5. UNCHANGED I!vars
    BY <2>1 DEF Quiet, I!vars, SetupPlan, Written
  <2>. QED
    BY <2>2, <2>3, <2>4, <2>5 DEF BothInv
<1>5. CASE Setup!Prepare(p)
  <2> DEFINE plan == setupJob[p]
  <2>1. /\ Within("setupLocked", "applyConfig")
        /\ setupPending = None /\ setupPending' = plan
        /\ plan \in Setup!CurrentPlans
        /\ UNCHANGED <<registry, record, edited, lineage, calm, config,
                       hostEdited, manifest>>
    BY <1>5 DEF Setup!Prepare, Setup!sharedVars
  <2>2. /\ plan \in Setup!Plans /\ plan # None
        /\ plan.op \in {"install", "remove"}
        /\ plan.op = "install" => registry # Unreadable /\ plan.digest = registry
    BY <2>1, PlansTyped, SetupAssumption DEF BothInv, Setup!Plans
  <2>3. LockOwnedByOne'
    BY <2>1, <1>3 DEF SetupLocked, Setup!Executing
  <2>4. (Setup!TypeOK /\ ConfirmTypeOK)'
    BY <2>1, <2>2
    DEF BothInv, Setup!TypeOK, Setup!SharedTypeOK, Setup!Labels,
        Setup!Executing, ConfirmTypeOK
  <2>5. SetupStages'
    BY <2>1, InstallerAlone
    DEF BothInv, SetupStages, Committed, Setup!TypeOK, Setup!Executing,
        SetupLocked
  <2>6. (ConfirmStages /\ BothTrusted)'
    BY <2>1 DEF BothInv, ConfirmStages, BothTrusted
  <2>7. I!StartSetup
    BY <2>1, <2>2 DEF I!StartSetup, SetupPlan, Written
  <2>. QED
    BY <2>3, <2>4, <2>5, <2>6, <2>7 DEF BothInv, I!Next
<1>6. CASE Setup!ApplyConfig(p)
  <2>1. /\ Within("applyConfig", "commitRecord")
        /\ config' = setupJob[p].post /\ hostEdited' = FALSE
        /\ UNCHANGED <<registry, record, edited, lineage, calm, manifest,
                       setupPending>>
    BY <1>6 DEF Setup!ApplyConfig, Setup!sharedVars
  <2>2. config' \in Setup!Files
    BY <2>1 DEF BothInv, SetupStages, Setup!Plans, Setup!Files
  <2>3. LockOwnedByOne'
    BY <2>1, <1>3 DEF SetupLocked, Setup!Executing
  <2>4. (Setup!TypeOK /\ ConfirmTypeOK)'
    BY <2>1, <2>2
    DEF BothInv, Setup!TypeOK, Setup!SharedTypeOK, Setup!Labels,
        Setup!Executing, ConfirmTypeOK
  <2>5. (SetupStages /\ ConfirmStages /\ BothTrusted)'
    BY <2>1 DEF BothInv, SetupStages, ConfirmStages, BothTrusted, Committed,
                Setup!TypeOK, Setup!Executing
  <2>6. UNCHANGED I!vars
    BY <2>1 DEF I!vars, SetupPlan, Written
  <2>. QED
    BY <2>3, <2>4, <2>5, <2>6 DEF BothInv
<1>7. CASE Setup!CommitRecord(p)
  <2> DEFINE plan == setupJob[p]
  <2>1. /\ Within("commitRecord", "clearPending")
        /\ UNCHANGED <<registry, edited, calm, config, hostEdited, setupPending>>
        /\ \/ /\ plan.op = "install"
              /\ record' = [lifecycle |-> "active", adopted |-> plan.digest]
              /\ manifest' = [created |-> plan.created, applied |-> plan]
              /\ lineage' = lineage \cup {plan.digest}
           \/ /\ plan.op = "remove"
              /\ record # None
              /\ record' = [record EXCEPT !.lifecycle = "disabled"]
              /\ manifest' = [created |-> plan.created, applied |-> plan]
              /\ UNCHANGED lineage
           \/ /\ plan.op = "remove"
              /\ record = None
              /\ UNCHANGED <<record, manifest, lineage>>
    BY <1>7 DEF Setup!CommitRecord
  <2>2. /\ setupPending = plan /\ plan \in Setup!Plans /\ plan # None
        /\ plan.digest \in Contents \cup {None}
        /\ plan.created \in BOOLEAN
    BY <2>1, SetupAssumption
    DEF BothInv, SetupStages, Setup!Executing, Setup!Plans
  <2>3. /\ record' \in Setup!Records \cup {None}
        /\ lineage' \subseteq Contents \cup {None}
        /\ manifest' \in Setup!Manifests
    BY <2>1, <2>2 DEF BothInv, Setup!TypeOK, Setup!SharedTypeOK, Setup!Records,
                      Setup!Manifests
  <2>4. LockOwnedByOne'
    BY <2>1, <1>3 DEF SetupLocked, Setup!Executing
  <2>5. (Setup!TypeOK /\ ConfirmTypeOK)'
    BY <2>1, <2>3
    DEF BothInv, Setup!TypeOK, Setup!SharedTypeOK, Setup!Labels,
        Setup!Executing, ConfirmTypeOK
  <2>6. record # None => record \in Setup!Records
    BY DEF BothInv, Setup!TypeOK, Setup!SharedTypeOK
  <2>7. Committed(plan)'
    BY <2>1, <2>6 DEF Committed, Setup!Records
  <2>8. SetupStages'
    BY <2>1, <2>7, InstallerAlone
    DEF BothInv, SetupStages, Setup!TypeOK, Setup!Executing, SetupLocked
  <2>9. ConfirmStages'
    BY <2>1, InstallerAlone
    DEF BothInv, ConfirmStages, SetupLocked, Setup!Executing, Holding,
        Executing
  <2>10. /\ record # None => record' # None
         /\ record' # None => record'.adopted \in lineage'
    BY <2>1, <2>2, <2>6, MarkersAssumption
    DEF BothInv, BothTrusted, Setup!Records, Records
  <2>11. BothTrusted'
    BY <2>1, <2>10 DEF BothInv, BothTrusted
  <2>12. [I!CommitSetup]_(I!vars)
    BY <2>1, <2>2, PlanSeen
    DEF I!CommitSetup, I!Trusted, I!vars, SetupPlan, Written
  <2>. QED
    BY <2>4, <2>5, <2>8, <2>9, <2>11, <2>12 DEF BothInv, I!Next
<1>8. CASE Setup!ClearPending(p)
  <2> DEFINE plan == setupJob[p]
  <2>1. /\ setupPc[p] = "clearPending"
        /\ setupPending' = None
        /\ Setup!Return(p)
        /\ UNCHANGED <<registry, record, edited, lineage, calm, config,
                       hostEdited, manifest>>
    BY <1>8 DEF Setup!ClearPending
  <2>2. /\ setupPending = plan /\ plan \in Setup!Plans /\ plan # None
        /\ plan.op \in {"install", "remove"} /\ Committed(plan)
    BY <2>1, SetupAssumption
    DEF BothInv, SetupStages, Setup!Executing, Setup!Plans
  <2>3. (Setup!TypeOK /\ ConfirmTypeOK)'
    BY <2>1 DEF BothInv, Setup!Return, Setup!TypeOK, Setup!SharedTypeOK,
                Setup!Labels, ConfirmTypeOK
  <2>4. LockOwnedByOne'
    BY <2>1, MarkersAssumption, KindsAssumption, ConfirmersAssumption
    DEF BothInv, LockOwnedByOne, Setup!Return, Setup!TypeOK, SetupLocked,
        Setup!Executing
  <2>5. SetupStages'
    BY <2>1, InstallerAlone
    DEF BothInv, SetupStages, Committed, Setup!Return, Setup!TypeOK,
        Setup!Executing, SetupLocked
  <2>6. (ConfirmStages /\ BothTrusted)'
    BY <2>1 DEF BothInv, ConfirmStages, BothTrusted
  <2>7. I!EndSetup
    BY <2>1, <2>2, PlanSeen
    DEF I!EndSetup, I!Trusted, SetupPlan, Written, Committed
  <2>. QED
    BY <2>3, <2>4, <2>5, <2>6, <2>7 DEF BothInv, I!Next
<1>. QED
  BY <1>1, <1>2, <1>4, <1>5, <1>6, <1>7, <1>8 DEF Setup!Step

\* Setup, and edits of hooks.json.
LEMMA SetupPart ==
  ASSUME BothInv, SetupNext
  PROVE  BothInv' /\ [I!Next]_(I!vars)
<1>1. ASSUME NEW p \in Installers, Setup!Preview(p) \/ Setup!Repeat(p)
                                   \/ Setup!AcquireLock(p)
      PROVE  BothInv' /\ [I!Next]_(I!vars)
  BY <1>1, InstallerWaits DEF SetupNext
<1>2. ASSUME NEW p \in Installers, Setup!LockTimeout(p) \/ Setup!Abort(p)
      PROVE  BothInv' /\ [I!Next]_(I!vars)
  BY <1>2, InstallerReturns
  DEF SetupNext, Setup!LockTimeout, Setup!Abort, Quiet
<1>3. ASSUME NEW p \in Installers, Setup!Step(p)
      PROVE  BothInv' /\ [I!Next]_(I!vars)
  BY <1>3, InstallerSteps DEF SetupNext
<1>4. CASE Setup!EditConfig \/ \E p \in Installers : Setup!PreviewRefused(p)
  <2>1. /\ UNCHANGED <<registry, record, lock, edited, lineage, calm, manifest,
                       setupPending, setupPc, setupJob, confirmationVars>>
        /\ config' \in Setup!Files /\ hostEdited' \in BOOLEAN
    BY <1>4, SetupAssumption
    DEF SetupNext, Setup!EditConfig, Setup!PreviewRefused, Setup!sharedVars,
        Setup!vars, Setup!setupVars, BothInv, Setup!TypeOK
  <2>2. BothInv'
    BY <2>1
    DEF confirmationVars, fileVars, historyVars, clientVars, BothInv,
        Setup!TypeOK, Setup!SharedTypeOK, ConfirmTypeOK, LockOwnedByOne,
        SetupStages, Committed, ConfirmStages, BothTrusted
  <2>3. UNCHANGED I!vars
    BY <2>1
    DEF confirmationVars, fileVars, historyVars, clientVars, I!vars, SetupPlan,
        Written
  <2>. QED
    BY <2>2, <2>3
<1>. QED
  BY <1>1, <1>2, <1>3, <1>4 DEF SetupNext, Setup!ClientNext

-----------------------------------------------------------------------------
(* Confirmation                                                            *)

\* Leaving a command: the lock goes if it was held, and a confirmation that
\* was past the registry is interrupted.
LEMMA ConfirmerReturns ==
  ASSUME BothInv, NEW p \in Confirmers, Return(p),
         UNCHANGED <<registry, record, edited, lineage, calm, legacyDraft,
                     pending, confirmation, authorized, setupVars>>,
         \/ UNCHANGED <<proposal, previewed>>
         \/ /\ proposal' \in Envelopes
            /\ proposal'.result \in Results[proposal'.expected]
            /\ previewed' = previewed \cup {proposal'}
  PROVE  BothInv' /\ [I!Next]_(I!vars)
<1> USE DEF Return, Goto, setupVars
<1>1. (Setup!TypeOK /\ ConfirmTypeOK)'
  BY DEF BothInv, Setup!TypeOK, Setup!SharedTypeOK, ConfirmTypeOK,
         Waiting, Holding
<1>2. LockOwnedByOne'
  BY MarkersAssumption, KindsAssumption, ConfirmersAssumption
  DEF BothInv, LockOwnedByOne, ConfirmTypeOK, Holding, Executing
<1>3. (SetupStages /\ ConfirmStages)'
  BY DEF BothInv, SetupStages, ConfirmStages, Committed, ConfirmTypeOK,
         Executing
<1>4. BothTrusted'
  BY DEF BothInv, BothTrusted, ConfirmTypeOK
<1>5. CASE pc[p] \in Late
  <2>1. I!Interrupt
    BY <1>5, WrittenOver DEF Late, I!Interrupt, SetupPlan
  <2>. QED
    BY <1>1, <1>2, <1>3, <1>4, <2>1 DEF BothInv, I!Next
<1>6. CASE pc[p] \notin Late
  <2>1. UNCHANGED I!vars
    BY <1>6, WrittenSame DEF BothInv, Late, I!vars, SetupPlan
  <2>. QED
    BY <1>1, <1>2, <1>3, <1>4, <2>1 DEF BothInv
<1>. QED
  BY <1>5, <1>6

\* Begin, or wait for the lock.
LEMMA ConfirmerWaits ==
  ASSUME BothInv, NEW p \in Confirmers,
         Start(p) \/ AcquireLock(p),
         UNCHANGED setupVars
  PROVE  BothInv' /\ [I!Next]_(I!vars)
<1> USE DEF Goto, setupVars
<1>1. UNCHANGED <<registry, record, edited, lineage, calm, proposal, legacyDraft,
                  pending, confirmation, previewed>>
  BY DEF Start, ProposeStart, ConfirmStart,
         RecoverStart, AcquireLock, sharedVars,
         fileVars, historyVars
<1>2. \/ /\ \/ pc' = [pc EXCEPT ![p] = "propose"] /\ job' = job
            \/ pc' = [pc EXCEPT ![p] = "recover"] /\ job' = job
            \/ /\ pc' = [pc EXCEPT ![p] = "confirm"]
               /\ job' = [job EXCEPT ![p] = job'[p]]
               /\ job'[p] \in authorized'
         /\ record # None /\ rec' = [rec EXCEPT ![p] = record]
         /\ authorized \subseteq authorized'
         /\ authorized' \subseteq Envelopes
         /\ pc[p] = "idle" /\ lock' = lock
      \/ /\ pc[p] \in Waiting /\ lock = None /\ lock' = p
         /\ \/ pc' = [pc EXCEPT ![p] = "proposeLocked"]
            \/ pc' = [pc EXCEPT ![p] = "confirmLocked"] /\ pc[p] = "confirm"
            \/ pc' = [pc EXCEPT ![p] = "recoverLocked"]
         /\ UNCHANGED <<authorized, job, rec>>
  <2>1. CASE ProposeStart(p) \/ RecoverStart(p)
    BY <2>1 DEF ProposeStart, RecoverStart, LoadRecord,
                sharedVars, historyVars, BothInv, ConfirmTypeOK
  <2>2. ASSUME NEW e \in previewed, ConfirmStart(p, e)
        PROVE  /\ pc' = [pc EXCEPT ![p] = "confirm"]
               /\ job' = [job EXCEPT ![p] = job'[p]]
               /\ job'[p] \in authorized'
               /\ record # None /\ rec' = [rec EXCEPT ![p] = record]
               /\ authorized \subseteq authorized'
               /\ authorized' \subseteq Envelopes
               /\ pc[p] = "idle" /\ lock' = lock
    BY <2>2 DEF ConfirmStart, LoadRecord, sharedVars,
                BothInv, ConfirmTypeOK
  <2>3. CASE AcquireLock(p)
    BY <2>3 DEF AcquireLock, LockFree, Waiting,
                historyVars
  <2>. QED
    BY <2>1, <2>2, <2>3 DEF Start
<1>3. (Setup!TypeOK /\ ConfirmTypeOK)'
  BY <1>1, <1>2, KindsAssumption, ConfirmersAssumption
  DEF BothInv, Setup!TypeOK, Setup!SharedTypeOK, Setup!Records, Records,
      ConfirmTypeOK, Waiting, Holding
<1>4. LockOwnedByOne'
  BY <1>2, MarkersAssumption, KindsAssumption, ConfirmersAssumption
  DEF BothInv, LockOwnedByOne, ConfirmTypeOK, Waiting, Holding,
      Executing
<1>5. (SetupStages /\ ConfirmStages)'
  BY <1>1, <1>2
  DEF BothInv, SetupStages, ConfirmStages, Committed, ConfirmTypeOK, Executing
<1>6. BothTrusted'
  BY <1>1, <1>2 DEF BothInv, BothTrusted, ConfirmTypeOK, Waiting
<1>7. Written' = Written
  BY <1>2, WrittenSame DEF BothInv, Late, Waiting
<1>8. UNCHANGED I!vars
  BY <1>1, <1>7 DEF I!vars, SetupPlan
<1>. QED
  BY <1>3, <1>4, <1>5, <1>6, <1>8 DEF BothInv

\* A step under the lock, where all the files are written.
LEMMA ConfirmerSteps ==
  ASSUME BothInv, NEW p \in Confirmers, Step(p), UNCHANGED setupVars
  PROVE  BothInv' /\ [I!Next]_(I!vars)
<1> USE DEF Goto, setupVars
<1>1. CASE \/ ProposeRefused(p) \/ RepeatedConflict(p)
           \/ ConfirmRefused(p) \/ RecoverNothing(p)
           \/ ReadConflict(p) \/ Review(p)
  BY <1>1, ConfirmerReturns
  DEF ProposeRefused, RepeatedConflict, ConfirmRefused,
      RecoverNothing, ReadConflict, Review,
      fileVars, historyVars
<1>2. CASE Propose(p)
  <2>1. registry = rec[p].adopted /\ rec[p] \in Records
    BY <1>2 DEF Propose, RequireAdopted, BothInv, ConfirmTypeOK,
                BothTrusted
  <2>2. PICK result \in Results[registry] :
           /\ proposal' = [expected |-> registry, result |-> result]
           /\ previewed' = previewed \cup {proposal'}
    BY <1>2 DEF Propose
  <2>3. /\ proposal' \in Envelopes
        /\ proposal'.result \in Results[proposal'.expected]
    BY <2>1, <2>2, ResultsAssumption, EnvelopesAssumption
    DEF Records, Envelopes
  <2>. QED
    BY <1>2, <2>2, <2>3, ConfirmerReturns DEF Propose
\* From here on the client keeps the lock.
<1> DEFINE Within(from, to) ==
             /\ pc[p] = from
             /\ pc' = [pc EXCEPT ![p] = to]
             /\ UNCHANGED <<lock, edited, calm, proposal, legacyDraft,
                            previewed, authorized, rec>>
<1>3. ASSUME NEW from \in Holding, NEW to \in Holding,
             Within(from, to)
      PROVE  LockOwnedByOne' /\ pc' \in [Confirmers ->
                              {"idle"} \cup Waiting \cup Holding]
  BY <1>3 DEF BothInv, LockOwnedByOne, ConfirmTypeOK
<1>4. CASE ConfirmResumes(p) \/ AlreadyConfirmed(p)
  <2>1. /\ \/ /\ Within("confirmLocked", "execute")
              /\ pending = job[p] /\ pending # None
           \/ Within("confirmLocked", "review")
        /\ UNCHANGED <<registry, record, lineage, pending, confirmation, job>>
    BY <1>4, ResultsAssumption, EnvelopesAssumption
    DEF ConfirmResumes, AlreadyConfirmed, Repeated,
        sharedVars, fileVars, historyVars, BothInv,
        ConfirmStages, ConfirmTypeOK
  <2>2. LockOwnedByOne' /\ (Setup!TypeOK /\ ConfirmTypeOK)'
    BY <2>1, <1>3 DEF Holding, Executing, BothInv, Setup!TypeOK,
                      Setup!SharedTypeOK, ConfirmTypeOK
  <2>3. (SetupStages /\ ConfirmStages /\ BothTrusted)'
    BY <2>1 DEF BothInv, SetupStages, ConfirmStages, Committed, BothTrusted,
                ConfirmTypeOK, Executing
  <2>4. UNCHANGED I!vars
    BY <2>1, WrittenSame DEF BothInv, Late, I!vars, SetupPlan
  <2>. QED
    BY <2>2, <2>3, <2>4 DEF BothInv
<1>5. CASE ConfirmPrepare(p)
  <2>1. /\ Within("confirmLocked", "execute")
        /\ pending = None /\ proposal = job[p]
        /\ pending' = job[p] /\ job' = [job EXCEPT ![p] = proposal]
        /\ registry = job[p].expected /\ registry = rec[p].adopted
        /\ UNCHANGED <<registry, record, lineage, confirmation>>
    BY <1>5 DEF ConfirmPrepare, ProposalAuthorized,
                VerifyPreimage, RequireAdopted,
                sharedVars, historyVars
  <2>2. /\ job[p] \in authorized /\ job[p] \in Envelopes
        /\ job[p] # None /\ job' = job
        /\ registry \in lineage /\ job[p].result \in Results[registry]
        /\ job[p] = [expected |-> registry, result |-> job[p].result]
    BY <2>1, ResultsAssumption, EnvelopesAssumption
    DEF BothInv, ConfirmTypeOK, ConfirmStages, BothTrusted, Envelopes
  <2>3. LockOwnedByOne' /\ (Setup!TypeOK /\ ConfirmTypeOK)'
    BY <2>1, <2>2, <1>3
    DEF Holding, Executing, BothInv, Setup!TypeOK,
        Setup!SharedTypeOK, ConfirmTypeOK
  <2>4. ConfirmStages'
    BY <2>1, <2>2, ConfirmerAlone
    DEF BothInv, ConfirmStages, ConfirmTypeOK, Holding, Executing
  <2>5. (SetupStages /\ BothTrusted)'
    BY <2>1, <2>2
    DEF BothInv, SetupStages, Committed, BothTrusted, ConfirmTypeOK
  <2>6. Written' = Written
    BY <2>1, WrittenSame DEF BothInv, Late
  <2>7. I!StartConfirmation
    BY <2>1, <2>2, <2>6 DEF I!StartConfirmation, SetupPlan
  <2>. QED
    BY <2>3, <2>4, <2>5, <2>7 DEF BothInv, I!Next
<1>6. CASE RecoverResumes(p)
  <2>1. /\ Within("recoverLocked", "execute")
        /\ pending # None /\ job' = [job EXCEPT ![p] = pending]
        /\ UNCHANGED <<registry, record, lineage, pending, confirmation>>
    BY <1>6 DEF RecoverResumes, sharedVars, fileVars,
                historyVars
  <2>2. LockOwnedByOne' /\ (Setup!TypeOK /\ ConfirmTypeOK)'
    BY <2>1, <1>3 DEF Holding, Executing, BothInv, Setup!TypeOK,
                      Setup!SharedTypeOK, ConfirmTypeOK
  <2>3. (SetupStages /\ ConfirmStages /\ BothTrusted)'
    BY <2>1 DEF BothInv, SetupStages, ConfirmStages, Committed, BothTrusted,
                ConfirmTypeOK, Executing
  <2>4. UNCHANGED I!vars
    BY <2>1, WrittenSame DEF BothInv, Late, I!vars, SetupPlan
  <2>. QED
    BY <2>2, <2>3, <2>4 DEF BothInv
<1>7. CASE ReadRegistry(p)
  <2>1. /\ \/ Within("execute", "writeRegistry")
           \/ Within("execute", "writeConfirmation") /\ registry = job[p].result
        /\ UNCHANGED <<registry, record, lineage, pending, confirmation, job>>
    BY <1>7 DEF ReadRegistry, sharedVars, fileVars,
                historyVars
  <2>2. LockOwnedByOne' /\ (Setup!TypeOK /\ ConfirmTypeOK)'
    BY <2>1, <1>3 DEF Holding, Executing, BothInv, Setup!TypeOK,
                      Setup!SharedTypeOK, ConfirmTypeOK
  <2>3. (SetupStages /\ ConfirmStages /\ BothTrusted)'
    BY <2>1 DEF BothInv, SetupStages, ConfirmStages, Committed, BothTrusted,
                ConfirmTypeOK, Executing
  <2>4. CASE Within("execute", "writeRegistry")
    <3>1. UNCHANGED I!vars
      BY <2>1, <2>4, WrittenSame DEF BothInv, Late, I!vars, SetupPlan
    <3>. QED
      BY <2>2, <2>3, <3>1 DEF BothInv
  <2>5. CASE Within("execute", "writeConfirmation") /\ registry = job[p].result
    <3>1. pending = job[p] /\ pending # None
      BY <2>5 DEF BothInv, ConfirmStages, Executing
    <3>2. I!FindWritten
      BY <2>1, <2>5, <3>1, WrittenNow
      DEF BothInv, Late, I!FindWritten, SetupPlan
    <3>. QED
      BY <2>2, <2>3, <3>2 DEF BothInv, I!Next
  <2>. QED
    BY <2>1, <2>4, <2>5
<1>8. CASE WriteRegistry(p)
  <2>1. /\ Within("writeRegistry", "writeConfirmation")
        /\ registry' = job[p].result
        /\ UNCHANGED <<record, lineage, pending, confirmation, job>>
    BY <1>8 DEF WriteRegistry, fileVars, historyVars
  <2>2. pending = job[p] /\ pending # None /\ job[p] \in Envelopes
    BY <2>1 DEF BothInv, ConfirmStages, ConfirmTypeOK, Executing
  <2>3. LockOwnedByOne' /\ (Setup!TypeOK /\ ConfirmTypeOK)'
    BY <2>1, <2>2, <1>3
    DEF Holding, Executing, BothInv, Setup!TypeOK,
        Setup!SharedTypeOK, ConfirmTypeOK, Envelopes
  <2>4. (SetupStages /\ ConfirmStages /\ BothTrusted)'
    BY <2>1 DEF BothInv, SetupStages, ConfirmStages, Committed, BothTrusted,
                ConfirmTypeOK, Executing
  <2>5. I!WriteRegistry
    BY <2>1, <2>2, WrittenNow DEF BothInv, Late, I!WriteRegistry, SetupPlan
  <2>. QED
    BY <2>3, <2>4, <2>5 DEF BothInv, I!Next
<1>9. CASE WriteConfirmation(p)
  <2>1. /\ Within("writeConfirmation", "writeRecord")
        /\ confirmation' = job[p]
        /\ UNCHANGED <<registry, record, lineage, pending, job>>
    BY <1>9 DEF WriteConfirmation, sharedVars,
                historyVars
  <2>2. LockOwnedByOne' /\ (Setup!TypeOK /\ ConfirmTypeOK)'
    BY <2>1, <1>3 DEF Holding, Executing, BothInv, Setup!TypeOK,
                      Setup!SharedTypeOK, ConfirmTypeOK
  <2>3. (SetupStages /\ ConfirmStages /\ BothTrusted)'
    BY <2>1 DEF BothInv, SetupStages, ConfirmStages, Committed, BothTrusted,
                ConfirmTypeOK, Executing
  <2>4. UNCHANGED I!vars
    BY <2>1, WrittenSame DEF BothInv, Late, I!vars, SetupPlan
  <2>. QED
    BY <2>2, <2>3, <2>4 DEF BothInv
<1>10. CASE WriteRecord(p)
  <2>1. /\ Within("writeRecord", "unlinkPending")
        /\ record' = [record EXCEPT !.adopted = job[p].result]
        /\ lineage' = lineage \cup {job[p].result}
        /\ UNCHANGED <<registry, pending, confirmation, job>>
    BY <1>10 DEF WriteRecord, fileVars, historyVars
  <2>2. /\ pending = job[p] /\ pending # None
        /\ job[p].result \in Contents
        /\ record \in Setup!Records
    BY <2>1 DEF BothInv, ConfirmStages, ConfirmTypeOK, Executing,
                Envelopes, BothTrusted, Setup!TypeOK, Setup!SharedTypeOK
  <2>3. /\ record' \in Setup!Records /\ record' # None
        /\ record'.adopted = job[p].result
        /\ lineage' \subseteq Contents \cup {None}
    BY <2>1, <2>2, MarkersAssumption
    DEF Setup!Records, Records, BothInv, Setup!TypeOK, Setup!SharedTypeOK
  <2>4. LockOwnedByOne' /\ (Setup!TypeOK /\ ConfirmTypeOK)'
    BY <2>1, <2>3, <1>3
    DEF Holding, Executing, BothInv, Setup!TypeOK,
        Setup!SharedTypeOK, ConfirmTypeOK
  <2>5. SetupStages'
    BY <2>1, ConfirmerAlone
    DEF BothInv, SetupStages, SetupLocked, Setup!Executing, Holding,
        Executing
  <2>6. ConfirmStages'
    BY <2>1, <2>3, ConfirmerAlone
    DEF BothInv, ConfirmStages, ConfirmTypeOK, Holding, Executing
  <2>7. BothTrusted'
    BY <2>1, <2>3 DEF BothInv, BothTrusted, ConfirmTypeOK
  <2>8. Written /\ Written' = Written
    BY <2>1, WrittenSame DEF BothInv, Late, Written
  <2>9. I!Adopt
    BY <2>1, <2>2, <2>8 DEF I!Adopt, SetupPlan
  <2>. QED
    BY <2>4, <2>5, <2>6, <2>7, <2>9 DEF BothInv, I!Next
<1>11. CASE UnlinkPending(p)
  <2>1. /\ Within("unlinkPending", "review")
        /\ pending' = None
        /\ UNCHANGED <<registry, record, lineage, confirmation, job>>
    BY <1>11 DEF UnlinkPending, sharedVars, historyVars
  <2>2. pending = job[p] /\ record.adopted = job[p].result
    BY <2>1 DEF BothInv, ConfirmStages, Executing
  <2>3. LockOwnedByOne' /\ (Setup!TypeOK /\ ConfirmTypeOK)'
    BY <2>1, <1>3 DEF Holding, Executing, BothInv, Setup!TypeOK,
                      Setup!SharedTypeOK, ConfirmTypeOK
  <2>4. ConfirmStages'
    BY <2>1, ConfirmerAlone
    DEF BothInv, ConfirmStages, ConfirmTypeOK, Holding, Executing
  <2>5. (SetupStages /\ BothTrusted)'
    BY <2>1 DEF BothInv, SetupStages, Committed, BothTrusted, ConfirmTypeOK
  <2>6. I!EndConfirmation
    BY <2>1, <2>2, WrittenOver DEF Late, I!EndConfirmation, SetupPlan
  <2>. QED
    BY <2>3, <2>4, <2>5, <2>6 DEF BothInv, I!Next
<1>12. CASE UnlinkFails(p)
  <2>1. /\ Within("unlinkPending", "review")
        /\ UNCHANGED <<registry, record, lineage, pending, confirmation, job>>
    BY <1>12 DEF UnlinkFails, sharedVars, fileVars,
                 historyVars
  <2>2. LockOwnedByOne' /\ (Setup!TypeOK /\ ConfirmTypeOK)'
    BY <2>1, <1>3 DEF Holding, Executing, BothInv, Setup!TypeOK,
                      Setup!SharedTypeOK, ConfirmTypeOK
  <2>3. (SetupStages /\ ConfirmStages /\ BothTrusted)'
    BY <2>1 DEF BothInv, SetupStages, ConfirmStages, Committed, BothTrusted,
                ConfirmTypeOK, Executing
  <2>4. I!Interrupt
    BY <2>1, WrittenOver DEF Late, I!Interrupt, SetupPlan
  <2>. QED
    BY <2>2, <2>3, <2>4 DEF BothInv, I!Next
<1>. QED
  BY <1>1, <1>2, <1>4, <1>5, <1>6, <1>7, <1>8, <1>9, <1>10, <1>11, <1>12
  DEF Step

\* Confirmation, and the drafts of the unmanaged flow.
LEMMA ConfirmationPart ==
  ASSUME BothInv, ConfirmationNext
  PROVE  BothInv' /\ [I!Next]_(I!vars)
<1>1. ASSUME NEW p \in Confirmers, Start(p) \/ AcquireLock(p)
      PROVE  BothInv' /\ [I!Next]_(I!vars)
  BY <1>1, ConfirmerWaits DEF ConfirmationNext
<1>2. ASSUME NEW p \in Confirmers, LockTimeout(p) \/ Abort(p)
      PROVE  BothInv' /\ [I!Next]_(I!vars)
  BY <1>2, ConfirmerReturns
  DEF ConfirmationNext, LockTimeout, Abort, fileVars,
      historyVars
<1>3. ASSUME NEW p \in Confirmers, Step(p)
      PROVE  BothInv' /\ [I!Next]_(I!vars)
  BY <1>3, ConfirmerSteps DEF ConfirmationNext
<1>4. CASE LegacyDraft
  <2>1. UNCHANGED <<registry, record, lock, edited, lineage, calm, setupVars,
                    proposal, pending, confirmation, previewed, authorized,
                    pc, job, rec>>
    BY <1>4 DEF ConfirmationNext, LegacyDraft, sharedVars,
                historyVars, clientVars
  <2>2. BothInv'
    BY <2>1 DEF setupVars, BothInv, Setup!TypeOK, Setup!SharedTypeOK,
                ConfirmTypeOK, LockOwnedByOne, SetupStages, Committed,
                ConfirmStages, BothTrusted
  <2>3. UNCHANGED I!vars
    BY <2>1 DEF setupVars, I!vars, SetupPlan, Written
  <2>. QED
    BY <2>2, <2>3
<1>. QED
  BY <1>1, <1>2, <1>3, <1>4 DEF ConfirmationNext, ClientNext

-----------------------------------------------------------------------------
(* Theorems                                                                *)

\* Nothing was ever installed.
LEMMA BothInvInit == ManagedInit => BothInv /\ I!Init
<1> SUFFICES ASSUME ManagedInit PROVE BothInv /\ I!Init
  OBVIOUS
<1>1. Setup!TypeOK
  BY SetupAssumption
  DEF ManagedInit, Setup!Init, Setup!TypeOK, Setup!SharedTypeOK,
      Setup!Manifests, Setup!Labels
<1>2. ConfirmTypeOK
  BY DEF ManagedInit, ConfirmTypeOK
<1>3. LockOwnedByOne
  BY MarkersAssumption, KindsAssumption, ConfirmersAssumption
  DEF ManagedInit, Setup!Init, LockOwnedByOne, SetupLocked, Setup!Executing,
      Holding, Executing
<1>4. SetupStages /\ ConfirmStages /\ BothTrusted
  BY DEF ManagedInit, Setup!Init, SetupStages, ConfirmStages, BothTrusted,
         Setup!Executing, Executing
<1>5. I!Init
  BY DEF ManagedInit, Setup!Init, I!Init, SetupPlan, Written
<1>. QED
  BY <1>1, <1>2, <1>3, <1>4, <1>5 DEF BothInv

\* Every step of every client, and every edit.
LEMMA BothInvNext ==
  BothInv /\ [ManagedNext]_managedVars => BothInv' /\ [I!Next]_(I!vars)
<1> SUFFICES ASSUME BothInv, [ManagedNext]_managedVars
             PROVE  BothInv' /\ [I!Next]_(I!vars)
  OBVIOUS
<1>1. CASE ManagedEdit
  <2>1. /\ registry' \in RegistryEdits \ {registry}
        /\ edited' = TRUE
        /\ UNCHANGED <<record, lock, lineage, calm, setupVars, confirmationVars>>
    BY <1>1 DEF ManagedEdit, EditRegistry
  <2>2. BothInv'
    BY <2>1, MarkersAssumption
    DEF setupVars, confirmationVars, fileVars, historyVars, clientVars,
        BothInv, Setup!TypeOK, Setup!SharedTypeOK, ConfirmTypeOK,
        LockOwnedByOne, SetupStages, Committed, ConfirmStages, BothTrusted
  <2>3. I!EditRegistry
    BY <2>1
    DEF setupVars, confirmationVars, fileVars, historyVars, clientVars,
        I!EditRegistry, SetupPlan, Written
  <2>. QED
    BY <2>2, <2>3 DEF I!Next
<1>2. CASE UNCHANGED managedVars
  <2>1. BothInv'
    BY <1>2
    DEF managedVars, sharedVars, setupVars, confirmationVars, fileVars,
        historyVars, clientVars, BothInv, Setup!TypeOK, Setup!SharedTypeOK,
        ConfirmTypeOK, LockOwnedByOne, SetupStages, Committed, ConfirmStages,
        BothTrusted
  <2>2. UNCHANGED I!vars
    BY <1>2
    DEF managedVars, sharedVars, setupVars, confirmationVars, fileVars,
        historyVars, clientVars, I!vars, SetupPlan, Written
  <2>. QED
    BY <2>1, <2>2
<1>. QED
  BY <1>1, <1>2, SetupPart, ConfirmationPart DEF ManagedNext

\* The invariant holds of every behaviour of both.
LEMMA ManagedInvariance == ManagedSpec => []BothInv
  BY BothInvInit, BothInvNext, PTL DEF ManagedSpec

\* Setup and confirmation, however many clients of both kinds race, wait, die
\* and resume, change the files as two transactions without processes would.
THEOREM ManagedRefinement == ManagedSpec => ImplementsInstallation
  BY BothInvInit, BothInvNext, ManagedInvariance, PTL
  DEF ManagedSpec, ImplementsInstallation, I!Spec

\* The trusted digest moves by an authorised envelope, or by an install whose
\* plan showed it.
THEOREM ManagedConsent == ManagedSpec => TrustMovesOnlyByConsent
<1>1. ASSUME BothInv, [ManagedNext]_managedVars, record # None, record' # None,
             record'.adopted # record.adopted
      PROVE  \/ \E e \in authorized :
                   e.result = record'.adopted /\ pending = e
             \/ /\ setupPending # None
                /\ setupPending.op = "install"
                /\ setupPending.digest = record'.adopted
  <2>1. record \in Setup!Records
    BY <1>1 DEF BothInv, Setup!TypeOK, Setup!SharedTypeOK
  <2>2. ASSUME NEW p \in Installers, Setup!CommitRecord(p)
        PROVE  /\ setupPending # None
               /\ setupPending.op = "install"
               /\ setupPending.digest = record'.adopted
    <3>1. setupPending = setupJob[p] /\ setupPending # None
      BY <1>1, <2>2, SetupAssumption
      DEF Setup!CommitRecord, BothInv, SetupStages, Setup!Executing
    <3>2. setupJob[p].op = "install" /\ record'.adopted = setupJob[p].digest
      BY <1>1, <2>1, <2>2 DEF Setup!CommitRecord, Setup!Records
    <3>. QED
      BY <3>1, <3>2
  <2>3. ASSUME NEW p \in Confirmers, WriteRecord(p)
        PROVE  pending \in authorized /\ pending.result = record'.adopted
    <3>1. pending = job[p] /\ pending # None
      BY <1>1, <2>3
      DEF WriteRecord, BothInv, ConfirmStages, Executing
    <3>. QED
      BY <1>1, <2>1, <2>3, <3>1
      DEF WriteRecord, BothInv, BothTrusted, Setup!Records
  <2>4. CASE /\ \A p \in Installers : ~Setup!CommitRecord(p)
             /\ \A p \in Confirmers : ~WriteRecord(p)
    <3>1. ASSUME SetupNext PROVE record' = record
      BY <2>4, <3>1
      DEF SetupNext, Setup!ClientNext, Setup!Step, Setup!Preview,
          Setup!PreviewRefused, Setup!Repeat, Setup!AcquireLock,
          Setup!LockTimeout, Setup!Abort, Setup!AlreadyApplied, Setup!Apply,
          Setup!Resume, Setup!Prepare, Setup!Refused, Setup!ApplyConfig,
          Setup!ClearPending, Setup!EditConfig, Setup!sharedVars, Setup!vars
    <3>2. ASSUME ConfirmationNext PROVE record' = record
      BY <2>4, <3>2
      DEF ConfirmationNext, ClientNext, Start, Step,
          ProposeStart, ConfirmStart, RecoverStart,
          AcquireLock, LockTimeout, Propose,
          ProposeRefused, ConfirmResumes,
          AlreadyConfirmed, RepeatedConflict,
          ConfirmPrepare, ConfirmRefused,
          RecoverResumes, RecoverNothing,
          ReadRegistry, ReadConflict, WriteRegistry,
          WriteConfirmation, UnlinkPending,
          UnlinkFails, Review, Abort,
          LegacyDraft, sharedVars
    <3>3. record' = record
      BY <1>1, <3>1, <3>2
      DEF ManagedNext, ManagedEdit, EditRegistry, managedVars, sharedVars
    <3>. QED
      BY <1>1, <3>3
  <2>. QED
    BY <2>2, <2>3, <2>4
<1>2. BothInv /\ [ManagedNext]_managedVars =>
        [record # None /\ record' # None /\ record'.adopted # record.adopted =>
            \/ \E e \in authorized :
                  e.result = record'.adopted /\ pending = e
            \/ /\ setupPending # None
               /\ setupPending.op = "install"
               /\ setupPending.digest = record'.adopted]_managedVars
  BY <1>1
<1>. QED
  BY <1>2, ManagedInvariance, PTL DEF ManagedSpec, TrustMovesOnlyByConsent

=============================================================================
