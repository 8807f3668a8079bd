---------------------------- MODULE Confirmation ----------------------------
(***************************************************************************)
(* The managed propose / confirm / recover transaction (confirmation.py).  *)
(*                                                                         *)
(* Each client is one command-line process.  Between two of its steps any  *)
(* other client may run, the registry may be edited by hand, and the       *)
(* process may die: its locals are lost, the kernel drops its flock, the   *)
(* files stay as the last atomic replace left them.                        *)
(*                                                                         *)
(* An envelope is the pair of digests it binds; its own SHA-256 stands for *)
(* it, so the digest a maintainer passes to confirm is the envelope.  The  *)
(* pending record and the confirmation record carry the same pair.         *)
(***************************************************************************)
EXTENDS ManagedState

CONSTANTS
    Confirmers,   \* the clients that run propose, confirm and recover
    Results       \* Results[c]: what one add or resolve can make of c

ASSUME ConfirmersAssumption == Confirmers \subseteq Clients
ASSUME ResultsAssumption ==
    Results \in [Contents \cup {None} -> SUBSET Contents]

Envelopes == [expected : Contents \cup {None}, result : Contents]

ASSUME EnvelopesAssumption == None \notin Envelopes

VARIABLES
    proposal,     \* spellguard/managed-proposal.json in the Git metadata
    legacyDraft,  \* an unmanaged spellguard/proposal.json exists
    pending,      \* confirmation-pending.json
    confirmation, \* confirmation.json
    previewed,    \* history: envelopes shown to the maintainer by propose
    authorized,   \* history: envelopes the maintainer passed to confirm
    pc,           \* where each client is
    job,          \* the envelope each client is confirming
    rec           \* the installation record each client loaded at its start

fileVars == <<proposal, legacyDraft, pending, confirmation>>
historyVars == <<previewed, authorized>>
clientVars == <<pc, job, rec>>
confirmationVars == <<fileVars, historyVars, clientVars>>
vars == <<sharedVars, confirmationVars>>

Waiting == {"propose", "confirm", "recover"}
Executing == {"execute", "writeRegistry", "writeConfirmation", "writeRecord",
              "unlinkPending"}
Holding == {"proposeLocked", "confirmLocked", "recoverLocked", "review"}
              \cup Executing

Init ==
    /\ registry \in Contents \cup {None}
    /\ record = [lifecycle |-> "active", adopted |-> registry]
    /\ lock = None
    /\ edited = FALSE
    /\ lineage = {registry}
    /\ calm = FALSE
    /\ proposal = None
    /\ legacyDraft = FALSE
    /\ pending = None
    /\ confirmation = None
    /\ previewed = {}
    /\ authorized = {}
    /\ pc = [p \in Confirmers |-> "idle"]
    /\ job = [p \in Confirmers |-> None]
    /\ rec = [p \in Confirmers |-> None]

-----------------------------------------------------------------------------
(* Helpers                                                                 *)

Goto(p, label) == pc' = [pc EXCEPT ![p] = label]

\* Leave the command with the installation lock released, whatever its result.
Return(p) ==
    /\ Goto(p, "idle")
    /\ job' = [job EXCEPT ![p] = None]
    /\ rec' = [rec EXCEPT ![p] = None]
    /\ lock' = IF lock = p THEN None ELSE lock

\* load_installation and the lifecycle test that precede the lock in all
\* three commands.
LoadRecord(p) ==
    /\ record # None
    /\ record.lifecycle = "active"
    /\ rec' = [rec EXCEPT ![p] = record]

\* _require_adopted on a present registry, _require_bound_absent on an
\* absent one; an unreadable one was refused when it was read.
RequireAdopted(r) == registry = r.adopted

VerifyPreimage(e, r) ==
    /\ registry = e.expected
    /\ RequireAdopted(r)

-----------------------------------------------------------------------------
(* Start of a command and the lock                                         *)

\* propose_change looks for an unmanaged draft before it takes the lock.
ProposeStart(p) ==
    /\ pc[p] = "idle"
    /\ LoadRecord(p)
    /\ ~legacyDraft
    /\ Goto(p, "propose")
    /\ UNCHANGED <<sharedVars, fileVars, historyVars, job>>

\* The maintainer types the digest of an envelope that was previewed.
ConfirmStart(p, e) ==
    /\ pc[p] = "idle"
    /\ LoadRecord(p)
    /\ authorized' = authorized \cup {e}
    /\ job' = [job EXCEPT ![p] = e]
    /\ Goto(p, "confirm")
    /\ UNCHANGED <<sharedVars, fileVars, previewed>>

RecoverStart(p) ==
    /\ pc[p] = "idle"
    /\ LoadRecord(p)
    /\ Goto(p, "recover")
    /\ UNCHANGED <<sharedVars, fileVars, historyVars, job>>

AcquireLock(p) ==
    /\ pc[p] \in Waiting
    /\ LockFree
    /\ lock' = p
    /\ Goto(p, CASE pc[p] = "propose" -> "proposeLocked"
                 [] pc[p] = "confirm" -> "confirmLocked"
                 [] pc[p] = "recover" -> "recoverLocked")
    /\ UNCHANGED <<registry, record, edited, lineage, calm, fileVars, historyVars,
                   job, rec>>

\* Five seconds of polling end in INSTALLATION_BUSY.
LockTimeout(p) ==
    /\ ~calm
    /\ pc[p] \in Waiting
    /\ ~LockFree
    /\ Return(p)
    /\ UNCHANGED <<registry, record, edited, lineage, calm, fileVars, historyVars>>

-----------------------------------------------------------------------------
(* propose, under the lock                                                 *)

\* _propose_locked: the registry must be the adopted one of the record loaded
\* before the lock; the envelope replaces any earlier one.
Propose(p) ==
    /\ pc[p] = "proposeLocked"
    /\ RequireAdopted(rec[p])
    /\ \E result \in Results[registry] :
          LET e == [expected |-> registry, result |-> result]
          IN  /\ proposal' = e
              /\ previewed' = previewed \cup {e}
    /\ Return(p)
    /\ UNCHANGED <<registry, record, edited, lineage, calm, legacyDraft, pending,
                   confirmation, authorized>>

\* REGISTRY_DRIFT, REGISTRY_MISSING, REGISTRY_READ_FAILED, or a change that
\* the current registry does not admit.
ProposeRefused(p) ==
    /\ pc[p] = "proposeLocked"
    /\ Return(p)
    /\ UNCHANGED <<registry, record, edited, lineage, calm, fileVars, historyVars>>

-----------------------------------------------------------------------------
(* confirm, under the lock                                                 *)

\* An earlier run of the same confirmation stopped half way: finish it.
ConfirmResumes(p) ==
    /\ pc[p] = "confirmLocked"
    /\ pending = job[p]
    /\ Goto(p, "execute")
    /\ UNCHANGED <<sharedVars, fileVars, historyVars, job, rec>>

\* No transaction is pending and the last one was this very envelope.
Repeated(p) ==
    /\ pc[p] = "confirmLocked"
    /\ pending = None
    /\ confirmation = job[p]

AlreadyConfirmed(p) ==
    /\ Repeated(p)
    /\ registry = confirmation.result
    /\ rec[p].adopted = confirmation.result
    /\ Goto(p, "review")
    /\ UNCHANGED <<sharedVars, fileVars, historyVars, job, rec>>

\* CONFIRMATION_CONFLICT on a repeated confirmation.
RepeatedConflict(p) ==
    /\ Repeated(p)
    /\ \/ registry # confirmation.result
       \/ rec[p].adopted # confirmation.result
    /\ Return(p)
    /\ UNCHANGED <<registry, record, edited, lineage, calm, fileVars, historyVars>>

\* Mutated form: whatever envelope is on file is taken for the one authorised.
AnyProposal(p) == proposal # None

\* The envelope read again under the lock is the one that was authorised.
ProposalAuthorized(p) == proposal = job[p]

\* Mutated form: a pending transaction of somebody else is not looked for.
ConfirmPrepareOverPending(p) ==
    /\ pc[p] = "confirmLocked"
    /\ confirmation # job[p]
    /\ ProposalAuthorized(p)
    /\ VerifyPreimage(proposal, rec[p])
    /\ pending' = proposal
    /\ job' = [job EXCEPT ![p] = proposal]
    /\ Goto(p, "execute")
    /\ UNCHANGED <<sharedVars, proposal, legacyDraft, confirmation,
                   historyVars, rec>>

\* Mutated form: the registry is written with no pending record before it.
ConfirmPrepareUnlogged(p) ==
    /\ pc[p] = "confirmLocked"
    /\ pending = None
    /\ confirmation # job[p]
    /\ ProposalAuthorized(p)
    /\ VerifyPreimage(proposal, rec[p])
    /\ Goto(p, "execute")
    /\ UNCHANGED <<sharedVars, fileVars, historyVars, job, rec>>

\* Its preimage holds: leave the pending record, then work from it.
ConfirmPrepare(p) ==
    /\ pc[p] = "confirmLocked"
    /\ pending = None
    /\ confirmation # job[p]
    /\ ProposalAuthorized(p)
    /\ VerifyPreimage(proposal, rec[p])
    /\ pending' = proposal
    /\ job' = [job EXCEPT ![p] = proposal]
    /\ Goto(p, "execute")
    /\ UNCHANGED <<sharedVars, proposal, legacyDraft, confirmation,
                   historyVars, rec>>

\* CONFIRMATION_BUSY, PROPOSAL_NOT_FOUND, PROPOSAL_CHANGED, REGISTRY_CHANGED,
\* REGISTRY_DRIFT, REGISTRY_MISSING, REGISTRY_READ_FAILED.
ConfirmRefused(p) ==
    /\ pc[p] = "confirmLocked"
    /\ \/ pending \notin {None, job[p]}
       \/ /\ pending = None
          /\ confirmation # job[p]
          /\ ~ (ProposalAuthorized(p) /\ VerifyPreimage(proposal, rec[p]))
    /\ Return(p)
    /\ UNCHANGED <<registry, record, edited, lineage, calm, fileVars, historyVars>>

-----------------------------------------------------------------------------
(* recover, under the lock                                                 *)

\* recover_confirmation replays a pending record and never creates one.
RecoverResumes(p) ==
    /\ pc[p] = "recoverLocked"
    /\ pending # None
    /\ job' = [job EXCEPT ![p] = pending]
    /\ Goto(p, "execute")
    /\ UNCHANGED <<sharedVars, fileVars, historyVars, rec>>

RecoverNothing(p) ==
    /\ pc[p] = "recoverLocked"
    /\ pending = None
    /\ Return(p)
    /\ UNCHANGED <<registry, record, edited, lineage, calm, fileVars, historyVars>>

-----------------------------------------------------------------------------
(* _execute_confirmation, one action for each file it reads or replaces    *)

\* Mutated form: a registry that already is the result is not recognised.
ReadRegistryPreimageOnly(p) ==
    /\ pc[p] = "execute"
    /\ IF registry = job[p].expected
       THEN /\ Goto(p, "writeRegistry")
            /\ UNCHANGED <<lock, job, rec>>
       ELSE Return(p)
    /\ UNCHANGED <<registry, record, edited, lineage, calm, fileVars, historyVars>>

\* The registry is already the result, or still the preimage.
ReadRegistry(p) ==
    /\ pc[p] = "execute"
    /\ \/ /\ registry = job[p].result
          /\ Goto(p, "writeConfirmation")
       \/ /\ registry # job[p].result
          /\ registry = job[p].expected
          /\ Goto(p, "writeRegistry")
    /\ UNCHANGED <<sharedVars, fileVars, historyVars, job, rec>>

\* CONFIRMATION_CONFLICT on a third content (or REGISTRY_READ_FAILED): the
\* pending record stays.
ReadConflict(p) ==
    /\ pc[p] = "execute"
    /\ registry \notin {job[p].result, job[p].expected}
    /\ Return(p)
    /\ UNCHANGED <<registry, record, edited, lineage, calm, fileVars, historyVars>>

\* Replaces the file whatever it has become since ReadRegistry.
WriteRegistry(p) ==
    /\ pc[p] = "writeRegistry"
    /\ registry' = job[p].result
    /\ Goto(p, "writeConfirmation")
    /\ UNCHANGED <<record, lock, edited, lineage, calm, fileVars, historyVars,
                   job, rec>>

\* Mutated form: the pending record goes before the adopted digest is written.
WriteConfirmationUnlinking(p) ==
    /\ pc[p] = "writeConfirmation"
    /\ confirmation' = job[p]
    /\ pending' = None
    /\ Goto(p, "writeRecord")
    /\ UNCHANGED <<sharedVars, proposal, legacyDraft, historyVars, job, rec>>

\* First half of _commit_confirmation.
WriteConfirmation(p) ==
    /\ pc[p] = "writeConfirmation"
    /\ confirmation' = job[p]
    /\ Goto(p, "writeRecord")
    /\ UNCHANGED <<sharedVars, proposal, legacyDraft, pending, historyVars,
                   job, rec>>

\* Mutated form: the digest of the proposal is stored as the adopted digest.
WriteRecordProposalDigest(p) ==
    /\ pc[p] = "writeRecord"
    /\ record' = [record EXCEPT !.adopted = job[p]]
    /\ lineage' = lineage \cup {job[p].result}
    /\ Goto(p, "unlinkPending")
    /\ UNCHANGED <<registry, lock, edited, calm, fileVars, historyVars, job, rec>>

\* Second half: installation.json is read again, so only its adopted digest
\* changes.
WriteRecord(p) ==
    /\ pc[p] = "writeRecord"
    /\ record' = [record EXCEPT !.adopted = job[p].result]
    /\ lineage' = lineage \cup {job[p].result}
    /\ Goto(p, "unlinkPending")
    /\ UNCHANGED <<registry, lock, edited, calm, fileVars, historyVars, job, rec>>

UnlinkPending(p) ==
    /\ pc[p] = "unlinkPending"
    /\ pending' = None
    /\ Goto(p, "review")
    /\ UNCHANGED <<sharedVars, proposal, legacyDraft, confirmation,
                   historyVars, job, rec>>

\* The unlink fails: the command reports recovery_required and goes on.
UnlinkFails(p) ==
    /\ ~calm
    /\ pc[p] = "unlinkPending"
    /\ Goto(p, "review")
    /\ UNCHANGED <<sharedVars, fileVars, historyVars, job, rec>>

\* _confirmed_result runs the check inside the with-block of the lock.
Review(p) ==
    /\ pc[p] = "review"
    /\ Return(p)
    /\ UNCHANGED <<registry, record, edited, lineage, calm, fileVars, historyVars>>

-----------------------------------------------------------------------------
(* Faults and the environment                                              *)

\* The process is killed, or one of its reads or writes raises.
Abort(p) ==
    /\ ~calm
    /\ pc[p] # "idle"
    /\ Return(p)
    /\ UNCHANGED <<registry, record, edited, lineage, calm, fileVars, historyVars>>

\* The unmanaged flow (marking.py) leaves or removes its own draft.
LegacyDraft ==
    /\ legacyDraft' = ~legacyDraft
    /\ UNCHANGED <<sharedVars, proposal, pending, confirmation, historyVars,
                   clientVars>>

Edit == (EditRegistry \/ CalmDown) /\ UNCHANGED confirmationVars

Start(p) ==
    \/ ProposeStart(p)
    \/ \E e \in previewed : ConfirmStart(p, e)
    \/ RecoverStart(p)

\* What a client that has the lock does next, unless it aborts.
Step(p) ==
    \/ Propose(p) \/ ProposeRefused(p)
    \/ ConfirmResumes(p) \/ AlreadyConfirmed(p) \/ RepeatedConflict(p)
    \/ ConfirmPrepare(p) \/ ConfirmRefused(p)
    \/ RecoverResumes(p) \/ RecoverNothing(p)
    \/ ReadRegistry(p) \/ ReadConflict(p) \/ WriteRegistry(p)
    \/ WriteConfirmation(p) \/ WriteRecord(p)
    \/ UnlinkPending(p) \/ UnlinkFails(p)
    \/ Review(p)

ClientNext ==
    \E p \in Confirmers :
        \/ Start(p)
        \/ AcquireLock(p)
        \/ LockTimeout(p)
        \/ Step(p)
        \/ Abort(p)

Next == ClientNext \/ LegacyDraft \/ Edit

Spec == Init /\ [][Next]_vars


\* A command that runs is not suspended for ever; a recovery that is still
\* needed is invoked again, and waiting clients get the lock in turn.
Fairness ==
    \A p \in Confirmers :
        /\ WF_vars(Step(p))
        /\ SF_vars(RecoverStart(p))
        /\ SF_vars(AcquireLock(p))

FairSpec == Spec /\ Fairness

-----------------------------------------------------------------------------
(* Properties                                                              *)

\* Every file holds what its parser accepts, and a client's locals are those
\* of its place in the code.
TypeOK ==
    /\ SharedTypeOK
    /\ record # None
    /\ proposal \in Envelopes \cup {None}
    /\ legacyDraft \in BOOLEAN
    /\ pending \in Envelopes \cup {None}
    /\ confirmation \in Envelopes \cup {None}
    /\ previewed \subseteq Envelopes
    /\ authorized \subseteq Envelopes
    /\ pc \in [Confirmers -> {"idle"} \cup Waiting \cup Holding]
    /\ job \in [Confirmers -> Envelopes \cup {None}]
    /\ rec \in [Confirmers -> Records \cup {None}]
    /\ \A p \in Confirmers :
          /\ pc[p] # "idle" => rec[p] \in Records
          /\ pc[p] \in {"confirm", "confirmLocked"} \cup Executing =>
                job[p] \in Envelopes

\* Crash atomicity of the two-file commit: whatever process died between
\* confirmation.json and installation.json, once no transaction is pending the
\* last confirmation and the digest the hooks trust agree.
CommitAtomic ==
    pending = None /\ confirmation # None =>
        record.adopted = confirmation.result

\* If nobody edits the registry by hand then, whatever crashes and whichever
\* commands race, a registry that is not the adopted one always comes with a
\* pending transaction that names both its old and its new content.
RegistryFollowsAdoption ==
    ~edited =>
        IF pending = None
        THEN registry = record.adopted
        ELSE registry \in {pending.expected, pending.result}

\* The pending record is the only way back into a half-done confirmation: it
\* is never replaced by another one, and it goes only after the registry
\* write, the confirmation record and the adopted digest are all behind it.
PendingKeptUntilCommitted ==
    [][pending # None /\ pending' # pending =>
          /\ pending' = None
          /\ confirmation = pending
          /\ record.adopted = pending.result]_vars

\* The trusted digest moves only by authorised envelopes that start from a
\* digest that was trusted (the abstract specification).
A == INSTANCE Adoption WITH adopted <- record.adopted

ImplementsAdoption == A!Spec

\* Once crashes, failing writes, lock timeouts and edits have stopped, a
\* pending transaction that still fits the registry is completed by recovery.
PendingRecovered ==
    (calm /\ pending # None) ~>
        \/ pending = None
        \/ registry \notin {pending.expected, pending.result}

=============================================================================
