-------------------------------- MODULE Setup --------------------------------
(***************************************************************************)
(* The managed installation (installation.py): plan_setup previews, and    *)
(* apply_setup executes under the installation lock, the plan whose digest *)
(* the maintainer echoes; a pending record makes an interrupted run        *)
(* resumable.                                                              *)
(*                                                                         *)
(* hooks.json is known by what setup can tell apart: the events that carry *)
(* this installation's hook, whether something in it forbids a plan (a     *)
(* second or a foreign Spellguard entry), and all the rest, up to events   *)
(* with no hooks.  A plan is the record of what its digest covers.         *)
(***************************************************************************)
EXTENDS ManagedState

CONSTANTS
    Installers,   \* the clients that run setup
    Events,       \* the host events that need a hook
    Others,       \* what else hooks.json may hold
    Empty,        \* the member of Others that is nothing at all
    HostEdits     \* what a user may make of hooks.json

Configs == [owned : SUBSET Events, clash : BOOLEAN, other : Others]
Files == Configs \cup {None, Unreadable}

ASSUME SetupAssumption ==
    /\ Installers \subseteq Clients
    /\ Events # {}
    /\ Empty \in Others
    /\ HostEdits \subseteq Files
    /\ {None, Unreadable} \cap Configs = {}

VARIABLES
    config,       \* <repo>/.codex/hooks.json
    hostEdited,   \* history: hooks.json is as a user, not setup, left it
    manifest,     \* created_config and applied_plan_digest of the record
    pending,      \* setup-pending.json
    pc,           \* where each client is
    job           \* the plan each client was told to apply

setupVars == <<config, hostEdited, manifest, pending, pc, job>>
vars == <<sharedVars, setupVars>>

RegistryStates == {"absent", "unreadable", "unbound", "bound", "drifted"}

Plans == [op : {"install", "remove"}, pre : Configs \cup {None},
          post : Configs \cup {None}, created : BOOLEAN, manifest : BOOLEAN,
          state : RegistryStates, digest : Contents \cup {None}]

ASSUME PlansAssumption == None \notin Plans

Manifests == [created : BOOLEAN, applied : Plans \cup {None}]

Executing == {"applyConfig", "commitRecord", "clearPending"}
Labels == {"idle", "previewed", "setup", "setupLocked"} \cup Executing

Init ==
    /\ registry \in Contents \cup {None, Unreadable}
    /\ record = None
    /\ lock = None
    /\ edited = FALSE
    /\ lineage = {}
    /\ calm = FALSE
    /\ config \in HostEdits
    /\ hostEdited = TRUE
    /\ manifest = [created |-> FALSE, applied |-> None]
    /\ pending = None
    /\ pc = [p \in Installers |-> "idle"]
    /\ job = [p \in Installers |-> None]

-----------------------------------------------------------------------------
(* Plans                                                                   *)

\* _refine_registry_state.
RegistryState ==
    CASE registry = None -> "absent"
      [] registry = Unreadable -> "unreadable"
      [] registry \in Contents ->
            IF record = None THEN "unbound"
            ELSE IF record.adopted = None THEN "unbound"
            ELSE IF record.adopted = registry THEN "bound"
            ELSE "drifted"

\* The host configuration can be read and holds nothing that forbids a plan.
Plannable == config \in Configs => ~config.clash

OwnedEvents == IF config = None THEN {} ELSE config.owned

Active == record # None /\ record.lifecycle = "active"

\* Mutated form: an unreadable registry has a digest of its own.
PlanBaseRawDigest(op, post, manifestChange) ==
    [op |-> op, pre |-> config, post |-> post,
     created |-> IF record = None THEN config = None ELSE manifest.created,
     manifest |-> manifestChange,
     state |-> RegistryState,
     digest |-> registry]

\* Fields both plans have; a record remembers who created hooks.json.
PlanBase(op, post, manifestChange) ==
    [op |-> op, pre |-> config, post |-> post,
     created |-> IF record = None THEN config = None ELSE manifest.created,
     manifest |-> manifestChange,
     state |-> RegistryState,
     digest |-> IF registry = Unreadable THEN None ELSE registry]

\* An unreadable registry and a half-present set of hooks refuse an install.
CanInstall ==
    /\ config # Unreadable
    /\ Plannable
    /\ registry # Unreadable
    /\ OwnedEvents \in {{}, Events}

InstallPlan ==
    PlanBase("install",
             [owned |-> Events, clash |-> FALSE,
              other |-> IF config = None THEN Empty ELSE config.other],
             ~Active)

CanRemove == config # Unreadable /\ Plannable

\* Mutated form: a file that holds nothing else is deleted, whoever created it.
LeftoverBlankDeleted ==
    IF config = None \/ config.other = Empty THEN None
    ELSE [config EXCEPT !.owned = {}]

\* Mutated form: a file that setup created is emptied and left behind.
LeftoverNeverDeleted ==
    IF config = None THEN None ELSE [config EXCEPT !.owned = {}]

\* What is left without our hooks; a file that setup created and that holds
\* nothing else is deleted.
Leftover ==
    IF config = None THEN None
    ELSE IF config.other = Empty /\ record # None /\ manifest.created THEN None
    ELSE [config EXCEPT !.owned = {}]

RemovePlan == PlanBase("remove", Leftover, Active)

CurrentPlans ==
    (IF CanInstall THEN {InstallPlan} ELSE {})
      \cup (IF CanRemove THEN {RemovePlan} ELSE {})

-----------------------------------------------------------------------------
(* Start of a command and the lock                                         *)

Goto(p, label) == pc' = [pc EXCEPT ![p] = label]

Return(p) ==
    /\ Goto(p, "idle")
    /\ job' = [job EXCEPT ![p] = None]
    /\ lock' = IF lock = p THEN None ELSE lock

\* A plan is refused before anything is written, by what the files hold.
PreviewRefused(p) ==
    /\ pc[p] = "idle"
    /\ CurrentPlans = {}
    /\ UNCHANGED vars

\* plan_setup, and the maintainer calls apply_setup with the digest shown.
Preview(p) ==
    /\ pc[p] = "idle"
    /\ \E plan \in CurrentPlans : job' = [job EXCEPT ![p] = plan]
    /\ Goto(p, "previewed")
    /\ UNCHANGED <<sharedVars, config, hostEdited, manifest, pending>>

\* The maintainer repeats the digest of an interrupted setup.
Repeat(p) ==
    /\ pc[p] = "idle"
    /\ pending # None
    /\ job' = [job EXCEPT ![p] = pending]
    /\ Goto(p, "previewed")
    /\ UNCHANGED <<sharedVars, config, hostEdited, manifest, pending>>

\* The test that precedes the lock: this digest is the last one applied.
AlreadyApplied(p) ==
    /\ pc[p] = "previewed"
    /\ manifest.applied = job[p]
    /\ Return(p)
    /\ UNCHANGED <<registry, record, edited, lineage, calm, config, hostEdited,
                   manifest, pending>>

Apply(p) ==
    /\ pc[p] = "previewed"
    /\ manifest.applied # job[p]
    /\ Goto(p, "setup")
    /\ UNCHANGED <<sharedVars, config, hostEdited, manifest, pending, job>>

AcquireLock(p) ==
    /\ pc[p] = "setup"
    /\ LockFree
    /\ lock' = p
    /\ Goto(p, "setupLocked")
    /\ UNCHANGED <<registry, record, edited, lineage, calm, config, hostEdited,
                   manifest, pending, job>>

LockTimeout(p) ==
    /\ ~calm
    /\ pc[p] = "setup"
    /\ ~LockFree
    /\ Return(p)
    /\ UNCHANGED <<registry, record, edited, lineage, calm, config, hostEdited,
                   manifest, pending>>

-----------------------------------------------------------------------------
(* apply_setup, under the lock                                             *)

\* Mutated form: a configuration that is already written is not recognised.
ResumePreimageOnly(p) ==
    /\ pc[p] = "setupLocked"
    /\ pending = job[p]
    /\ IF config = pending.pre
       THEN Goto(p, "applyConfig") /\ UNCHANGED <<lock, job>>
       ELSE Return(p)
    /\ UNCHANGED <<registry, record, edited, lineage, calm, config, hostEdited,
                   manifest, pending>>

\* _resume_setup: the configuration is still the preimage, or already the
\* postimage.
Resume(p) ==
    /\ pc[p] = "setupLocked"
    /\ pending = job[p]
    /\ \/ config = pending.pre /\ Goto(p, "applyConfig")
       \/ /\ config # pending.pre
          /\ config = pending.post
          /\ Goto(p, "commitRecord")
    /\ UNCHANGED <<sharedVars, config, hostEdited, manifest, pending, job>>

\* Mutated form: the interrupted setup of somebody else is not looked for.
PrepareOverPending(p) ==
    /\ pc[p] = "setupLocked"
    /\ manifest.applied # job[p]
    /\ job[p] \in CurrentPlans
    /\ pending' = job[p]
    /\ Goto(p, "applyConfig")
    /\ UNCHANGED <<sharedVars, config, hostEdited, manifest, job>>

\* Nothing is pending, this digest was not committed while the client waited,
\* and the plan derived from the files as they are now has the same digest.
Prepare(p) ==
    /\ pc[p] = "setupLocked"
    /\ pending = None
    /\ manifest.applied # job[p]
    /\ job[p] \in CurrentPlans
    /\ pending' = job[p]
    /\ Goto(p, "applyConfig")
    /\ UNCHANGED <<sharedVars, config, hostEdited, manifest, job>>

\* SETUP_BUSY, SETUP_CONFLICT, an already applied digest, SETUP_PLAN_CHANGED
\* and every refusal of the plan itself.
Refused(p) ==
    /\ pc[p] = "setupLocked"
    /\ \/ pending \notin {None, job[p]}
       \/ pending = job[p] /\ config \notin {pending.pre, pending.post}
       \/ /\ pending = None
          /\ \/ manifest.applied = job[p]
             \/ job[p] \notin CurrentPlans
    /\ Return(p)
    /\ UNCHANGED <<registry, record, edited, lineage, calm, config, hostEdited,
                   manifest, pending>>

\* Writes or deletes hooks.json whatever it has become since it was read.
ApplyConfig(p) ==
    /\ pc[p] = "applyConfig"
    /\ config' = job[p].post
    /\ hostEdited' = FALSE
    /\ Goto(p, "commitRecord")
    /\ UNCHANGED <<sharedVars, manifest, pending, job>>

\* Mutated form: a removal keeps the lifecycle it found.
CommitRecordStaysActive(p) ==
    LET plan == job[p]
    IN  /\ pc[p] = "commitRecord"
        /\ IF plan.op = "install"
           THEN /\ record' = [lifecycle |-> "active", adopted |-> plan.digest]
                /\ lineage' = lineage \cup {plan.digest}
           ELSE UNCHANGED <<record, lineage>>
        /\ manifest' = [created |-> plan.created, applied |-> plan]
        /\ Goto(p, "clearPending")
        /\ UNCHANGED <<registry, lock, edited, calm, config, hostEdited,
                       pending, job>>

\* Mutated form: an install, resumed or not, adopts the registry it finds.
CommitRecordAdoptsFound(p) ==
    LET plan == job[p]
        found == IF registry = Unreadable THEN None ELSE registry
    IN  /\ pc[p] = "commitRecord"
        /\ IF plan.op = "install"
           THEN /\ record' = [lifecycle |-> "active", adopted |-> found]
                /\ lineage' = lineage \cup {found}
           ELSE /\ record' = IF record = None THEN None
                             ELSE [record EXCEPT !.lifecycle = "disabled"]
                /\ UNCHANGED lineage
        /\ manifest' = [created |-> plan.created, applied |-> plan]
        /\ Goto(p, "clearPending")
        /\ UNCHANGED <<registry, lock, edited, calm, config, hostEdited,
                       pending, job>>

\* Mutated form: a removal trusts the registry its plan has seen.
CommitRecordRemovalAdopts(p) ==
    LET plan == job[p]
        lifecycle == IF plan.op = "install" THEN "active" ELSE "disabled"
    IN  /\ pc[p] = "commitRecord"
        /\ record' = [lifecycle |-> lifecycle, adopted |-> plan.digest]
        /\ manifest' = [created |-> plan.created, applied |-> plan]
        /\ lineage' = lineage \cup {plan.digest}
        /\ Goto(p, "clearPending")
        /\ UNCHANGED <<registry, lock, edited, calm, config, hostEdited,
                       pending, job>>

\* _commit_record: an install adopts the registry digest of the plan, a
\* removal keeps the adopted one and needs a record to disable.
CommitRecord(p) ==
    LET plan == job[p]
    IN  /\ pc[p] = "commitRecord"
        /\ \/ /\ plan.op = "install"
              /\ record' = [lifecycle |-> "active", adopted |-> plan.digest]
              /\ manifest' = [created |-> plan.created, applied |-> plan]
              /\ lineage' = lineage \cup {plan.digest}
           \/ /\ plan.op = "remove"
              /\ record # None
              /\ record' = [record EXCEPT !.lifecycle = "disabled"]
              /\ manifest' = [created |-> plan.created, applied |-> plan]
              /\ UNCHANGED lineage
           \/ /\ plan.op = "remove"
              /\ record = None
              /\ UNCHANGED <<record, manifest, lineage>>
        /\ Goto(p, "clearPending")
        /\ UNCHANGED <<registry, lock, edited, calm, config, hostEdited,
                       pending, job>>

ClearPending(p) ==
    /\ pc[p] = "clearPending"
    /\ pending' = None
    /\ Return(p)
    /\ UNCHANGED <<registry, record, edited, lineage, calm, config, hostEdited,
                   manifest>>

-----------------------------------------------------------------------------
(* Faults, the environment and the specification                           *)

\* The preview is declined, the process is killed, or one of its reads or
\* writes raises.
Abort(p) ==
    /\ ~calm
    /\ pc[p] # "idle"
    /\ Return(p)
    /\ UNCHANGED <<registry, record, edited, lineage, calm, config, hostEdited,
                   manifest, pending>>

\* A user or another tool rewrites hooks.json without the lock.
EditConfig ==
    /\ ~calm
    /\ config' \in HostEdits \ {config}
    /\ hostEdited' = TRUE
    /\ UNCHANGED <<sharedVars, manifest, pending, pc, job>>

\* propose, confirm and recover take the same lock, and let it go.
OthersLock ==
    /\ LockFree
    /\ lock' \in Clients \ Installers
    /\ UNCHANGED <<registry, record, edited, lineage, calm, setupVars>>

OthersUnlock ==
    /\ lock \in Clients \ Installers
    /\ lock' = None
    /\ UNCHANGED <<registry, record, edited, lineage, calm, setupVars>>

Edit == (EditRegistry \/ CalmDown) /\ UNCHANGED setupVars

Step(p) ==
    \/ AlreadyApplied(p) \/ Apply(p)
    \/ Resume(p) \/ Prepare(p) \/ Refused(p)
    \/ ApplyConfig(p) \/ CommitRecord(p) \/ ClearPending(p)

ClientNext ==
    \E p \in Installers :
        \/ Preview(p) \/ PreviewRefused(p) \/ Repeat(p)
        \/ AcquireLock(p) \/ LockTimeout(p)
        \/ Step(p)
        \/ Abort(p)

Next == ClientNext \/ OthersLock \/ OthersUnlock \/ EditConfig \/ Edit

Spec == Init /\ [][Next]_vars

\* A command that was begun, from its preview on, goes on; the digest of an
\* interrupted setup is repeated, other commands end, and waiting clients get
\* the lock in turn.
Fairness ==
    \A p \in Installers :
        /\ WF_vars(Step(p))
        /\ SF_vars(Repeat(p))
        /\ SF_vars(AcquireLock(p))

FairSpec == Spec /\ Fairness /\ WF_vars(OthersUnlock)

-----------------------------------------------------------------------------
(* Properties                                                              *)

\* The files hold what their parsers accept; a client past its preview has a
\* plan.
TypeOK ==
    /\ SharedTypeOK
    /\ config \in Files
    /\ hostEdited \in BOOLEAN
    /\ manifest \in Manifests
    /\ pending \in Plans \cup {None}
    /\ pc \in [Installers -> Labels]
    /\ job \in [Installers -> Plans \cup {None}]

\* Unless a user rewrote hooks.json after setup did, a repository with no
\* setup pending has all of our hooks exactly while its record is active,
\* through any crash and any race of installs and removals.
HooksFollowLifecycle ==
    ~hostEdited /\ pending = None =>
        OwnedEvents = IF Active THEN Events ELSE {}

\* A started setup is never replaced by another one, and its pending record
\* goes only when the record says that its plan was applied (a removal where
\* nothing was ever installed leaves no record).
PendingKeptUntilCommitted ==
    [][pending # None /\ pending' # pending =>
          /\ pending' = None
          /\ \/ manifest.applied = pending
             \/ pending.op = "remove" /\ record = None]_vars

\* An active installation trusts exactly the registry digest that the reviewed
\* plan showed, however late the plan was completed; it trusts "no registry"
\* only when the plan showed an absent one, never for one it could not read.
AdoptedWasShown ==
    Active =>
        /\ manifest.applied # None
        /\ manifest.applied.op = "install"
        /\ record.adopted = manifest.applied.digest
        /\ record.adopted = None => manifest.applied.state = "absent"

OtherContent(file) == IF file = None THEN Empty ELSE file.other

\* A step of setup, not of a user, changes hooks.json.
Writes == config' # config /\ ~hostEdited'

\* A removal leaves no trace of its own: a hooks.json that setup created, and
\* that holds nothing else, is gone once the installation is disabled.
CreatedFileRemoved ==
    ~hostEdited /\ pending = None /\ record # None /\ ~Active
            /\ manifest.created =>
        config = None \/ config.other # Empty

\* Setup leaves alone what belongs to others ("Everything else in that file
\* keeps its value"), through any crash, repetition and edit: what its plan has
\* seen in hooks.json is still there after its write; it deletes a file that its
\* plan has seen only while the record says that setup created it; and the
\* record comes to say so only by the install that made the file, from a plan
\* that found none.
OthersContentKept ==
    [][/\ Writes /\ config = pending.pre =>
             OtherContent(config') = OtherContent(config)
       /\ Writes /\ config' = None /\ pending.pre # None =>
             record # None /\ manifest.created
       /\ manifest'.created /\ ~manifest.created =>
             record = None /\ pending.op = "install" /\ pending.pre = None]_vars

\* Once crashes and edits stop, an interrupted setup is completed by repeating
\* its digest, unless hooks.json has become something else or the record
\* already carries that digest.
SetupResumed ==
    (calm /\ pending # None) ~>
        \/ pending = None
        \/ config \notin {pending.pre, pending.post}
        \/ manifest.applied = pending

\* "Interrupted setup/removal is resumed by repeating its reviewed setup
\* --apply digest" (docs/USAGE.md), whatever the step it was interrupted at.
RepeatedDigestResumes ==
    (calm /\ pending # None) ~>
        \/ pending = None
        \/ config \notin {pending.pre, pending.post}

=============================================================================
