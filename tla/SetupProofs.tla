----------------------------- MODULE SetupProofs -----------------------------
(***************************************************************************)
(* Setup is correct for every number of installers, set of host events and *)
(* content of hooks.json: type correctness, hooks that follow the record,  *)
(* plans that keep what belongs to others, the adopted digest, and the     *)
(* pending protocol.                                                       *)
(***************************************************************************)
EXTENDS Setup, TLAPS

-----------------------------------------------------------------------------
(* Plans                                                                   *)

\* What a plan promises by its kind alone.
PlanShape(plan) ==
    /\ plan.op = "install" =>
          /\ plan.post # None
          /\ plan.post.owned = Events
          /\ plan.digest = None => plan.state = "absent"
    /\ plan.op = "remove" =>
          /\ plan.post # None => plan.post.owned = {}
          /\ plan.created /\ plan.post # None => plan.post.other # Empty
    /\ OtherContent(plan.post) = OtherContent(plan.pre)

\* A file without the hooks of this installation.
LEMMA LeftoverKeeps ==
  ASSUME TypeOK, CanRemove
  PROVE  /\ Leftover \in Configs \cup {None}
         /\ Leftover # None => Leftover.owned = {}
         /\ OtherContent(Leftover) = OtherContent(config)
         /\ (IF record = None THEN config = None ELSE manifest.created)
               /\ Leftover # None => Leftover.other # Empty
<1>1. config \in Configs \cup {None}
  BY DEF CanRemove, TypeOK, Files
<1>2. CASE config = None
  BY <1>2 DEF Leftover, OtherContent
<1>3. CASE config \in Configs
  <2>1. config # None
    BY <1>3, SetupAssumption
  <2>2. /\ [config EXCEPT !.owned = {}] \in Configs
        /\ [config EXCEPT !.owned = {}].owned = {}
        /\ [config EXCEPT !.owned = {}].other = config.other
        /\ [config EXCEPT !.owned = {}] # None
    BY <1>3, SetupAssumption DEF Configs
  <2>. QED
    BY <2>1, <2>2 DEF Leftover, OtherContent
<1>. QED
  BY <1>1, <1>2, <1>3

\* The state of the registry and its digest agree.
LEMMA RegistryStateKnown ==
  ASSUME TypeOK
  PROVE  /\ RegistryState \in RegistryStates
         /\ registry = None => RegistryState = "absent"
  BY MarkersAssumption DEF RegistryState, RegistryStates, TypeOK, SharedTypeOK

\* A plan that setup derives has the schema of a plan and keeps its promises.
LEMMA PlansShaped ==
  ASSUME TypeOK, NEW plan \in CurrentPlans
  PROVE  plan \in Plans /\ PlanShape(plan)
<1>1. /\ registry # Unreadable => registry \in Contents \cup {None}
      /\ (IF record = None THEN config = None ELSE manifest.created) \in BOOLEAN
      /\ Active \in BOOLEAN
  BY DEF TypeOK, SharedTypeOK, Manifests, Active
<1>2. CASE CanInstall /\ plan = InstallPlan
  <2>1. config \in Configs \cup {None} /\ registry # Unreadable
    BY <1>2 DEF CanInstall, TypeOK, Files
  <2> DEFINE post == [owned |-> Events, clash |-> FALSE,
                      other |-> IF config = None THEN Empty ELSE config.other]
  <2>2. post \in Configs /\ post # None
    <3>1. (IF config = None THEN Empty ELSE config.other) \in Others
      BY <2>1, SetupAssumption DEF Configs
    <3>2. post \in Configs
      BY <3>1 DEF Configs
    <3>. QED
      BY <3>2, SetupAssumption
  <2>3. OtherContent(post) = OtherContent(config)
    BY <2>2 DEF OtherContent
  <2>4. plan = [op |-> "install", pre |-> config, post |-> post,
                created |-> IF record = None THEN config = None
                            ELSE manifest.created,
                manifest |-> ~Active, state |-> RegistryState,
                digest |-> registry]
    BY <1>2, <2>1 DEF InstallPlan, PlanBase
  <2> HIDE DEF post
  <2>5. plan \in Plans
    BY <1>1, <2>1, <2>2, <2>4, RegistryStateKnown DEF Plans
  <2>6. post.owned = Events
    BY DEF post
  <2>. QED
    BY <2>2, <2>3, <2>4, <2>5, <2>6, RegistryStateKnown DEF PlanShape
<1>3. CASE CanRemove /\ plan = RemovePlan
  <2>1. config \in Configs \cup {None}
    BY <1>3 DEF CanRemove, TypeOK, Files
  <2>2. plan = [op |-> "remove", pre |-> config, post |-> Leftover,
                created |-> IF record = None THEN config = None
                            ELSE manifest.created,
                manifest |-> Active, state |-> RegistryState,
                digest |-> IF registry = Unreadable THEN None ELSE registry]
    BY <1>3 DEF RemovePlan, PlanBase
  <2>3. plan \in Plans
    BY <1>1, <1>3, <2>1, <2>2, LeftoverKeeps, RegistryStateKnown DEF Plans
  <2>4. /\ plan.op = "remove" /\ plan.pre = config /\ plan.post = Leftover
        /\ plan.created = IF record = None THEN config = None
                          ELSE manifest.created
    BY <2>2
  <2>5. /\ plan.post # None => plan.post.owned = {}
        /\ plan.created /\ plan.post # None => plan.post.other # Empty
        /\ OtherContent(plan.post) = OtherContent(plan.pre)
    BY <1>3, <2>4, LeftoverKeeps
  <2>. QED
    BY <2>3, <2>4, <2>5 DEF PlanShape
<1>. QED
  BY <1>2, <1>3 DEF CurrentPlans

-----------------------------------------------------------------------------
(* Type correctness                                                        *)

\* Nothing is installed.
LEMMA TypeInit == Init => TypeOK
<1> SUFFICES ASSUME Init PROVE TypeOK
  OBVIOUS
<1>1. SharedTypeOK
  BY DEF Init, SharedTypeOK
<1>2. config \in Files /\ manifest \in Manifests
  BY SetupAssumption DEF Init, Manifests
<1>. QED
  BY <1>1, <1>2 DEF Init, TypeOK, Labels

\* Leaving a command keeps the types of what it touches.
LEMMA TypeReturn ==
  ASSUME TypeOK, NEW p \in Installers, Return(p),
         UNCHANGED <<registry, record, edited, lineage, calm, config,
                     hostEdited, manifest>>,
         pending' \in {pending, None}
  PROVE  TypeOK'
  BY DEF TypeOK, SharedTypeOK, Return, Goto, Labels

\* A step of a command, from its preview on.
LEMMA TypeStep ==
  ASSUME TypeOK, NEW p \in Installers, Step(p),
         pc[p] \in Executing => job[p] \in Plans
  PROVE  TypeOK'
<1> USE DEF Goto, Labels, Executing
<1>1. CASE AlreadyApplied(p) \/ Refused(p) \/ ClearPending(p)
  BY <1>1, TypeReturn DEF AlreadyApplied, Refused, ClearPending
<1>2. CASE Apply(p) \/ Resume(p)
  BY <1>2 DEF Apply, Resume, TypeOK, SharedTypeOK, sharedVars
<1>3. CASE Prepare(p)
  BY <1>3, PlansShaped DEF Prepare, TypeOK, SharedTypeOK, sharedVars
<1>4. CASE ApplyConfig(p)
  <2>1. job[p].post \in Files
    BY <1>4 DEF ApplyConfig, Plans, Files
  <2>. QED
    BY <1>4, <2>1 DEF ApplyConfig, TypeOK, SharedTypeOK, sharedVars
<1>5. CASE CommitRecord(p)
  <2>1. /\ job[p] \in Plans
        /\ job[p].digest \in Contents \cup {None}
        /\ job[p].created \in BOOLEAN
    BY <1>5 DEF CommitRecord, Plans
  <2>2. record' \in Records \cup {None} /\ manifest' \in Manifests
    BY <1>5, <2>1 DEF CommitRecord, TypeOK, SharedTypeOK, Records, Manifests
  <2>3. lineage' \subseteq Contents \cup {None}
    BY <1>5, <2>1 DEF CommitRecord, TypeOK, SharedTypeOK
  <2>. QED
    BY <1>5, <2>2, <2>3 DEF CommitRecord, TypeOK, SharedTypeOK
<1>. QED
  BY <1>1, <1>2, <1>3, <1>4, <1>5 DEF Step

-----------------------------------------------------------------------------
(* The inductive invariant                                                 *)

Locked == {"setupLocked"} \cup Executing

\* A client is past the lock exactly while it holds it.
LockOwned == \A p \in Installers : pc[p] \in Locked <=> lock = p

\* Every plan that somebody was told to apply, or began to, was derived.
Planned ==
    /\ \A p \in Installers :
          pc[p] # "idle" => job[p] \in Plans /\ PlanShape(job[p])
    /\ pending # None => PlanShape(pending)

\* The record is as the plan says.
Committed(plan) ==
    /\ plan.op = "install" =>
          record = [lifecycle |-> "active", adopted |-> plan.digest]
    /\ plan.op = "remove" /\ record # None =>
          /\ record.lifecycle = "disabled"
          /\ manifest.created = plan.created
    /\ \/ manifest.applied = plan
       \/ plan.op = "remove" /\ record = None

\* What a client executes is the pending plan, and each place it reaches has
\* the files before it written.
Stages ==
    \A p \in Installers :
        /\ pc[p] \in Executing => pending = job[p]
        /\ pc[p] \in {"commitRecord", "clearPending"} =>
              hostEdited \/ config = job[p].post
        /\ pc[p] = "clearPending" => Committed(job[p])

IInv ==
    /\ TypeOK
    /\ LockOwned
    /\ Planned
    /\ Stages
    /\ HooksFollowLifecycle
    /\ AdoptedWasShown
    /\ CreatedFileRemoved

\* Nothing is installed, so nothing is half done.
LEMMA IInvInit == Init => IInv
<1> SUFFICES ASSUME Init PROVE IInv
  OBVIOUS
<1>1. TypeOK
  BY TypeInit
<1>2. LockOwned
  BY MarkersAssumption, SetupAssumption DEF Init, LockOwned, Locked, Executing
<1>3. Planned /\ Stages
  BY DEF Init, Planned, Stages, Executing
<1>. QED
  BY <1>1, <1>2, <1>3
  DEF IInv, Init, HooksFollowLifecycle, AdoptedWasShown, CreatedFileRemoved,
      Active

\* The client at hand holds the lock, so no other one is past it.
LEMMA Alone ==
  ASSUME IInv, NEW p \in Installers, pc[p] \in Locked,
         NEW q \in Installers, q # p
  PROVE  pc[q] \notin Locked /\ pc[q] \notin Executing
  BY DEF IInv, LockOwned, Locked

\* The other invariants speak of the files only.
LEMMA FilesUnchanged ==
  ASSUME IInv, UNCHANGED <<record, config, hostEdited, manifest, pending>>
  PROVE  (HooksFollowLifecycle /\ AdoptedWasShown /\ CreatedFileRemoved)'
  BY DEF IInv, HooksFollowLifecycle, AdoptedWasShown, CreatedFileRemoved,
         OwnedEvents, Active

\* Leaving a command without having written anything.
LEMMA IInvReturn ==
  ASSUME IInv, NEW p \in Installers, Return(p),
         UNCHANGED <<registry, record, edited, lineage, calm, config,
                     hostEdited, manifest, pending>>
  PROVE  IInv'
<1>1. TypeOK'
  BY TypeReturn DEF IInv
<1>2. LockOwned'
  BY MarkersAssumption, SetupAssumption
  DEF IInv, LockOwned, Return, Goto, TypeOK, Locked, Executing
<1>3. Planned'
  BY DEF IInv, Planned, Return, Goto, TypeOK
<1>4. Stages'
  BY DEF IInv, Stages, Committed, Return, Goto, TypeOK, Executing
<1>. QED
  BY <1>1, <1>2, <1>3, <1>4, FilesUnchanged DEF IInv

\* Begin, or wait for the lock: no file is touched.
LEMMA IInvWait ==
  ASSUME IInv, NEW p \in Installers,
         \/ Preview(p) \/ Repeat(p)
         \/ Apply(p) \/ AcquireLock(p)
  PROVE  IInv'
<1> USE DEF Goto
<1>1. UNCHANGED <<registry, record, edited, lineage, calm, config, hostEdited,
                  manifest, pending>>
  BY DEF Preview, Repeat, Apply, AcquireLock, sharedVars
<1>2. /\ \/ /\ pc' = [pc EXCEPT ![p] = "previewed"]
            /\ job' = [job EXCEPT ![p] = job'[p]]
            /\ job'[p] \in Plans /\ PlanShape(job'[p])
         \/ pc' = [pc EXCEPT ![p] = "setup"] /\ job' = job
         \/ pc' = [pc EXCEPT ![p] = "setupLocked"] /\ job' = job
      /\ pc[p] \notin Locked
      /\ pc'[p] = "setupLocked" => lock = None /\ lock' = p
      /\ pc'[p] # "setupLocked" => lock' = lock
      /\ pc'[p] # "previewed" => pc[p] # "idle"
  <2>1. CASE Preview(p)
    BY <2>1, PlansShaped DEF Preview, IInv, TypeOK, sharedVars, Locked, Executing
  <2>2. CASE Repeat(p)
    BY <2>2 DEF Repeat, IInv, Planned, TypeOK, sharedVars, Locked, Executing
  <2>3. CASE Apply(p) \/ AcquireLock(p)
    BY <2>3 DEF Apply, AcquireLock, LockFree, IInv, TypeOK, sharedVars, Locked,
                Executing
  <2>. QED
    BY <2>1, <2>2, <2>3
<1>3. TypeOK'
  BY <1>1, <1>2, SetupAssumption DEF IInv, TypeOK, SharedTypeOK, Labels
<1>4. LockOwned'
  BY <1>2, MarkersAssumption, SetupAssumption
  DEF IInv, LockOwned, TypeOK, Locked, Executing
<1>5. Planned'
  BY <1>1, <1>2 DEF IInv, Planned, TypeOK
<1>6. Stages'
  BY <1>1, <1>2 DEF IInv, Stages, Committed, TypeOK, Executing
<1>. QED
  BY <1>1, <1>3, <1>4, <1>5, <1>6, FilesUnchanged DEF IInv

\* While a setup is pending the hooks need not agree with the record.
LEMMA PendingIsSome ==
  ASSUME IInv, NEW p \in Installers, pc[p] \in Executing
  PROVE  pending = job[p] /\ pending # None /\ pending \in Plans
  BY PlansAssumption DEF IInv, Stages, Planned, TypeOK, Executing

\* A step of a command, from its preview on.
LEMMA IInvStep ==
  ASSUME IInv, NEW p \in Installers, Step(p)
  PROVE  IInv'
<1> USE DEF Goto
<1>0. TypeOK'
  BY TypeStep DEF IInv, Planned, Executing
<1>1. CASE AlreadyApplied(p) \/ Refused(p)
  BY <1>1, IInvReturn DEF AlreadyApplied, Refused
<1>2. CASE Apply(p)
  BY <1>2, IInvWait
\* From here on the client keeps the lock.
<1> DEFINE Within(from, to) ==
             /\ pc[p] = from
             /\ pc' = [pc EXCEPT ![p] = to]
             /\ job' = job
             /\ lock' = lock
<1>3. ASSUME NEW from \in Locked, NEW to \in Locked, Within(from, to)
      PROVE  LockOwned'
  BY <1>3 DEF IInv, LockOwned, TypeOK
<1>4. CASE Resume(p)
  <2>1. /\ \/ Within("setupLocked", "applyConfig")
           \/ /\ Within("setupLocked", "commitRecord")
              /\ config = job[p].post
        /\ pending = job[p]
        /\ UNCHANGED <<record, config, hostEdited, manifest, pending>>
    BY <1>4 DEF Resume, sharedVars
  <2>2. LockOwned'
    BY <2>1, <1>3 DEF Locked, Executing
  <2>3. Planned'
    BY <2>1 DEF IInv, Planned, TypeOK
  <2>4. Stages'
    BY <2>1, Alone DEF IInv, Stages, Committed, TypeOK, Executing, Locked
  <2>. QED
    BY <1>0, <2>1, <2>2, <2>3, <2>4, FilesUnchanged DEF IInv
<1>5. CASE Prepare(p)
  <2>1. /\ Within("setupLocked", "applyConfig")
        /\ pending' = job[p]
        /\ UNCHANGED <<record, config, hostEdited, manifest>>
    BY <1>5 DEF Prepare, sharedVars
  <2>2. pending' # None /\ PlanShape(pending')
    BY <2>1, PlansAssumption DEF IInv, Planned
  <2>3. LockOwned'
    BY <2>1, <1>3 DEF Locked, Executing
  <2>4. Planned'
    BY <2>1, <2>2 DEF IInv, Planned, TypeOK
  <2>5. Stages'
    BY <2>1, Alone DEF IInv, Stages, Committed, TypeOK, Executing, Locked
  <2>. QED
    BY <1>0, <2>1, <2>2, <2>3, <2>4, <2>5
    DEF IInv, HooksFollowLifecycle, AdoptedWasShown, CreatedFileRemoved, Active
<1>6. CASE ApplyConfig(p)
  <2>1. /\ Within("applyConfig", "commitRecord")
        /\ config' = job[p].post
        /\ UNCHANGED <<record, manifest, pending>>
    BY <1>6 DEF ApplyConfig, sharedVars
  <2>2. pending' # None
    BY <2>1, PendingIsSome DEF Executing
  <2>3. LockOwned'
    BY <2>1, <1>3 DEF Locked, Executing
  <2>4. Planned'
    BY <2>1 DEF IInv, Planned, TypeOK
  <2>5. Stages'
    BY <2>1, Alone DEF IInv, Stages, Committed, TypeOK, Executing, Locked
  <2>. QED
    BY <1>0, <2>1, <2>2, <2>3, <2>4, <2>5
    DEF IInv, HooksFollowLifecycle, AdoptedWasShown, CreatedFileRemoved, Active
<1>7. CASE CommitRecord(p)
  <2> DEFINE plan == job[p]
  <2>1. /\ Within("commitRecord", "clearPending")
        /\ UNCHANGED <<config, hostEdited, pending>>
        /\ \/ /\ plan.op = "install"
              /\ record' = [lifecycle |-> "active", adopted |-> plan.digest]
              /\ manifest' = [created |-> plan.created, applied |-> plan]
           \/ /\ plan.op = "remove"
              /\ record # None
              /\ record' = [record EXCEPT !.lifecycle = "disabled"]
              /\ manifest' = [created |-> plan.created, applied |-> plan]
           \/ /\ plan.op = "remove"
              /\ record = None
              /\ UNCHANGED <<record, manifest>>
    BY <1>7 DEF CommitRecord
  <2>2. pending' # None /\ plan \in Plans /\ PlanShape(plan)
    BY <2>1, PendingIsSome DEF IInv, Planned, Executing
  <2>3. LockOwned'
    BY <2>1, <1>3 DEF Locked, Executing
  <2>4. Planned'
    BY <2>1 DEF IInv, Planned, TypeOK
  <2>5. record # None => record \in Records
    BY DEF IInv, TypeOK, SharedTypeOK
  <2>6. Committed(plan)'
    BY <2>1, <2>5 DEF Committed, Records
  <2>7. Stages'
    BY <2>1, <2>6, Alone DEF IInv, Stages, TypeOK, Executing, Locked
  <2>8. AdoptedWasShown'
    BY <2>1, <2>2, <2>5, PlansAssumption
    DEF AdoptedWasShown, Active, PlanShape, Records
  <2>. QED
    BY <1>0, <2>1, <2>2, <2>3, <2>4, <2>7, <2>8
    DEF IInv, HooksFollowLifecycle, CreatedFileRemoved
<1>8. CASE ClearPending(p)
  <2> DEFINE plan == job[p]
  <2>1. /\ pc[p] = "clearPending"
        /\ pending' = None
        /\ Return(p)
        /\ UNCHANGED <<record, config, hostEdited, manifest>>
    BY <1>8 DEF ClearPending
  <2>2. /\ plan \in Plans /\ PlanShape(plan) /\ Committed(plan)
        /\ hostEdited \/ config = plan.post
    BY <2>1 DEF IInv, Planned, Stages, Executing
  <2>3. LockOwned'
    BY <2>1, MarkersAssumption, SetupAssumption
    DEF IInv, LockOwned, Return, TypeOK, Locked, Executing
  <2>4. Planned'
    BY <2>1 DEF IInv, Planned, Return, TypeOK
  <2>5. Stages'
    BY <2>1, Alone
    DEF IInv, Stages, Committed, Return, TypeOK, Executing, Locked
  <2>6. plan.op \in {"install", "remove"}
    BY <2>2 DEF Plans
  <2>7. [lifecycle |-> "active", adopted |-> plan.digest] # None
    BY <2>2, MarkersAssumption DEF Plans, Records
  <2>8. HooksFollowLifecycle'
    <3>1. ASSUME ~hostEdited, plan.op = "install"
          PROVE  Active /\ OwnedEvents = Events
      BY <2>2, <2>7, <3>1 DEF OwnedEvents, Active, PlanShape, Committed
    <3>2. ASSUME ~hostEdited, plan.op = "remove"
          PROVE  ~Active /\ OwnedEvents = {}
      BY <2>2, <3>2 DEF OwnedEvents, Active, PlanShape, Committed
    <3>3. UNCHANGED <<Active, OwnedEvents, hostEdited>>
      BY <2>1 DEF Active, OwnedEvents
    <3>. QED
      BY <2>6, <3>1, <3>2, <3>3 DEF HooksFollowLifecycle
  <2>9. CreatedFileRemoved'
    <3>1. ASSUME ~hostEdited, plan.op = "install"
          PROVE  Active
      BY <2>2, <2>7, <3>1 DEF Active, Committed
    <3>2. ASSUME ~hostEdited, plan.op = "remove", record # None,
                 manifest.created
          PROVE  config = None \/ config.other # Empty
      BY <2>2, <3>2 DEF PlanShape, Committed
    <3>3. UNCHANGED <<Active, config, hostEdited, record, manifest>>
      BY <2>1 DEF Active
    <3>. QED
      BY <2>6, <3>1, <3>2, <3>3 DEF CreatedFileRemoved
  <2>10. AdoptedWasShown'
    BY <2>1 DEF IInv, AdoptedWasShown, Active
  <2>. QED
    BY <1>0, <2>3, <2>4, <2>5, <2>8, <2>9, <2>10 DEF IInv
<1>. QED
  BY <1>1, <1>2, <1>4, <1>5, <1>6, <1>7, <1>8 DEF Step

\* Edits: of the registry, which no invariant speaks of, and of hooks.json,
\* which then is a user's.
LEMMA IInvEdit ==
  ASSUME IInv, EditConfig \/ Edit \/ UNCHANGED vars
  PROVE  IInv'
<1>1. CASE EditConfig
  <2>1. TypeOK'
    BY <1>1, SetupAssumption DEF EditConfig, sharedVars, IInv, TypeOK,
                                 SharedTypeOK
  <2>2. (LockOwned /\ Planned /\ Stages)'
    BY <1>1 DEF EditConfig, sharedVars, IInv, LockOwned, Planned, Stages,
                Committed
  <2>. QED
    BY <1>1, <2>1, <2>2
    DEF EditConfig, sharedVars, IInv, HooksFollowLifecycle, AdoptedWasShown,
        CreatedFileRemoved, Active
<1>2. CASE Edit \/ UNCHANGED vars
  <2>1. UNCHANGED <<record, lock, config, hostEdited, manifest, pending, pc,
                    job>>
    BY <1>2 DEF Edit, EditRegistry, CalmDown, setupVars, vars, sharedVars
  <2>2. TypeOK'
    BY <1>2, MarkersAssumption
    DEF Edit, EditRegistry, CalmDown, setupVars, vars, sharedVars, IInv, TypeOK,
        SharedTypeOK
  <2>3. (LockOwned /\ Planned /\ Stages)'
    BY <2>1 DEF IInv, LockOwned, Planned, Stages, Committed
  <2>. QED
    BY <2>1, <2>2, <2>3, FilesUnchanged DEF IInv
<1>. QED
  BY <1>1, <1>2

\* Other commands hold the lock for a while.
LEMMA IInvOthers ==
  ASSUME IInv, OthersLock \/ OthersUnlock
  PROVE  IInv'
<1>1. /\ UNCHANGED <<registry, record, edited, lineage, calm, config,
                     hostEdited, manifest, pending, pc, job>>
      /\ lock' \in Clients \cup {None} /\ lock' \notin Installers
      /\ lock \notin Installers
  BY MarkersAssumption, SetupAssumption
  DEF OthersLock, OthersUnlock, LockFree, setupVars
<1>2. TypeOK'
  BY <1>1 DEF IInv, TypeOK, SharedTypeOK
<1>3. (LockOwned /\ Planned /\ Stages)'
  BY <1>1 DEF IInv, LockOwned, Planned, Stages, Committed
<1>. QED
  BY <1>1, <1>2, <1>3, FilesUnchanged DEF IInv

LEMMA IInvNext == IInv /\ [Next]_vars => IInv'
<1> SUFFICES ASSUME IInv, [Next]_vars PROVE IInv'
  OBVIOUS
<1>1. ASSUME NEW p \in Installers, Preview(p) \/ Repeat(p) \/ AcquireLock(p)
      PROVE  IInv'
  BY <1>1, IInvWait
<1>2. ASSUME NEW p \in Installers, LockTimeout(p) \/ Abort(p) PROVE IInv'
  BY <1>2, IInvReturn DEF LockTimeout, Abort
<1>3. ASSUME NEW p \in Installers, Step(p) PROVE IInv'
  BY <1>3, IInvStep
<1>4. ASSUME NEW p \in Installers, PreviewRefused(p) PROVE IInv'
  BY <1>4, IInvEdit DEF PreviewRefused
<1>5. CASE EditConfig \/ Edit \/ UNCHANGED vars
  BY <1>5, IInvEdit
<1>6. CASE OthersLock \/ OthersUnlock
  BY <1>6, IInvOthers
<1>. QED
  BY <1>1, <1>2, <1>3, <1>4, <1>5, <1>6 DEF Next, ClientNext

-----------------------------------------------------------------------------
(* Theorems                                                                *)

LEMMA Invariant == Spec => []IInv
  BY IInvInit, IInvNext, PTL DEF Spec

\* Files and locals are well formed, for every race of installers.
THEOREM TypeCorrect == Spec => []TypeOK
<1>1. IInv => TypeOK
  BY DEF IInv
<1>. QED
  BY <1>1, Invariant, PTL

\* However many installs and removals race and die, a repository with nothing
\* pending has our hooks exactly while its record is active.
THEOREM HooksAgree == Spec => []HooksFollowLifecycle
<1>1. IInv => HooksFollowLifecycle
  BY DEF IInv
<1>. QED
  BY <1>1, Invariant, PTL

\* An active installation trusts the digest that its plan showed.
THEOREM AdoptedShown == Spec => []AdoptedWasShown
<1>1. IInv => AdoptedWasShown
  BY DEF IInv
<1>. QED
  BY <1>1, Invariant, PTL

\* A file that setup created, and that nobody else uses, does not outlive a
\* removal.
THEOREM NothingLeft == Spec => []CreatedFileRemoved
<1>1. IInv => CreatedFileRemoved
  BY DEF IInv
<1>. QED
  BY <1>1, Invariant, PTL

\* A started setup is never replaced, and its pending record goes only when
\* its plan was applied.
THEOREM PendingProtocol == Spec => PendingKeptUntilCommitted
<1>1. ASSUME IInv, [Next]_vars, pending # None, pending' # pending
      PROVE  /\ pending' = None
             /\ \/ manifest.applied = pending
                \/ pending.op = "remove" /\ record = None
  <2>1. PICK p \in Installers : ClearPending(p)
    BY <1>1
    DEF Next, ClientNext, Step, Preview, PreviewRefused, Repeat, AcquireLock,
        LockTimeout, Abort, AlreadyApplied, Apply, Resume, Prepare, Refused,
        ApplyConfig, CommitRecord, OthersLock, OthersUnlock, EditConfig, Edit,
        setupVars, vars
  <2>. QED
    BY <1>1, <2>1 DEF ClearPending, IInv, Stages, Committed, Executing
<1>2. IInv /\ [Next]_vars =>
        [pending # None /\ pending' # pending =>
            /\ pending' = None
            /\ \/ manifest.applied = pending
               \/ pending.op = "remove" /\ record = None]_vars
  BY <1>1
<1>. QED
  BY <1>2, Invariant, PTL DEF Spec, PendingKeptUntilCommitted

-----------------------------------------------------------------------------
(* Who created hooks.json                                                  *)

\* What a plan says about the creation of hooks.json is what the record says,
\* or, without a record, what the plan found; it deletes only what the record
\* gives to setup.
PlanRemembers(plan) ==
    /\ plan.created = IF record = None THEN plan.pre = None
                      ELSE manifest.created
    /\ plan.pre # None /\ plan.post = None => record # None /\ manifest.created

\* The pending plan goes on to say so, also after its record is written.
Remembered == pending # None => PlanRemembers(pending)

LEMMA PlansRemember ==
  ASSUME TypeOK, NEW plan \in CurrentPlans
  PROVE  PlanRemembers(plan)
<1>1. CASE CanInstall /\ plan = InstallPlan
  <2>1. plan.post # None
    BY PlansShaped, <1>1 DEF PlanShape, InstallPlan, PlanBase
  <2>. QED
    BY <1>1, <2>1 DEF InstallPlan, PlanBase, PlanRemembers
<1>2. CASE CanRemove /\ plan = RemovePlan
  <2>1. config # None /\ Leftover = None => record # None /\ manifest.created
    <3>1. config \in Configs => [config EXCEPT !.owned = {}] \in Configs
      BY DEF Configs
    <3>. QED
      BY <1>2, <3>1, SetupAssumption DEF Leftover, CanRemove, TypeOK, Files
  <2>. QED
    BY <1>2, <2>1 DEF RemovePlan, PlanBase, PlanRemembers
<1>. QED
  BY <1>1, <1>2 DEF CurrentPlans

\* Only a prepared plan, a commit and its end touch what it speaks of.
LEMMA RememberedNext == IInv /\ Remembered /\ [Next]_vars => Remembered'
<1> SUFFICES ASSUME IInv, Remembered, [Next]_vars PROVE Remembered'
  OBVIOUS
<1>1. CASE UNCHANGED <<record, manifest, pending>>
  BY <1>1 DEF Remembered, PlanRemembers
<1>2. ASSUME NEW p \in Installers, Prepare(p) PROVE Remembered'
  <2>1. PlanRemembers(job[p])
    BY <1>2, PlansRemember DEF Prepare, IInv
  <2>. QED
    BY <1>2, <2>1 DEF Prepare, Remembered, PlanRemembers, sharedVars
<1>3. ASSUME NEW p \in Installers, CommitRecord(p) PROVE Remembered'
  <2>1. /\ pending = job[p] /\ pending # None
        /\ pending \in Plans /\ PlanShape(pending)
    BY <1>3, PendingIsSome DEF CommitRecord, IInv, Planned, Executing
  <2>2. CASE pending.op = "install"
    <3>1. record' # None /\ manifest'.created = pending.created
      BY <1>3, <2>1, <2>2, MarkersAssumption DEF CommitRecord, Plans, Records
    <3>. QED
      BY <1>3, <2>1, <2>2, <3>1
      DEF CommitRecord, Remembered, PlanRemembers, PlanShape
  <2>3. CASE pending.op = "remove" /\ record # None
    <3>1. record' # None /\ manifest'.created = pending.created
      BY <1>3, <2>1, <2>3, MarkersAssumption
      DEF CommitRecord, Records, IInv, TypeOK, SharedTypeOK
    <3>. QED
      BY <1>3, <2>1, <2>3, <3>1 DEF CommitRecord, Remembered, PlanRemembers
  <2>4. CASE pending.op = "remove" /\ record = None
    BY <1>1, <1>3, <2>1, <2>4 DEF CommitRecord
  <2>. QED
    BY <2>1, <2>2, <2>3, <2>4 DEF Plans
<1>4. ASSUME NEW p \in Installers, ClearPending(p) PROVE Remembered'
  BY <1>4 DEF ClearPending, Remembered
<1>. QED
  BY <1>1, <1>2, <1>3, <1>4
  DEF Next, ClientNext, Step, Preview, PreviewRefused, Repeat, AcquireLock,
      LockTimeout, Abort, AlreadyApplied, Apply, Resume, Refused, ApplyConfig,
      OthersLock, OthersUnlock, EditConfig, Edit, EditRegistry, CalmDown,
      setupVars, sharedVars, vars

\* What belongs to others stays in hooks.json, and a file that setup did not
\* create is never deleted by a plan that has seen it, whatever crashed, was
\* repeated or was edited since the first install.
THEOREM OthersKept == Spec => OthersContentKept
<1> DEFINE Allowed ==
      /\ Writes /\ config = pending.pre =>
            OtherContent(config') = OtherContent(config)
      /\ Writes /\ config' = None /\ pending.pre # None =>
            record # None /\ manifest.created
      /\ manifest'.created /\ ~manifest.created =>
            record = None /\ pending.op = "install" /\ pending.pre = None
<1>1. Init => Remembered
  BY DEF Init, Remembered
<1>2. IInv /\ Remembered /\ [Next]_vars => Allowed
  <2> SUFFICES ASSUME IInv, Remembered, [Next]_vars PROVE Allowed
    OBVIOUS
  <2>1. ASSUME NEW p \in Installers, ApplyConfig(p) PROVE Allowed
    <3>1. /\ pending = job[p] /\ pending # None
          /\ config' = pending.post /\ manifest' = manifest
      BY <2>1, PendingIsSome DEF ApplyConfig, Executing
    <3>2. OtherContent(pending.post) = OtherContent(pending.pre)
      BY <3>1 DEF IInv, Planned, PlanShape
    <3>3. pending.pre # None /\ pending.post = None =>
            record # None /\ manifest.created
      BY <3>1 DEF Remembered, PlanRemembers
    <3>. QED
      BY <3>1, <3>2, <3>3
  <2>2. ASSUME NEW p \in Installers, CommitRecord(p) PROVE Allowed
    <3>1. pending = job[p] /\ pending # None
      BY <2>2, PendingIsSome DEF CommitRecord, Executing
    <3>2. ~ Writes
      BY <2>2 DEF CommitRecord, Writes
    <3>3. ASSUME manifest'.created, ~manifest.created
          PROVE  record = None /\ pending.op = "install" /\ pending.pre = None
      <4>1. /\ manifest'.created = pending.created
            /\ pending.op = "install" \/ record # None
        <5>1. manifest' # manifest
          BY <3>3
        <5>2. \/ /\ pending.op = "install"
                 /\ manifest' = [created |-> pending.created, applied |-> pending]
              \/ /\ record # None
                 /\ manifest' = [created |-> pending.created, applied |-> pending]
          BY <2>2, <3>1, <5>1 DEF CommitRecord
        <5>. QED
          BY <5>2
      <4>2. pending.created = IF record = None THEN pending.pre = None
                              ELSE manifest.created
        BY <3>1 DEF Remembered, PlanRemembers
      <4>3. record = None
        BY <3>3, <4>1, <4>2
      <4>. QED
        BY <3>3, <4>1, <4>2, <4>3
    <3>. QED
      BY <3>2, <3>3
  <2>3. CASE EditConfig
    BY <2>3 DEF EditConfig, Writes
  <2>4. CASE UNCHANGED <<config, manifest>>
    BY <2>4 DEF Writes
  <2>. QED
    BY <2>1, <2>2, <2>3, <2>4
    DEF Next, ClientNext, Step, Preview, PreviewRefused, Repeat, AcquireLock,
        LockTimeout, Abort, AlreadyApplied, Apply, Resume, Prepare, Refused,
        ClearPending, OthersLock, OthersUnlock, Edit, EditRegistry, CalmDown,
        setupVars, vars
<1>3. IInv /\ Remembered /\ [Next]_vars => [Allowed]_vars
  BY <1>2
<1>. QED
  BY <1>1, <1>3, RememberedNext, Invariant, PTL DEF Spec, OthersContentKept

=============================================================================
