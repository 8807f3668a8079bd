----------------------------- MODULE HookNotify -----------------------------
(***************************************************************************)
(* The host hook (hook_core.py): at the end of a turn it runs the check on *)
(* the working tree and shows what is new against state.json; before a     *)
(* prompt it only adds context.  Every host session runs a process of its  *)
(* own, all of them on one state directory: the check runs with the state  *)
(* lock released, the outcome is logged and stored with the lock held.     *)
(*                                                                         *)
(* A tree is what a check of it finds: a verdict for each rule, and the    *)
(* diagnostics that make the check incomplete, if any.  Wording, line      *)
(* numbers and times are not part of any notification key.                 *)
(***************************************************************************)
CONSTANTS
    Hooks,        \* host sessions that may run the hook at the same time
    Rules,        \* rule identities
    Sites,        \* consumers and diagnostics a verdict can name
    Trees,        \* what checks of the working tree can find
    Timeout,      \* the failure of a check that gives no report
    SlowChecks,   \* whether a check may take too long
    None

Verdicts ==
    [status : {"OPEN", "VIOLATED", "UNVERIFIED", "RESOLVED"},
     evidence : SUBSET Sites]

Outcomes ==
    [failure : SUBSET (Sites \cup {Timeout}),
     verdicts : [Rules -> Verdicts] \cup {None}]

ASSUME HookAssumption ==
    /\ Trees \subseteq [failure : SUBSET Sites, verdicts : [Rules -> Verdicts]]
    /\ Timeout \notin Sites
    /\ None \notin Hooks
    /\ SlowChecks \in BOOLEAN

VARIABLES
    tree,         \* what a check of the working tree would find now
    notified,     \* keys of state.json
    lastStatus,   \* last_status of state.json
    lock,         \* holder of the state directory's lock
    logged,       \* history: keys that an event logged as emitted covers
    current,      \* history: hooks whose check saw the tree as it is
    outdated,     \* history: since the tree changed, another outcome than its
                  \* own was stored
    seen,         \* history: keys of the tree as it is that were shown
    calm,         \* history: from now on no fault and no edit
    pc,           \* where each hook process is
    event,        \* the host event it serves
    found,        \* failure and verdicts of its check
    notify        \* whether it has something new to show

stateVars == <<notified, lastStatus>>
shownVars == <<outdated, seen>>
historyVars == <<logged, current, shownVars, calm>>
hookVars == <<pc, event, found, notify>>
vars == <<tree, stateVars, lock, historyVars, hookVars>>

HostEvents == {"Stop", "UserPromptSubmit"}
Locked == {"appendLog", "writeState"}
Labels == {"idle", "load", "check", "record", "emit"} \cup Locked
Statuses == {"OPEN", "VIOLATED", "UNVERIFIED", "RESOLVED", "ERROR"}

Init ==
    /\ tree \in Trees
    /\ notified = {}
    /\ lastStatus = None
    /\ lock = None
    /\ logged = {}
    /\ current = {}
    /\ outdated = FALSE
    /\ seen = {}
    /\ calm = FALSE
    /\ pc = [h \in Hooks |-> "idle"]
    /\ event = [h \in Hooks |-> None]
    /\ found = [h \in Hooks |-> None]
    /\ notify = [h \in Hooks |-> FALSE]

-----------------------------------------------------------------------------
(* Outcomes, notification keys and the status that is stored               *)

\* The check gave no report that the hook accepts.
NoReport == [failure |-> {Timeout}, verdicts |-> None]

Notifiable(verdict) ==
    \/ verdict.status = "VIOLATED" /\ verdict.evidence # {}
    \/ verdict.status = "UNVERIFIED"

\* notification_items: one key for the failure, one for each rule.
Keys(outcome) ==
    (IF outcome.failure = {} THEN {} ELSE {<<"failure", outcome.failure>>})
      \cup (IF outcome.verdicts = None THEN {}
            ELSE {<<"rule", r, outcome.verdicts[r]>> :
                     r \in {q \in Rules : Notifiable(outcome.verdicts[q])}})

\* The precedence of record_outcome.
Status(outcome) ==
    LET Some(s) == /\ outcome.verdicts # None
                   /\ \E r \in Rules : outcome.verdicts[r].status = s
    IN  IF Some("VIOLATED") THEN "VIOLATED"
        ELSE IF outcome.failure # {} THEN "ERROR"
        ELSE IF Some("UNVERIFIED") THEN "UNVERIFIED"
        ELSE IF Some("RESOLVED") THEN "RESOLVED"
        ELSE "OPEN"

-----------------------------------------------------------------------------
(* run_adapter                                                             *)

Goto(h, label) == pc' = [pc EXCEPT ![h] = label]

\* The process ends; the lock goes with it.
Return(h) ==
    /\ Goto(h, "idle")
    /\ event' = [event EXCEPT ![h] = None]
    /\ found' = [found EXCEPT ![h] = None]
    /\ notify' = [notify EXCEPT ![h] = FALSE]
    /\ lock' = IF lock = h THEN None ELSE lock
    /\ current' = current \ {h}

Begin(h, hostEvent) ==
    /\ pc[h] = "idle"
    /\ event' = [event EXCEPT ![h] = hostEvent]
    /\ Goto(h, "load")
    /\ UNCHANGED <<tree, stateVars, lock, historyVars, found, notify>>

\* The first load only tests that the state can be read; the lock is dropped
\* again before the check.
Load(h) ==
    /\ pc[h] = "load"
    /\ lock = None
    /\ Goto(h, "check")
    /\ UNCHANGED <<tree, stateVars, lock, historyVars, event, found, notify>>

\* "context" has no verdicts to notify of, so only "check" looks at the tree.
Check(h) ==
    /\ pc[h] = "check"
    /\ found' = [found EXCEPT ![h] = tree]
    /\ current' = current \cup {h}
    /\ Goto(h, "record")
    /\ UNCHANGED <<tree, stateVars, lock, logged, shownVars, calm, event, notify>>

\* Ten seconds have passed, or the report is not one.
CheckTimeout(h) ==
    /\ SlowChecks /\ ~calm
    /\ pc[h] = "check"
    /\ found' = [found EXCEPT ![h] = NoReport]
    /\ Goto(h, "record")
    /\ UNCHANGED <<tree, stateVars, lock, historyVars, event, notify>>

\* record_outcome takes the lock again and reads what is stored now.
Record(h) ==
    /\ pc[h] = "record"
    /\ lock = None
    /\ lock' = h
    /\ notify' = [notify EXCEPT ![h] = Keys(found[h]) \ notified # {}]
    /\ Goto(h, "appendLog")
    /\ UNCHANGED <<tree, stateVars, historyVars, event, found>>

\* Mutated form: the state is stored before the event is logged.
AppendLogLast(h) ==
    /\ pc[h] = "appendLog"
    /\ IF event[h] = "UserPromptSubmit"
       THEN Return(h) /\ UNCHANGED stateVars
       ELSE /\ notified' = Keys(found[h])
            /\ lastStatus' = Status(found[h])
            /\ Goto(h, "writeState")
            /\ UNCHANGED <<lock, current, event, found, notify>>
    /\ UNCHANGED <<tree, logged, shownVars, calm>>

\* A prompt is logged too and changes nothing else.
AppendLog(h) ==
    /\ pc[h] = "appendLog"
    /\ \/ /\ event[h] = "UserPromptSubmit"
          /\ Return(h)
          /\ UNCHANGED logged
       \/ /\ event[h] = "Stop"
          /\ logged' = IF notify[h] THEN logged \cup Keys(found[h]) ELSE logged
          /\ Goto(h, "writeState")
          /\ UNCHANGED <<lock, current, event, found, notify>>
    /\ UNCHANGED <<tree, stateVars, shownVars, calm>>

\* Mutated form: only what is new is remembered.
WriteStateNewOnly(h) ==
    /\ pc[h] = "writeState"
    /\ notified' = Keys(found[h]) \ notified
    /\ lastStatus' = Status(found[h])
    /\ lock' = None
    /\ outdated' = (outdated \/ h \notin current)
    /\ Goto(h, "emit")
    /\ UNCHANGED <<tree, logged, current, seen, calm, event, found, notify>>

\* Mutated form: what was ever notified is never notified again.
WriteStateAccumulates(h) ==
    /\ pc[h] = "writeState"
    /\ notified' = notified \cup Keys(found[h])
    /\ lastStatus' = Status(found[h])
    /\ lock' = None
    /\ outdated' = (outdated \/ h \notin current)
    /\ Goto(h, "emit")
    /\ UNCHANGED <<tree, logged, current, seen, calm, event, found, notify>>

\* The keys of this outcome replace the stored ones.
WriteState(h) ==
    /\ pc[h] = "writeState"
    /\ notified' = Keys(found[h])
    /\ lastStatus' = Status(found[h])
    /\ lock' = None
    /\ outdated' = (outdated \/ h \notin current)
    /\ Goto(h, "emit")
    /\ UNCHANGED <<tree, logged, current, seen, calm, event, found, notify>>

\* The message lists every item of the outcome if one of them is new.
Emit(h) ==
    /\ pc[h] = "emit"
    /\ seen' = IF notify[h] /\ h \in current
               THEN seen \cup Keys(found[h]) ELSE seen
    /\ Return(h)
    /\ UNCHANGED <<tree, stateVars, logged, outdated, calm>>

-----------------------------------------------------------------------------
(* Faults, the environment and the specification                           *)

\* One second without the lock: a notice that is not stored.
LockTimeout(h) ==
    /\ ~calm
    /\ pc[h] \in {"load", "record"}
    /\ lock # None
    /\ Return(h)
    /\ UNCHANGED <<tree, stateVars, logged, shownVars, calm>>

\* Mutated form: a failing log or state write leaves the lock behind.
AbortKeepsLock(h) ==
    /\ ~calm
    /\ pc[h] # "idle"
    /\ Goto(h, "idle")
    /\ UNCHANGED <<tree, stateVars, lock, historyVars, event, found, notify>>

\* The log or the state cannot be written (a notice that is not stored), or
\* the host kills the hook.
Abort(h) ==
    /\ ~calm
    /\ pc[h] # "idle"
    /\ Return(h)
    /\ UNCHANGED <<tree, stateVars, logged, shownVars, calm>>

\* The Agent or the maintainer changes the working tree.
ChangeTree ==
    /\ ~calm
    /\ tree' \in Trees \ {tree}
    /\ current' = {}
    /\ outdated' = FALSE
    /\ seen' = {}
    /\ UNCHANGED <<stateVars, lock, logged, calm, hookVars>>

CalmDown ==
    /\ ~calm
    /\ calm' = TRUE
    /\ UNCHANGED <<tree, stateVars, lock, logged, current, shownVars, hookVars>>

Step(h) ==
    \/ Check(h) \/ CheckTimeout(h)
    \/ AppendLog(h) \/ WriteState(h) \/ Emit(h)

Next ==
    \/ \E h \in Hooks :
          \/ \E e \in HostEvents : Begin(h, e)
          \/ Load(h) \/ Record(h) \/ LockTimeout(h)
          \/ Step(h)
          \/ Abort(h)
    \/ ChangeTree
    \/ CalmDown

Spec == Init /\ [][Next]_vars

\* Turns keep ending, a hook that runs is not suspended for ever, and those
\* that wait for the lock get it in turn.
Fairness ==
    \A h \in Hooks :
        /\ WF_vars(Step(h))
        /\ SF_vars(Begin(h, "Stop"))
        /\ SF_vars(Load(h))
        /\ SF_vars(Record(h))

FairSpec == Spec /\ Fairness

-----------------------------------------------------------------------------
(* Properties                                                              *)

\* The state holds what its reader accepts, and the lock is held exactly by
\* the process that logs and stores.
TypeOK ==
    /\ tree \in Trees
    /\ lastStatus \in Statuses \cup {None}
    /\ calm \in BOOLEAN
    /\ pc \in [Hooks -> Labels]
    /\ event \in [Hooks -> HostEvents \cup {None}]
    /\ found \in [Hooks -> Outcomes \cup {None}]
    /\ notify \in [Hooks -> BOOLEAN]
    /\ \A h \in Hooks : lock = h <=> pc[h] \in Locked

\* "Log first: a failed log must never consume an unshown notification key"
\* (record_outcome): whatever dies where, evidence that is suppressed as
\* already notified is in a logged event of an earlier message.
SuppressedIsLogged == notified \subseteq logged

\* Once edits and faults stop, the state converges to the tree however many
\* outdated checks were still to be recorded: from some time on it holds the
\* tree's own keys and status, so that the next change is noticed.
StateConverges ==
    calm ~> [](notified = Keys(tree) /\ lastStatus = Status(tree))

\* "unchanged evidence is deduplicated" (docs/USAGE.md), as far as it goes with
\* several sessions: a message about the tree as it is holds something that
\* was not shown since the tree was last changed, unless a check of an earlier
\* tree, or one without a report, was stored in between.
RepeatOnlyAfterOutdated ==
    [][\A h \in current :
          Emit(h) /\ notify[h] /\ ~outdated => ~ (Keys(found[h]) \subseteq seen)]_vars

=============================================================================
