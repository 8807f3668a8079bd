----------------------------- MODULE HookProofs -----------------------------
(***************************************************************************)
(* What the hook suppresses was logged before, and what it shows again was *)
(* not the last that it stored, for every set of sessions, rules and       *)
(* trees: both arguments need the state lock, because whether something is *)
(* new is decided two file writes before the new keys are stored.          *)
(***************************************************************************)
EXTENDS HookNotify, TLAPS

\* Whoever logs knows what is stored; whoever stores has logged it.
LoggedFirst ==
    \A h \in Hooks :
        /\ pc[h] = "appendLog" /\ ~notify[h] => Keys(found[h]) \subseteq notified
        /\ pc[h] = "writeState" => Keys(found[h]) \subseteq logged

IInv == TypeOK /\ SuppressedIsLogged /\ LoggedFirst

-----------------------------------------------------------------------------

\* What a check finds is an outcome, and so is no report.
LEMMA OutcomesOfChecks == NoReport \in Outcomes /\ Trees \subseteq Outcomes
  BY HookAssumption DEF NoReport, Outcomes

\* What is stored as last status is one of the statuses.
LEMMA StatusType == \A outcome : Status(outcome) \in Statuses
  BY DEF Status, Statuses

\* The state directory is empty at first.
LEMMA IInvInit == Init => IInv
<1> SUFFICES ASSUME Init PROVE IInv
  OBVIOUS
<1>1. TypeOK
  BY HookAssumption DEF Init, TypeOK, Labels, Locked
<1>. QED
  BY <1>1 DEF Init, IInv, SuppressedIsLogged, LoggedFirst, Locked

\* A process that returns or dies takes nothing with it but its lock.
LEMMA IInvReturn ==
  ASSUME IInv, NEW h \in Hooks, Return(h),
         UNCHANGED <<tree, notified, lastStatus, logged, calm>>
  PROVE  IInv'
<1>1. TypeOK'
  BY HookAssumption DEF IInv, TypeOK, Return, Goto, Labels, Locked
<1>2. LoggedFirst'
  BY DEF IInv, TypeOK, LoggedFirst, Return, Goto, Locked
<1>. QED
  BY <1>1, <1>2 DEF IInv, SuppressedIsLogged

\* One step of one hook process.
LEMMA IInvStep ==
  ASSUME IInv, NEW h \in Hooks,
         \/ \E e \in HostEvents : Begin(h, e)
         \/ Load(h) \/ Record(h) \/ LockTimeout(h) \/ Step(h) \/ Abort(h)
  PROVE  IInv'
<1> USE DEF Goto
<1>1. ASSUME NEW e \in HostEvents, Begin(h, e) PROVE IInv'
  BY <1>1 DEF Begin, IInv, TypeOK, SuppressedIsLogged, LoggedFirst, Labels,
              Locked, stateVars, historyVars
<1>2. CASE Load(h)
  BY <1>2 DEF Load, IInv, TypeOK, SuppressedIsLogged, LoggedFirst, Labels,
              Locked, stateVars, historyVars
<1>3. CASE Check(h) \/ CheckTimeout(h)
  <2>1. \E outcome \in Outcomes : found' = [found EXCEPT ![h] = outcome]
    BY <1>3, OutcomesOfChecks DEF Check, CheckTimeout, IInv, TypeOK
  <2>. QED
    BY <1>3, <2>1 DEF Check, CheckTimeout, IInv, TypeOK, SuppressedIsLogged,
                      LoggedFirst, Labels, Locked, stateVars, historyVars
<1>4. CASE Record(h)
  <2>1. TypeOK'
    BY <1>4, HookAssumption
    DEF Record, IInv, TypeOK, Labels, Locked, stateVars, historyVars
  <2>2. LoggedFirst'
    BY <1>4 DEF Record, IInv, TypeOK, LoggedFirst, Locked, stateVars,
                historyVars
  <2>. QED
    BY <1>4, <2>1, <2>2
    DEF Record, IInv, SuppressedIsLogged, stateVars, historyVars
<1>5. CASE AppendLog(h)
  <2>1. CASE event[h] = "UserPromptSubmit"
    BY <1>5, <2>1, IInvReturn DEF AppendLog, stateVars
  <2>2. CASE event[h] = "Stop"
    <3>1. TypeOK'
      BY <1>5, <2>2 DEF AppendLog, IInv, TypeOK, Labels, Locked, stateVars
    <3>2. Keys(found[h]) \subseteq logged' /\ logged \subseteq logged'
      BY <1>5, <2>2 DEF AppendLog, IInv, TypeOK, SuppressedIsLogged, LoggedFirst
    <3>3. LoggedFirst'
      BY <1>5, <2>2, <3>2
      DEF AppendLog, IInv, TypeOK, LoggedFirst, Locked, stateVars
    <3>. QED
      BY <1>5, <2>2, <3>1, <3>2, <3>3
      DEF AppendLog, IInv, SuppressedIsLogged, stateVars
  <2>. QED
    BY <1>5, <2>1, <2>2 DEF AppendLog
<1>6. CASE WriteState(h)
  <2>1. TypeOK'
    BY <1>6, StatusType, HookAssumption
    DEF WriteState, IInv, TypeOK, Labels, Locked
  <2>2. \A k \in Hooks : pc[k] \in Locked => k = h
    BY <1>6 DEF WriteState, IInv, TypeOK, Locked
  <2>3. LoggedFirst'
    BY <1>6, <2>2 DEF WriteState, IInv, TypeOK, LoggedFirst, Locked
  <2>. QED
    BY <1>6, <2>1, <2>3 DEF WriteState, IInv, SuppressedIsLogged, LoggedFirst
<1>7. CASE Emit(h) \/ LockTimeout(h) \/ Abort(h)
  BY <1>7, IInvReturn DEF Emit, LockTimeout, Abort, stateVars, historyVars
<1>. QED
  BY <1>1, <1>2, <1>3, <1>4, <1>5, <1>6, <1>7 DEF Step

\* Every step of the specification.
LEMMA IInvNext == IInv /\ [Next]_vars => IInv'
<1> SUFFICES ASSUME IInv, [Next]_vars PROVE IInv'
  OBVIOUS
<1>1. CASE ChangeTree \/ CalmDown \/ UNCHANGED vars
  BY <1>1 DEF ChangeTree, CalmDown, vars, stateVars, historyVars, hookVars,
              IInv, TypeOK, SuppressedIsLogged, LoggedFirst
<1>. QED
  BY <1>1, IInvStep DEF Next

\* Types, and the lock held exactly while the outcome is logged and stored.
THEOREM TypeCorrect == Spec => []TypeOK
<1>1. IInv => TypeOK
  BY DEF IInv
<1>. QED
  BY <1>1, IInvInit, IInvNext, PTL DEF Spec

\* No crash and no interleaving consumes the key of evidence whose message was
\* never logged.
THEOREM LogBeforeSuppression == Spec => []SuppressedIsLogged
<1>1. IInv => SuppressedIsLogged
  BY DEF IInv
<1>. QED
  BY <1>1, IInvInit, IInvNext, PTL DEF Spec

-----------------------------------------------------------------------------
(* Unchanged evidence                                                      *)

\* Sessions whose check saw the tree as it is, and who are about to show it.
Showing == {h \in current : pc[h] = "emit" /\ notify[h]}

\* Whoever saw the tree as it is has its findings, and while it decides what
\* is new, nobody else stores.  As long as nothing else was stored, one of
\* them shows the keys of the tree, and the others find them in the state.
ShownOnce ==
    /\ \A h \in current : h \in Hooks /\ found[h] = tree
                          /\ pc[h] \in Locked \cup {"record", "emit"}
    /\ \A h \in current : pc[h] \in Locked /\ notify[h] =>
                              ~ (Keys(tree) \subseteq notified)
    /\ ~outdated /\ (seen # {} \/ Showing # {}) => Keys(tree) \subseteq notified
    /\ ~outdated => \A h \in Showing : seen = {} /\ Keys(tree) # {}
    /\ ~outdated => \A h, k \in Showing : h = k

RepeatInv == TypeOK /\ ShownOnce

\* A session that ends is no longer one that saw the tree.
LEMMA ShownOnceReturn ==
  ASSUME RepeatInv, NEW h \in Hooks, Return(h),
         UNCHANGED <<tree, notified, outdated, seen>>
  PROVE  ShownOnce'
<1>1. \A k \in current' : /\ k \in current /\ found'[k] = found[k]
                          /\ pc'[k] = pc[k] /\ notify'[k] = notify[k]
  BY DEF RepeatInv, ShownOnce, TypeOK, Return, Goto
<1>2. Showing' \subseteq Showing
  BY <1>1 DEF Showing
<1>. QED
  BY <1>1, <1>2 DEF RepeatInv, ShownOnce

\* A step that leaves those sessions where they are, and the state.
LEMMA ShownOnceOthers ==
  ASSUME RepeatInv, UNCHANGED <<tree, notified, outdated, seen, current>>,
         \A k \in current : /\ pc'[k] = pc[k] /\ found'[k] = found[k]
                            /\ notify'[k] = notify[k]
  PROVE  ShownOnce'
<1>1. Showing' = Showing
  BY DEF Showing
<1>. QED
  BY <1>1 DEF RepeatInv, ShownOnce

\* Every step of one session.
LEMMA ShownOnceStep ==
  ASSUME RepeatInv, NEW h \in Hooks,
         \/ \E e \in HostEvents : Begin(h, e)
         \/ Load(h) \/ Record(h) \/ LockTimeout(h) \/ Step(h) \/ Abort(h)
  PROVE  ShownOnce'
<1> USE DEF Goto
<1>0. /\ TypeOK /\ ShownOnce
      /\ \A k \in Hooks : pc[h] \in Locked /\ pc[k] \in Locked => k = h
  BY DEF RepeatInv, TypeOK
<1>1. CASE (\E e \in HostEvents : Begin(h, e)) \/ Load(h) \/ CheckTimeout(h)
  <2>1. h \notin current
    BY <1>0, <1>1 DEF ShownOnce, Begin, Load, CheckTimeout, Locked
  <2>2. UNCHANGED <<tree, notified, outdated, seen, current, notify>>
    BY <1>1 DEF Begin, Load, CheckTimeout, stateVars, historyVars, shownVars
  <2>3. \A k \in Hooks \ {h} : pc'[k] = pc[k] /\ found'[k] = found[k]
    BY <1>0, <1>1 DEF Begin, Load, CheckTimeout, TypeOK
  <2>. QED
    BY <1>0, <2>1, <2>2, <2>3, ShownOnceOthers DEF ShownOnce
<1>2. CASE Check(h)
  <2>1. /\ current' = current \cup {h} /\ h \notin current
        /\ UNCHANGED <<tree, notified, outdated, seen, notify>>
    BY <1>0, <1>2 DEF Check, ShownOnce, Locked, stateVars, shownVars
  <2>2. /\ pc'[h] = "record" /\ found'[h] = tree
        /\ \A k \in Hooks \ {h} : pc'[k] = pc[k] /\ found'[k] = found[k]
    BY <1>0, <1>2 DEF Check, TypeOK
  <2>3. Showing' = Showing
    BY <1>0, <2>1, <2>2 DEF Showing, ShownOnce
  <2>. QED
    BY <1>0, <2>1, <2>2, <2>3 DEF ShownOnce, Locked
<1>3. CASE Record(h)
  <2>1. /\ UNCHANGED <<tree, notified, outdated, seen, current, found>>
        /\ pc[h] = "record" /\ pc'[h] = "appendLog"
        /\ notify'[h] = (Keys(found[h]) \ notified # {})
        /\ \A k \in Hooks \ {h} : pc'[k] = pc[k] /\ notify'[k] = notify[k]
    BY <1>0, <1>3 DEF Record, TypeOK, stateVars, historyVars, shownVars
  <2>2. Showing' = Showing
    BY <1>0, <2>1 DEF Showing, ShownOnce
  <2>. QED
    BY <1>0, <2>1, <2>2 DEF ShownOnce, Locked
<1>4. CASE AppendLog(h)
  <2>1. CASE event[h] = "UserPromptSubmit"
    BY <1>4, <2>1, ShownOnceReturn DEF AppendLog, stateVars, shownVars
  <2>2. CASE event[h] = "Stop"
    <3>1. /\ UNCHANGED <<tree, notified, outdated, seen, current, found, notify>>
          /\ pc[h] = "appendLog" /\ pc'[h] = "writeState"
          /\ \A k \in Hooks \ {h} : pc'[k] = pc[k]
      BY <1>0, <1>4, <2>2 DEF AppendLog, TypeOK, stateVars, shownVars
    <3>2. Showing' = Showing
      BY <1>0, <3>1 DEF Showing, ShownOnce
    <3>. QED
      BY <1>0, <3>1, <3>2 DEF ShownOnce, Locked
  <2>. QED
    BY <1>4, <2>1, <2>2 DEF AppendLog
<1>5. CASE WriteState(h)
  <2>1. /\ UNCHANGED <<tree, seen, current, found, notify>>
        /\ pc[h] = "writeState" /\ pc'[h] = "emit"
        /\ notified' = Keys(found[h])
        /\ outdated' = (outdated \/ h \notin current)
        /\ \A k \in Hooks \ {h} : pc'[k] = pc[k]
    BY <1>0, <1>5 DEF WriteState, TypeOK
  <2>2. \A k \in current : pc'[k] \notin Locked
    BY <1>0, <2>1 DEF ShownOnce, Locked
  <2>3. \A k \in current : k \in Hooks /\ found'[k] = tree'
                           /\ pc'[k] \in Locked \cup {"record", "emit"}
    BY <1>0, <2>1 DEF ShownOnce
  <2>4. CASE outdated'
    BY <2>1, <2>2, <2>3, <2>4 DEF ShownOnce
  <2>5. CASE ~outdated'
    <3>1. ~outdated /\ h \in current /\ notified' = Keys(tree)
      BY <1>0, <2>1, <2>5 DEF ShownOnce
    <3>2. Showing' = IF notify[h] THEN Showing \cup {h} ELSE Showing
      BY <1>0, <2>1, <3>1 DEF Showing, ShownOnce
    <3>3. notify[h] => /\ ~ (Keys(tree) \subseteq notified)
                       /\ seen = {} /\ Showing = {}
      BY <1>0, <2>1, <3>1 DEF ShownOnce, Locked
    <3>. QED
      BY <1>0, <2>1, <2>2, <2>3, <3>1, <3>2, <3>3 DEF ShownOnce
  <2>. QED
    BY <2>4, <2>5
<1>6. CASE Emit(h)
  <2>1. CASE h \in Showing
    <3>1. /\ seen' = seen \cup Keys(found[h]) /\ found[h] = tree
          /\ UNCHANGED <<tree, notified, outdated>>
          /\ Return(h)
      BY <1>0, <1>6, <2>1 DEF Emit, Showing, ShownOnce, stateVars
    <3>2. \A k \in current' :
              /\ k \in current /\ k # h /\ found'[k] = found[k]
              /\ pc'[k] = pc[k] /\ notify'[k] = notify[k]
      BY <1>0, <3>1 DEF Return, ShownOnce, TypeOK
    <3>3. Showing' \subseteq Showing \ {h}
      BY <3>2 DEF Showing
    <3>. QED
      BY <1>0, <2>1, <3>1, <3>2, <3>3 DEF ShownOnce
  <2>2. CASE h \notin Showing
    <3>1. UNCHANGED <<tree, notified, outdated, seen>> /\ Return(h)
      BY <1>6, <2>2 DEF Emit, Showing, stateVars
    <3>. QED
      BY <3>1, ShownOnceReturn
  <2>. QED
    BY <2>1, <2>2
<1>7. CASE LockTimeout(h) \/ Abort(h)
  BY <1>7, ShownOnceReturn DEF LockTimeout, Abort, stateVars, shownVars
<1>. QED
  BY <1>1, <1>2, <1>3, <1>4, <1>5, <1>6, <1>7 DEF Step

\* A message about the tree as it is holds something that was not shown since
\* the tree was last changed, unless another outcome was stored in between
\* (record_outcome, and its second lock after the check).
THEOREM RepeatedAfterOutdated == Spec => RepeatOnlyAfterOutdated
<1>1. Init => IInv /\ ShownOnce
  BY IInvInit DEF Init, ShownOnce, Showing
<1>2. IInv /\ ShownOnce /\ [Next]_vars => (IInv /\ ShownOnce)'
  <2> SUFFICES ASSUME IInv, ShownOnce, [Next]_vars PROVE ShownOnce'
    BY IInvNext
  <2>1. RepeatInv
    BY DEF IInv, RepeatInv
  <2>2. CASE ChangeTree
    <3>1. current' = {} /\ outdated' = FALSE /\ seen' = {}
      BY <2>2 DEF ChangeTree
    <3>. QED
      BY <3>1 DEF ShownOnce, Showing
  <2>3. CASE CalmDown \/ UNCHANGED vars
    BY <2>1, <2>3, ShownOnceOthers
    DEF CalmDown, vars, stateVars, historyVars, shownVars, hookVars
  <2>. QED
    BY <2>1, <2>2, <2>3, ShownOnceStep DEF Next
<1>3. IInv /\ ShownOnce =>
        [\A h \in current : Emit(h) /\ notify[h] /\ ~outdated =>
                                ~ (Keys(found[h]) \subseteq seen)]_vars
  <2> SUFFICES ASSUME ShownOnce, NEW h \in current, Emit(h), notify[h],
                      ~outdated
               PROVE  ~ (Keys(found[h]) \subseteq seen)
    OBVIOUS
  <2>1. h \in Showing /\ found[h] = tree
    BY DEF Emit, Showing, ShownOnce
  <2>. QED
    BY <2>1 DEF ShownOnce
<1>. QED
  BY <1>1, <1>2, <1>3, PTL DEF Spec, RepeatOnlyAfterOutdated

=============================================================================
