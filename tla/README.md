# Spell Guard: TLA+ models, checks and proofs

Spell Guard (`src/spellguard`) is a command-line tool that sits between a coding
agent, a Git repository and a maintainer. A maintainer registers *rules* ("this
function may only lose callers") in `.spellguard/rules.json`; hooks of the host
(Codex and others) check the working tree at the end of every turn and tell the agent
what is new; `review`, `scan` and `debt` look for structural findings in a
change; `assist` builds packets of evidence for an assistant and holds the
assistant's quotations against the repository.

Nothing in it is a server. Every command is a short process, and everything that
is hard about the program comes from that: several processes run at the same
time on the same few files, any of them may die between two writes, and files,
index, `HEAD` and registry keep changing while a command reads them one after
another. That is what the modules here model.

Paths below are relative to the repository; `X.py` is `src/spellguard/X.py`.

## 1. Inventory

| part | state it keeps | operations | with whom it interacts | what makes it correct |
|---|---|---|---|---|
| Managed confirmation (`confirmation.py`) | in the Git metadata: `managed-proposal.json`; in the installation directory: `confirmation-pending.json`, `confirmation.json`, the adopted digest of `installation.json`; in the repository: `rules.json` | `propose`, `confirm`, `confirm --recover` | takes the installation lock; writes the record that setup writes; the hooks read it | two files are committed as one whatever dies where; the trusted digest moves by authorised envelopes only; a half-done confirmation can be finished |
| Setup (`installation.py`) | `hooks.json` of the host, `installation.json`, `setup-pending.json` | `setup`/`remove` preview, `--apply <digest>`, `status` | same record and lock as confirmation; the user edits `hooks.json` | the plan that was shown is what is done; what belongs to others in `hooks.json` is kept; hooks and record agree; interruption can be resumed |
| Managed hook (`hook_core.py:570-658`, `installation.py:1166-1224`) | none | end-of-turn and prompt hook of an installation | reads record, registry, record, pending confirmation and registry again, without the lock | it answers only for rules that the maintainer trusted |
| Hook notifications (`hook_core.py`) | `state.json` (keys shown, last status), an event log, a lock | prompt hook, end-of-turn hook | runs the check on the working tree, several sessions at once | nothing is suppressed that was not shown; unchanged evidence is not repeated; the state converges |
| Unmanaged registration (`marking.py`) | `proposal.json` in the Git metadata, `rules.json` | `propose`, `confirm` | no lock: `os.replace` and `os.link` only | the registry is made once, of approved content; repeating cleans up |
| Snapshots and change sets (`repository.py`) | none | `collect_working_tree`, `collect_commit`, `collect_change_set` | reads files and Git while both change | a complete snapshot is one instant of the tree |
| Check (`window_review.py`, `windows.py`) | none | `review_windows` | registry, `HEAD`, change set, snapshot, registry again | a complete report is exact; a modified registry never passes; "added" is new |
| Python caller detection (`windows.py`) | none | search for callers, status of a rule | called by the check | every file is considered before "no caller" is said |
| Other languages' detectors (`*_windows.py`) | none | as above, for Go, JavaScript, Java, C, C++ | called by the check | a function of one file's text |
| Rules and comparison (`rules/`, `review.py`, `governance.py`) | none | detect, fingerprint, compare, accept | called by `review` and `scan` | each finding is told once, and called what it is |
| `review`, `scan`, `debt` (`cli.py`, `review.py`) | none | one command each | base commit, index, tree, exceptions file, one after another | a passing gate has looked at everything |
| Facts (`analysis.py`) | none | parse a snapshot | called by review | a function of one file; incomplete if one cannot be parsed |
| Assisted review (`assisted_review.py`, `review_packet.py`) | `packet.json` in the caller's hands | `assist prepare`, `assist validate` | commit, tree, change set, registry, twice | anchored means quoted exactly, and from what was shown |
| Rules of a registry (`registry.py`, `confirmation.py:243-307`) | none | parse, digest, next identifier, add, resolve | everybody | one digest per content; a change of a valid registry is valid; an identifier is given once |
| Command line, reports, host adapters, demo | none | formatting and translation | around the above | – |

Hard behaviours, in the order in which they matter:

1. *Crash between two writes.* Confirmation replaces the registry, then
   `confirmation.json`, then `installation.json`; setup writes `hooks.json`, then
   the record. Each has a pending record for recovery.
2. *Two kinds of transactions on one record.* Setup and confirmation both read,
   modify and write `installation.json`, and neither looks at the other's
   pending file.
3. *Check outside the lock.* The hook reads the state, releases the lock, checks
   for seconds, and takes the lock again to log and store.
4. *Reads one after another.* A check and a review read five things in sequence
   with other processes writing; snapshots are read twice and compared.
5. *Reads without a lock.* The managed hook puts a decision about trust together
   from five reads of files that setup and confirmation write.
6. *Files without a lock.* The unmanaged flow relies on atomic rename and link.
7. *Comparison of look-alikes.* Findings that look alike, groups that grow, and
   renamed files, all in one comparison.
8. *Names in Python.* A call reaches a protected function through imports,
   aliases, dots and scopes; a file in which the check finds nothing must not
   hide a caller.

`PROJECT.json` lists these hazards at their lines, with the properties that
would catch each one going wrong.

## 2. Modules

| module | models | composed of |
|---|---|---|
| `ManagedState` | the shared registry, record and `flock`, edits by hand | – |
| `Adoption` | abstract specification of a confirmation | – |
| `Confirmation` | `propose`, `confirm`, `recover` | extends `ManagedState`, implements `Adoption` |
| `Setup` | `plan_setup`, `apply_setup`, resumption | extends `ManagedState` |
| `Installation` | abstract specification of everything that changes an installation | – |
| `Managed` | setup and confirmation on one installation | extends `Confirmation`, instance of `Setup`, implements `Installation` |
| `RuleRegistry` | `parse_registry`, `_next_rule_id`, `_build_add`, `_build_resolve` | – |
| `ManagedHook` | `run_managed_adapter`, `installation_status` | extends `RuleRegistry`, instance of `Installation` |
| `HookNotify` | `run_adapter`, `record_outcome` | – |
| `Marking` | unmanaged `propose`, `confirm` | – |
| `Snapshot` | `collect_working_tree` | – |
| `WindowReview` | `review_windows` | extends `Snapshot`, instance of `ChangeSet` |
| `PythonCallers` | `check_window` for Python | – |
| `ChangeSet` | what Git tells of a commit, an index and a tree | – |
| `Findings` | detectors and `compare_findings`, as operators | – |
| `Review` | `review`, `review --fail-on`, `scan` | extends `Findings`, instance of `ChangeSet` |
| `AssistedReview` | `assist prepare`, `assist validate` | instance of `ChangeSet` |
| `ManagedProofs`, `SetupProofs`, `ManagedHookProofs`, `HookProofs`, `MarkingProofs`, `WindowReviewProofs`, `ReviewProofs`, `EvidenceProofs` | theorems and their lemmas | each extends the module in its name; `ManagedProofs` is about `Confirmation` too, `HookProofs` about `HookNotify`, `EvidenceProofs` about `PythonCallers` and `AssistedReview` |
| `MC*` | constants of the instances that TLC checks | one per component |

Each action is one stretch of code between two points at which another process
can make a difference; `PROJECT.json` maps every definition to its lines. Variables
that exist only in the model are marked `history` where they are declared.
Definitions with a comment "Mutated form" are plausible faults of a mapped
definition; no specification uses them, they show that each property can be
violated by a fault in the code it is about.

### 2.1 ManagedState, Confirmation, Adoption

A registry is its digest (the digest is a hash of the canonical content), an
envelope the pair of digests it binds. A client `p` walks through `pc[p]`: `idle`,
waiting for the lock (`propose`, `confirm`, `recover`: `AcquireLock`), then, with the
lock, `Propose` / `ProposeRefused`; for `confirm` one of `ConfirmResumes`,
`AlreadyConfirmed`, `RepeatedConflict`, `ConfirmPrepare`, `ConfirmRefused`; for
`recover` `RecoverResumes`, `RecoverNothing`; then the commit: `ReadRegistry`
(`ReadConflict`), `WriteRegistry`, `WriteConfirmation`, `WriteRecord`, `UnlinkPending`
(`UnlinkFails`), `Review`. `Abort` is a crash, an error, or a lock timeout: locals go,
the kernel drops the lock, files stay. The record is read *before* the lock is
taken (`rec[p]`), as `confirmation.py:639` does. Every file is written by an atomic
replace, so a write is one step.

`Adoption` says what all of this is for: the trusted digest moves in one step,
from a digest that was trusted once to the result of an envelope the maintainer
authorised. "Was trusted once" and not "is trusted" is the code's promise, because
of the early read; see section 6.

### 2.2 Setup

`hooks.json` is what setup distinguishes: the events that carry our hook, whether
something forbids a plan, and the rest; a plan is the record of what its digest covers
(operation, file before and after, record before, registry digest and its
state). `AlreadyApplied` comes before the lock, as in the code;
`Apply` waits for it, and `OthersLock` and `OthersUnlock` are another command on the same lock that changes
nothing setup reads (what it may change is `Managed`'s subject); `Resume`, `Prepare`, `Refused` decide with it; `ApplyConfig`,
`CommitRecord`, `ClearPending` are the three writes. `Repeat` is the maintainer
repeating the digest of an interrupted plan.

### 2.3 Managed, Installation

`Setup` and `Confirmation` over one record, registry and lock, each with
its own pending file and program counters (`ManagedSpec`). Its initial state has nothing
installed. The types of both components are checked by their own runs.

`Installation` says the same without clients, lock, waiting and crashes: two transactions, each of
which leaves a pending record, changes its files and takes the pending record away
only when `installation.json` is as that record says. Under the mapping

* `setupPending` is the operation of the pending plan, with its digest if it installs;
* `written` is that some client is between the registry and the end of its commit;

every step of `Managed` is a step of `Installation` or leaves it alone
(`ImplementsInstallation`). The lock is what makes this so: with it left out
neither transaction can rely on the record it has read. What is said of the
hook (2.4) is said of `Installation`, and so of all that `Managed` allows.

### 2.4 RuleRegistry, ManagedHook

A registry is a sequence of rules, a rule its identifier, symbol and whether it is active. An
identifier is a number and a spelling, since the parser takes `TEMP-002` and `TEMP-0002` for two
and `_next_rule_id` counts both as 2. `Parses`, `NextId`, `Add`, `Resolve` are the functions of
the code; `Continues` says what any change must keep.

`ManagedHook` is the hook on the files of `Installation`: `Load` (the record), `ReadRegistry`, `ReadRecord`
(the record again), `ReadPending`, which together are `installation_status`, then `CheckRegistry` and
`VerifyRegistry`, the two times at which the check reads the registry under the digest that `Load` took. A
prompt needs only the first of them. `Others` is one step of setup, of a confirmation or of an
editor. Its registries are closed under the changes that `RuleRegistry` admits, so that the digests an installation
moves through are those of real registries and not two arbitrary ones that could alternate:
this is what rules out that an old digest comes back (section 6).

### 2.5 HookNotify

A tree is what a check of it finds. `Begin` starts a session's hook for one host event; `Load` is the first, short hold of the lock, which
tests that the state can be read. For both events the command line runs without the lock (`Check`, `CheckTimeout`); a
prompt's `context` has no verdicts, so that its outcome is never stored. `Record` takes the lock again, reads the stored state and
decides whether there is something new. `AppendLog` writes the event: a prompt's hook ends here, without having changed the state; at the end of a
turn `WriteState` replaces the keys and the status and drops the lock, and `Emit` shows the message.
`LockTimeout` is the second without the lock, at `Load` or `Record`; `Abort` is a failing write, or a
death at any of these points. A notification key is the failure with all its diagnostics, or a rule with its status and its evidence.

The history variables are: `logged`, the keys of all events logged as emitted; `current`, the hooks whose check saw the tree as it is;
`outdated`, that an outcome other than the tree's own was stored since the tree changed; `seen`, the keys of the tree as it is that were shown.

### 2.6 Marking

`Propose` replaces the draft; `Confirm` goes `Read` (parse and compare the digest),
`Create` (link), `CreateExists` / `AlreadyConfirmed` (an existing registry with the same
bytes), `Clean` (unlink by name). A file is its bytes, two layouts of one registry
share a digest: this is why "already confirmed" and "same digest" are not the
same. `Edit` changes either file by hand.

### 2.7 Snapshot, WindowReview

`List` makes the first listing and takes the paths that may be missing; `Read` and `ReadFails` note one
path per step; `Relist` lists again for the second pass; `Finish` ends it; `Inventory` is what is returned and
`CoverageComplete` whether it is complete. `EditPath` changes one file or index
entry between any two steps. `Snapshot` has no specification of its own: its actions are steps
of the check.

`WindowReview` adds what surrounds them: `ReadRegistry`, `ReadHead`, `ListChanges`,
`DiffChanges` (the change set resolves `HEAD` again), `Collect`, `Verify` (registry
again, evaluation, exit code); `GitFails` and `CollectFails` are the error branches.
What a detector finds in one source is a constant (`Defines`, `Callers`, `Unclear`). What Git calls deleted and renamed is
`ChangeSet`'s: `DiffChanges` takes any pairing of removed with created files of similar content (`Similar`) and
takes the old names out of the deleted paths. `disturbed` counts changes and failures of any kind; `meddled` records
that one of them was of a file, the index, Git or a read, and not only of `HEAD` or the registry.

### 2.8 PythonCallers

A file is what the check takes from its syntax tree: imports in the order of `ast.walk`, calls by the dotted name they
call with the functions and classes around them, and the names that are assigned,
used as values or passed to `getattr`. `Parse`, `Locate` (or `SymbolMissing`), `CollectImport` for one import at a time, `Inspect`,
`Match`, `Conclude` are the passes of `check_window` in their order.

The reference is Python's own rules: `Imported` and `Meaning` for what an import binds, `Hidden` for
scoping (a class hides a name from the statements of its own body only), `IsCaller` for what a call reaches.
A plain import of the very path of the function
(`import demo.old.f as g`) is no way to reach it, since Python imports modules only: `IsCaller` says so, and the proof of
`ConsumersCall` needs it.
`Unambiguous` and `KnownShape` are the calls that the check undertakes to find (`docs/USAGE.md`: direct calls
through an unambiguous import or module alias); section 6 lists what is outside.

### 2.9 ChangeSet, Findings, Review

`ChangeSet` says which paths Git calls added, deleted, modified, untracked and
renamed (`Similar` is Git's rename similarity). `Findings` has the three detectors
on the facts of a file and both rounds of `compare_findings`: exact
fingerprints first, then look-alikes with renames, where only a certain (unique)
candidate is taken. `Review` reads base, deletions, tree, renames and exceptions in
that order (`CollectBase`, `FindDeleted`, `Collect`, `FindRenames`, `Govern`) and
computes the delta and the exit code in the last step. The name of the base is resolved by three of these steps; `compared` is
the commit that the renames belong to.

### 2.10 AssistedReview

`CollectBase`, `Collect`, `ListChanges` then `Prepare` or `Validate`. A content is a
sequence of lines so that anchors, quotes and budgets are what they are in
the code; the packet's id is a hash of it, so the packet stands for it. `Prepare`
goes through the paths that were touched, in their order, then through those of the context (`ChosenUpTo`, a recursive function of the
number of turns), and selects files under `MaxFiles` and `MaxText`; `Validate` builds the packet again,
compares it with the submitted one (`stale`), and tests every question.

## 3. Runs

All constants are in the `.cfg` files and `MC*` modules. Times are of two workers.

| run | instance | what is asked | distinct states |
|---|---|---|---|
| `MCConfirmation` | 2 clients; registries `a`, `b`; the registry may be edited to any of `a`, `b`, absent, unreadable | `CommitAtomic`, `RegistryFollowsAdoption`, `PendingKeptUntilCommitted`, `ImplementsAdoption`, `PendingRecovered` | 494 848, 90 s |
| `MCSetup` | 1 installer and a client of another kind; 2 events; 7 shapes of `hooks.json` | `HooksFollowLifecycle`, `OthersContentKept`, `AdoptedWasShown`, `CreatedFileRemoved`, `PendingKeptUntilCommitted`, `SetupResumed` | 2.07 M, 2 min |
| `MCManaged` | 1 installer, 1 confirmer; one registry | `ImplementsInstallation`, `TrustMovesOnlyByConsent` | 2.40 M, 54 s |
| `MCManagedHook` | one protected function; 2 rules at most; a registry written by hand that begins at TEMP-002; the registry may be deleted | `ChangesParse`, `RegistryContinues`, `AnswersUnderTrust` | 2.99 M, 72 s |
| `MCHookNotify` | 2 sessions; 2 rules; 2 trees; checks may time out | `SuppressedIsLogged`, `RepeatOnlyAfterOutdated`, `StateConverges` | 77 736, 85 s |
| `MCMarking` | 2 processes; 3 drafts, two of them layouts of one registry | `ConsentBeforeRegistry`, `DraftCleaned` | 14 424, 3 s |
| `MCWindowReview` | 2 paths, 1 rule, 3 sources, 5 commits, 2 past states, 2 disturbances; two different sources are similar | `SnapshotIsInstant`, `CompleteReportIsExact`, `SelfModifiedNeverPasses`, `AddedIsNew`, `DeletionsTolerated` | 1.43 M, 16 s |
| `MCCallers` | 1 or 2 of 22 imports, 7 calls at 8 places, 6 other uses of the name | `CallersFound`, `ConsumersCall` | 1.23 M, 22 s |
| `MCReview` | 2 paths, 5 sources, 3 commits, 2 sets of exceptions, 2 disturbances | `DeltaIsPartition`, `GateMissesNothing`, `IntroducedIsNew` | 8.00 M, 100 s |
| `MCAssist` | 3 Go files in 2 directories, texts of one or two lines, 6 responses, 1 change | `CompletePacketShowsAll`, `AnchoredIsExact` | 4.37 M, 90 s |
| `MCStuckSetup` | as `MCSetup`, fewer edits, with fairness | `RepeatedDigestResumes`: **violated** | |
| `MCUnrelated` | one import and one call at the top | `UnrelatedImportsIgnored`: **violated** | |

The runs of `Confirmation`, `Setup`, `HookNotify`, `Marking`, `WindowReview`, `Review` and `AssistedReview` also check
the type invariant.

What the passing runs show:

* **Confirmation.** With nothing pending, `confirmation.json` and the adopted digest
  agree, whatever died where and whatever other clients confirmed or recovered (setup beside them is the subject of
  `MCManaged`). Without edits by hand a registry
  that is not the adopted one comes with the pending record that explains it. The pending
  record is never replaced and goes only after the commit. Each step implements
  `Adoption` or changes nothing of it. Recovery completes what is pending or finds a
  registry that somebody else made.
* **Setup.** With no setup pending and no edit of `hooks.json` since, all our hooks are
  in it exactly while the record is active. What others have in the file is in what
  is written. The adopted digest is the one the plan showed, however late the plan is
  completed, and "no registry" is adopted only where the plan showed an absent one. A file
  setup created is gone after removal, and a file that a plan has seen is deleted only while the record says that setup created it, which it
  says only from the first install that found none. An interrupted setup is
  completed by repeating its digest, *unless the record already carries it* (that
  exception is `MCStuckSetup`).
* **Both together.** Setup and confirmation implement `Installation`: neither loses the other's
  update of the record, nor takes its pending file away before the record is as it says, whoever waits,
  crashes or resumes. The trusted digest moves by an authorised envelope or by an install whose plan showed it; a
  removal, resumed or not, never moves it.
* **Managed hook.** Between its first read and an answer from the rules there was one instant at which the
  record's digest was the one it uses, the registry had it and no confirmation was
  under way. A confirmation in progress ends in a notice, whatever part of it the five reads saw.
* **Rules.** A change that a valid registry admits makes a valid one, with identifiers written by hand too. Through
  confirmations, crashes, setups and removals rules keep their places, identifiers and symbols; none becomes active again.
* **Hooks.** Every key that is suppressed is in an event that was logged as emitted,
  wherever a hook died. A message about the tree as it is repeats nothing unless an
  outcome of an earlier tree, or one without a report, was stored in between. When
  edits and faults stop, state and tree agree for good, however many late checks
  were under way.
* **Unmanaged registration.** A command creates the registry only where there is none
  and only of a digest that was shown and passed back, although the draft may be
  replaced between its steps. A draft does not stay beside the registry made of it.
* **Check.** A snapshot that is called complete is the whole tree at one instant, provided no path
  returns to a state it left during the collection. A report with exit 0 or 1 is the evaluation of the whole tree of one
  instant against the commit it names. A report on a registry was preceded by a
  time, after the tree was listed, at which that registry was the expected one. No caller of
  the base is called added, in incomplete reports either. An ordinary deletion does not
  make a check incomplete, also if `HEAD` moves meanwhile; one that Git may take for half of a rename, to a new file of similar
  content, can.
* **Python callers.** A complete answer names every call of a known shape through an unambiguous import, whatever
  dots, aliases, parameters, local definitions and further imports there are; and who is named does call the function.
* **Review.** Each finding of either side is told exactly once. A gate that passes
  covers every finding by the base or by an acceptance in force on that day, unless the name of the base was moved
  between two of its resolutions. What is
  called introduced has no counterpart that it is not compared with.
* **Assisted review.** A complete packet leaves out nothing of a change, and nothing
  beside it. An anchored response quotes texts that were there together at one
  instant, in a packet that was the one shown (with the proviso of the check: no path returns to a state it left
  while the tree was collected).

### Bounds, and why they are enough

* *Two clients, two hooks, two writers.* A race is between a process that is in the
  middle of something and another that does anything at all, including a whole
  command; a third adds another of the same. The proofs (section 5) have any number.
* *One installer* in `MCSetup`: two are covered by the proofs, and `MCManaged` has a confirmer beside it. In `MCSetup`
  a second client only holds the lock for a while, which is what a lock timeout takes.
* *Two registries* in `MCConfirmation`: two proposals compete for the absent registry
  and one can follow the other. `MCManaged` has one: the digest that can be lost is that
  one or none.
* *Two rules* in `MCManagedHook`: an addition after a resolution and one after a gap. Without a limit on the rules
  the registries would not be finite; with it, a digest goes through at most two additions and two
  resolutions, which is more than the hook's five reads can meet in the order that matters (one
  complete confirmation and half of the next).
* *Files of `MCCallers`*: every import form by every form of call by every place, and every pair of imports at the three
  places where scopes nest. Two imports are what it takes to bind one name twice or a name and its module.
* *Seven shapes of `hooks.json`*: one for each branch of a plan (absent, unreadable,
  blank, foreign content, clash, one of our hooks, all of ours beside foreign ones).
* *Trees of `HookNotify`*: the second has all the first notifies of and more, so keys
  can appear, vanish and return.
* *`MaxPast`* bounds how many states the paths leave in one collection (2 of two paths:
  one can change in each pass, or both in one), *`MaxDisturbed`* the changes and
  failures in one check or review, *`MaxChanges`* those during prepare and
  validate. A read that is invalidated needs one, one that is disguised needs two.
* *Three commits* in `MCReview`: one that does not parse, one with a group in each file, and one that lacks the second
  file, so that a base that moves from the one before to it makes a group meet two.
* *`MaxDay` = 1*: an acceptance is in force on day 0 and has ended on day 1; the
  day is read once, so it is chosen at the start.
* *`MCInit` of `MCWindowReview`* starts with the expected registry and the protected file
  in the index, intact or deleted: the other initial states are reached by `EditTree` and
  `EditRegistry`, or give an incomplete report at once.
* *Two files* in review: renames, moves and doubled findings need two places. *Three* in
  `AssistedReview`: two in one directory, for the files that are context only.

`CHECK_DEADLOCK FALSE` is said for `MCWindowReview`, `MCCallers`, `MCUnrelated`, `MCReview` and `MCAssist`,
which model one command that ends, and for `MCMarking`, where all processes may be
done for good once nothing changes. The others never stop: there can always be another command.

### Fairness

Liveness is asked only of `FairSpec`. `calm` becomes true at an unpredictable moment;
from then on there are no crashes, failing writes, timeouts or edits. No step of the
code depends on it, it is the "eventually nothing goes wrong" every recovery claim
presupposes.

| module | fairness | why the code justifies it |
|---|---|---|
| `Confirmation` | WF of each client's steps | a running process goes on |
| | SF of `AcquireLock(p)` | `_lock` tries again until it gets the `flock` or times out; a client that does not get it is run again |
| | SF of `RecoverStart(p)` | the maintainer runs `--recover` when told that something is pending |
| `Setup` | WF of steps, SF of `AcquireLock(p)` | as above |
| | SF of `Repeat(p)` | the maintainer repeats the digest, as `docs/USAGE.md:57` says |
| | WF of `OthersUnlock` | another command ends, or is killed and the kernel drops its lock |
| `HookNotify` | WF of steps | as above |
| | SF of `Begin(h, "Stop")`, `Load`, `Record` | the host runs the hook at the end of every turn; both locks are tried until they are free |
| `Marking` | WF of steps | as above |
| | SF of confirming the draft that is there | the maintainer repeats `confirm` with the digest of the draft |

Nothing is assumed of edits, proposals or crashes. `Next` of each module allows them for
ever; only `calm` stops them.

## 4. Disagreements of code and documentation that a run shows

* **`MCStuckSetup`.** `apply_setup` answers a repeated digest from the record
  (`installation.py:1120`) before it looks for `setup-pending.json`. If the first run died after
  the record and before the pending file was removed, repeating the digest
  answers `already_applied` and leaves it; every other setup is then refused as
  `SETUP_BUSY`. `docs/USAGE.md:57` and `installation.py:12-15` promise resumption by
  repeating.
* **`MCUnrelated`.** `_collect_bindings` takes an imported name that equals the last part of its module for that module,
  whatever module it is (`windows.py:394`): after `from datetime import datetime` a use of `datetime` as a
  value makes the check incomplete. The docstring (`windows.py:353-356`) says that unrelated imports are out of
  scope, since "reporting them as UNSUPPORTED_REFERENCE would make every repository permanently incomplete".

## 5. Proofs

The TLA+ proof system checks these theorems for every value of the constants that meets
the named assumptions of the modules (markers are different from each other
and from data; `Confirmers` are clients; results are registries).

**`ManagedProofs`, first part.** About `Confirmation` alone. `CommitAtomic` and the rest are not inductive. What makes them so
is `IInv`: `TypeOK`; *LockOwned*, that the lock's holder is the one client past its
acquisition; *Stages*, what the files hold at each place of the commit (whoever is at
`WriteRecord` has the pending envelope as its job, `confirmation.json` carries it, and without
edits by hand the registry is its result); *Trust*, that what is pending was authorised, and that it
and every record loaded before the lock start at a digest of the lineage; and the two invariants themselves. A step by one client moves its
own stage only, because the lock excludes the others from every file the stages mention; a crash
keeps the files and so the invariants. From `IInv`:
`TypeCorrect`, `CrashAtomicity` ([]CommitAtomic), `RegistryAccounted`
([]RegistryFollowsAdoption), `PendingProtocol`, and `Refinement`: `Spec => A!Spec`, where
`WriteRecord` maps to `Adopt`, the start of a confirmation to `Authorize`, and every other step to a stutter.

**`SetupProofs`.** The same plan, for `Setup` with any number of installers. *LockOwned* as above; *Planned*: every plan
that somebody was shown or has begun was derived by the code, with the promises of its kind (*PlanShape*: an
install has all our events and keeps the rest, a removal none of ours); *Stages*: who executes a plan executes the pending one, and has the files
before its place written, up to the record and the manifest being as the plan says (*Committed*). A crash leaves the
pending plan, and the files somewhere between two of its stages; `Resume` accepts either. From it
`TypeCorrect`, `HooksAgree`, `AdoptedShown`, `NothingLeft` and `PendingProtocol`. `OthersKept` carries *Remembered* beside it: what the pending
plan says of the creation of `hooks.json` is what the record says, or without a record what the plan has found, before and after the plan's own
commit. There is one theorem for each safety property that `MCSetup` checks.

**`ManagedProofs`, second part.** Setup and confirmation together (`ManagedSpec`), for any number of clients of both kinds, who share the lock. `IInv` has the types of both;
*LockOwned*, now over clients of whichever kind; *SetupStages* and *ConfirmStages*, that who executes has its pending file and,
at the last step, the record as that file says; and *Trust*, that what is pending was authorised, and that the records that
clients loaded before the lock, and the results they can produce, are of the lineage. With it every action is a step of `Installation` or a stutter (`ManagedRefinement`): the write of
the record by one kind cannot fall between the writes of the other. `ManagedConsent` is read off the two actions that write the record.

**`ManagedHookProofs`.** That a change of a registry parses and continues it (`AddGood`, `ResolveGood`) rests on the
new identifier being above all others, hence on a highest number existing. The library's induction is not
available to these provers, so `NumbersBounded` argues by the smallest counterexample, which well-foundedness of `<` on the naturals
gives. `AllChangesParse` follows at once. `RulesKept` needs the invariant *HookInv*: what is pending starts
at a registry or none and results from a change of it, and unless somebody edited the file, the file is one of the two.
`AnswersTrusted` puts an order on registries: one is not after another if the other continues it (`NotAfter`; antisymmetric by
`BeforeAntisymmetric`). While nobody edits, the registry only grows, and the record's digest and that of a pending setup are not
after it (*Ordered*). So the digest that the first read loads is not after the registry from then on, and a registry that has gone on does not come
back to it: if the check finds that digest at the end, the registry has had it all the time. With no confirmation pending at the fourth
read, there was an instant with registry and record as loaded and nobody at work (`settled`), which is what *OrderInv* carries along.

**`HookProofs`.** `TypeCorrect` and `LogBeforeSuppression` ([]SuppressedIsLogged). The
strengthening is *LoggedFirst*: a hook that is about to write the state has all keys it will store
in the log, and one that logs nothing new has them in the state already. It is stable because the
log only grows and only the lock's holder writes the state. `RepeatedAfterOutdated` has another one, *ShownOnce*: sessions that
saw the tree as it is all have the same keys; while one of them holds the lock with something to show, the state lacks a key;
and while nothing outdated was stored, at most one is about to show them, the state has them from then on, and before it they were not shown.

**`MarkingProofs`.** `TypeCorrect` carries the argument: past its read a process has bytes of
the digest it was given, which was approved; nobody can take them from it, as `Create` links what
was read and not what the draft is now. `Consent` follows without any lock.

**`WindowReviewProofs`.** First the collection, as a part of the check. Beside the types the invariant *SnapshotInv* says: an
inventory is empty before its pass (*NotYet*); no path is in a state it has left (*NeverBack*); what
the first pass noted is what the path is, or was (*FirstWas*); from the second listing on it is still that
at the listing, or has left it, and what both passes noted is what the path was at the listing
(*WitnessSince*); a path the second pass leaves out was not there when it began (*AllListed*). What the
first pass read held before the second listing and what the second pass read holds after it; a path that does not
return had the same state at the listing, and that is the instant.

For the whole check `IInv` adds to it where the collection is while the check is somewhere (*Together*), that from the
second listing on a registry that is as expected has been so at some time (*Vouching*), and that a report is what `Verify` makes of
the inventory (*Reported*). `TypeCorrect`, `NeverSelfModified` and `AddedNew` hold for every check;
`CompleteIsInstant` and `CompleteExact` assume `~Undo`. The latter combines the instant with `SameSources`: evaluation depends
on the sources of an inventory only, and those are the tree's. `DeletedFilesTolerated` has an invariant of its own (*Quiet*) for checks with which
files, index and Git do not interfere, wherever `HEAD` and registry go, and for any similarity of contents: `Foreseen`, that what `git diff` calls deleted is ignored, and `AsRead`, that both passes note what is there.

**`ReviewProofs`.** About `compare_findings` itself, then the command. A round of matching takes only
pairs that are *certain*, alone on both sides (`CertainAlone`), so each finding is in one pair
at most (`OldOnce`, `NewOnce`); the second round matches what the first left, so the two are disjoint
(`Rounds`); what is in no pair is introduced or resolved; hence `ComparedOnce`. An incomplete
analysis moves entries between classes and loses none (`IncompleteOnce`). `EveryFindingTold`
is `Spec => []DeltaIsPartition`. For the command `IInv` adds to the types *RenamesKnown*, that Git renames injectively and to files the
commit lacks, and *ReportIsJudged*, that a report is made of what was read. Both other theorems compare what the property calls a counterpart with
what the rounds match (`CounterpartsAreMatched`, `MatchedAreCounterparts`), which differ for single findings only, as a file has one group of a
structure at most (`GroupsAreUnique`). `IntroducedNew` holds for any base. `GatePassesKnown` needs that a group that has grown meets no
other one (`GrownIsCertain`), and here *RenamesKnown* must be about the base that was read.

**`EvidenceProofs`, callers.** For files of any length. `CheckInv` adds to the types *Collected*, that a name with one import at the top
is bound to what that import means as soon as it has been gone through, whatever else the file imports, and *Answered*, that an answer names calls
that match and a complete one all that match. The rest is no matter of states: `ResolveIsImported` compares the check's rule for
relative imports with Python's, and for each known shape of a call the check matches exactly if Python
reaches the function. `CallersAreFound` and `ConsumersReallyCall` follow. `UnrelatedHarmless` bounds
the disagreement that `MCUnrelated` shows: a file that imports from other packages only gets a complete answer, unless an
imported name equals the last part of its module. That case is the only one.

**`EvidenceProofs`, packets.** `AssistInv` adds to the types *WorkingTreeSeen*, that the tree as it is counts among those seen, *CollectedWasSeen*,
that what was collected was all there at one instant, *CollectedIsCurrent*, that it is there still while nothing has changed, and
`AnchoredIsExact`. With it `AssistTypeCorrect` and `AnchoredExact`. `CompleteShowsAll` is about the selection, a recursive function.
The library's induction is not available, so the smallest number of turns (`Smallest`) is used twice: for there being such a function
(`SelectionExists`, `ChosenTurnByTurn`), and for its having, after every turn, an entry of each candidate so far
or a count of what it left out (`GoodTurn`, `ChosenGood`). `RenamesLeaveCandidates`: however Git pairs files as renamed, the candidates are the same.

Only model-checked: liveness (`PendingRecovered`, `SetupResumed`, `StateConverges`, `DraftCleaned`), as the proof system has no rules for ENABLED
and fairness. Every other property of a passing run is proved. The two violated properties are shown by their counterexamples.

## 6. Where the code is weaker than one might think

These are faithful in the models and are the reason why some property is stated as
weakly as it is; they are not runs of their own.

* *Record before lock* (`confirmation.py:639`, lock at `:320`): a confirmation that waited may start from a
  digest no longer adopted, or be refused as a conflict that is none. Hence "was trusted once" in `Adoption`.
* *Repeated confirmation* (`confirmation.py:662-667`): two clients confirm the same digest; the one that waited finds
  it confirmed, but compares the result with the record it loaded before the lock, and answers
  `CONFIRMATION_CONFLICT` for what is confirmed and in order.
* *Registry edit between read and replace* (`confirmation.py:542`, `:546`) and *`hooks.json` edit between
  plan and write* (`installation.py:1046`): the edit is overwritten.
* *The record remembers for good who created `hooks.json`* (`installation.py:796`): if the user deletes the file that setup created and
  makes a blank one of their own, the next removal deletes it. A removal whose plan saw no file also
  deletes one that is made between plan and write. Hence `OthersContentKept` is about what the record says, and about files
  that the plan has seen.
* *Check with the lock held* (`confirmation.py:656`): other clients time out during it.
* *Plan applied, undone by hand, applied again* (`installation.py:1120`): reported as applied, nothing is written.
* *Resumed setup* (`installation.py:972`): it commits the registry digest of its plan, also if a confirmation was
  made after the crash; the hooks then trust the older digest and report drift. `docs/USAGE.md:53` says that a
  confirmation updates the adopted digest and needs no rebinding. Hence the lineage in `Installation`.
* *Managed hook*. A turn can be quiet although a registry is adopted, if a crashed first confirmation is recovered between the hook's first
  read and its last; a "drifted" notice can be about a confirmation that ended a moment ago. The lifecycle of
  the record is not tested: what stops a disabled installation is that its hooks are gone from `hooks.json`. That no old digest
  returns during the five reads rests on rules being appended and resolved only; somebody who edits the file back and
  forth can get an answer for it (hence `edited` in `AnswersUnderTrust`).
* *Python callers outside the known shapes*. These are missed, and the rule called OPEN and complete: a call in a method
  of a class that has a member of the name; a function-level `from demo import old` (only plain imports and those of the symbol itself
  are reported there, and the binding then hides itself); `import demo.sub.old`, `import demo; demo.old.f()` and `from demo import sub; sub.old.f()`, where the path is not of
  the three-part form; `from demo.old import old; old()`; an inner `global f`; re-exports;
  `h = o.f; h()` where `o` is bound as a module. These are reported without being calls of it: `import demo.old; demo.f()`, `o.old.f()` after an alias `o` of the
  module, a name that a later `def` or import at the top replaces, and `demo.old.f()` where a local definition hides `demo`.
* *Late outcome* (`hook_core.py:454`): a check that began earlier and ends later overwrites newer keys;
  the next message repeats evidence (`docs/USAGE.md:195` says it is not repeated). Hence `outdated`
  in `RepeatOnlyAfterOutdated`.
* *Draft unlinked by name* (`marking.py:250`): a newer draft is deleted.
* *A path that returns* (`repository.py:602`): if a file is changed and changed back between its two
  reads, the snapshot can be called complete without ever having been the tree. `Undo = TRUE` in
  `MCWindowReview.cfg` shows it; `SnapshotIsInstant` and `CompleteReportIsExact` assume that it does not happen.
* *Undecodable baseline* (`window_review.py:210`): callers are called added although a file of `HEAD` was not
  read, against `docs/USAGE.md:126`. Hence `base[c[1]] \in Sources` in `AddedIsNew`.
* *A base that moves* (`review.py:240-248`): `analyze_review` resolves the name of the base three times, although its docstring speaks of
  "a fixed base". Renames of one commit applied to findings of another can make two groups of the base look for one
  of the tree; it is then unverified, and a gate passes although it has grown over both. Hence `compared = base` in
  `GateMissesNothing`; the report names both commits.
* *A second copy* of a single finding in the same function (`review.py:95`) is unverified too, and passes a gate.
* *Source root `.`* is refused by the hook (`hook_core.py:513`) and accepted elsewhere (`docs/USAGE.md:93`).
* *Rename without `git rm`* (`mv`, then `git add` of the new name, also of an edited copy, as `--find-renames` pairs similar contents):
  Git reports the pair as R, the old path leaves the deleted ones (`repository.py:479-485`) though the index still has it, its `stat` fails, and the check is
  incomplete (`FILE_STAT_FAILED`). Hence `Renamable` in `DeletionsTolerated`.
* *Files of other languages in review* are parsed as Python (`analysis.py`), so a review of a repository
  with JavaScript, Java or C files is always incomplete.
* *Assisted review*: only `start_line` of an anchor is compared with the changed lines, and only in the first file
  that has an after anchor (`assisted_review.py:310-323`): a question may pass though none of its
  anchors touches a modified line, if that file is context. A question list may be empty. `HEAD` moving between
  `:78` and `:83` gives a packet that names one commit and quotes another (hence `still` for the
  baseline in `AnchoredIsExact`). An undecodable file of the baseline counts as absent.

## 7. Abstractions

* A content, digest, plan or packet is a model value or a record; hashes are injective.
* A file is read and written in one step: the code replaces files atomically and reads small ones at once.
* `config.toml` and the state of other Spellguard entries are one flag, `clash`. The preview of a plan reads its
  files in one step; `apply` derives it again with the lock, which is what the properties rest on.
* Identity checks of the installation (moved repository, other owner) and size limits are guards that
  end a command without a change, like `Abort`; they are not distinguished.
* `hooks.json` with an empty list for an event is the same as without it.
* `Review` and `AssistedReview` collect the tree in one step (`CollectUnstable`, or an arbitrary `stable`, for a collection that is
  found unstable). That a stable collection is one instant is `SnapshotIsInstant`, and with it its
  assumption (`~Undo`): no path changes and changes back within the collection. What is said of both modules "whatever changes in between" (`MCReview`, `MCAssist`, and the
  theorems about them) is said on this assumption; changes between the steps are not restricted.
* Facts of a source, callers in a source and Git's similarity of two sources are constants: the code that
  computes them is a function of one or two files without state.
* Unsupported suffixes are left out. Paths that are ignored do not exist.
* The fields and length limits of an assistant's response are one flag.
* Of a function in Python the parameters and the names its body binds count; lambdas, comprehensions, default arguments and decorators are
  left out of the scopes. A name in a dotted path is an atom.
* Only one review, check or validation runs at a time in its model: these commands write nothing
  that another reads, so what others do is in the edits.

## 8. Not modelled, and what is left

| part | why not |
|---|---|
| Proofs of liveness | out of reach of the proof system; the four properties are checked |
| Claude and Cursor adapters | translate payloads around `run_adapter`, which `HookNotify` models for any host |
| Detectors for Go, JavaScript, Java, C, C++ | sequential text analysis of one file: its result is a constant of `WindowReview` |
| Size limits of files, forms of single fields (`registry.py`), rendering, argument parsing, demo | formatting and guards that end a command without a change |
