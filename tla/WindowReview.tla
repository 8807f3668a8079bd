---------------------------- MODULE WindowReview ----------------------------
(***************************************************************************)
(* The check (review_windows in window_review.py): the registry is read,   *)
(* HEAD and the change set are taken from Git, the working tree is         *)
(* collected (Snapshot), the registry is read again, and every rule is     *)
(* evaluated on both sides.  Files, index, registry and HEAD may all       *)
(* change at any moment in between.                                        *)
(*                                                                         *)
(* What a detector finds in a source is given: the rules whose protected   *)
(* function it defines, the functions in it that call the protected one,   *)
(* and the rules it leaves in doubt.  The registry is known by whether its *)
(* digest is the expected one.                                             *)
(***************************************************************************)
EXTENDS Snapshot

CONSTANTS
    Rules,        \* ACTIVE rules of the registry with the expected digest
    Home,         \* Home[r]: the path of its protected function
    Functions,    \* names of functions
    Defines,      \* Defines[s]: rules whose function s defines once
    Callers,      \* Callers[s][r]: functions in s that call the one of r
    Unclear,      \* Unclear[s]: rules that s leaves in doubt
    Similar,      \* of ChangeSet
    Commits,      \* trees of the commits that HEAD may be at
    MaxDisturbed  \* bound: changes and failures during one check

ASSUME ReviewAssumption ==
    /\ Home \in [Rules -> Paths]
    /\ Defines \in [Sources -> SUBSET Rules]
    /\ Callers \in [Sources -> [Rules -> SUBSET Functions]]
    /\ Unclear \in [Sources -> SUBSET Rules]
    /\ Commits \subseteq [Paths -> States]
    /\ None \notin Commits
    /\ MaxDisturbed \in Nat

VARIABLES
    head,         \* the commit that HEAD is at, None when there is none
    trusted,      \* the registry file has the expected digest
    phase,        \* where the check is
    base,         \* the commit it has read
    against,      \* the commit that the change set is made against
    gone,         \* paths it has found deleted so far
    report,       \* what it returns
    vouched,      \* history: the registry had the expected digest at some
                  \* time after the tree was listed for the second pass
    disturbed,    \* history: how often something was changed, or failed
    meddled       \* history: it was a file or the index, or Git or a read

reviewVars == <<phase, base, against, gone, report>>
historyVars == <<vouched, disturbed, meddled>>
vars == <<snapshotVars, head, trusted, reviewVars, historyVars>>

C == INSTANCE ChangeSet

Phases == {"begin", "base", "list", "diff", "collect", "verify", "done"}

Init ==
    /\ SnapshotInit
    /\ head \in Commits \cup {None}
    /\ trusted \in BOOLEAN
    /\ phase = "begin"
    /\ base = None
    /\ against = None
    /\ gone = {}
    /\ report = None
    /\ vouched = FALSE
    /\ disturbed = 0
    /\ meddled = FALSE

Disturb == disturbed < MaxDisturbed /\ disturbed' = disturbed + 1

Meddle == Disturb /\ meddled' = TRUE

-----------------------------------------------------------------------------
(* Evaluation of a rule                                                    *)

\* The files of an inventory or a commit.
Files(inventory) == {p \in Paths : inventory[p] \in Sources}

\* _locate_symbol.
Located(r, inventory) ==
    /\ inventory[Home[r]] \in Sources
    /\ r \in Defines[inventory[Home[r]]]

\* check_window: without the protected function nothing is said of callers,
\* and the protected file itself is not searched for them.
Consumers(r, inventory) ==
    IF ~Located(r, inventory) THEN {}
    ELSE UNION {{p} \X Callers[inventory[p]][r] :
                   p \in Files(inventory) \ {Home[r]}}

InDoubt(r, inventory) ==
    \/ ~Located(r, inventory)
    \/ \E p \in Files(inventory) \ {Home[r]} : r \in Unclear[inventory[p]]

Status(r, inventory) ==
    IF Consumers(r, inventory) # {} THEN "VIOLATED"
    ELSE IF InDoubt(r, inventory) THEN "UNVERIFIED"
    ELSE "OPEN"

\* _added_consumers, of a commit in which the rule could be evaluated.
Added(r, inventory, commit) ==
    IF commit = None THEN None
    ELSE IF InDoubt(r, commit) THEN None
    ELSE Consumers(r, inventory) \ Consumers(r, commit)

Result(r, inventory, commit) ==
    [status |-> Status(r, inventory),
     consumers |-> Consumers(r, inventory),
     added |-> Added(r, inventory, commit)]

\* collect_commit: every file of the commit decodes.
BaseComplete(commit) ==
    commit # None /\ \A p \in Paths : commit[p] # Undecodable

\* The exit code for what was read of either side.
ExitCode(inventory, commit, covered) ==
    IF \/ ~covered
       \/ ~BaseComplete(commit)
       \/ \E r \in Rules : \/ InDoubt(r, inventory)
                          \/ Added(r, inventory, commit) = None
    THEN 2
    ELSE IF \E r \in Rules : Status(r, inventory) = "VIOLATED" THEN 1
    ELSE 0

\* _registry_failure.
Failure == [exit |-> 2, results |-> None]

-----------------------------------------------------------------------------
(* review_windows, one action for each thing it reads                      *)

\* load_registry_twice, the first time.
ReadRegistry ==
    /\ phase = "begin"
    /\ IF trusted
       THEN phase' = "base" /\ UNCHANGED report
       ELSE phase' = "done" /\ report' = Failure
    /\ UNCHANGED <<snapshotVars, head, trusted, base, against, gone,
                   historyVars>>

\* collect_commit; without a HEAD there is no change set either.
ReadHead ==
    /\ phase = "base"
    /\ base' = head
    /\ phase' = IF head = None THEN "collect" ELSE "list"
    /\ UNCHANGED <<snapshotVars, head, trusted, against, gone, report,
                   historyVars>>

\* collect_change_set resolves HEAD for itself and lists the files: those of
\* the commit that are neither in the index nor there are deleted.
ListChanges ==
    /\ phase = "list"
    /\ against' = head
    /\ gone' = C!Committed(head) \ Listed
    /\ phase' = "diff"
    /\ UNCHANGED <<snapshotVars, head, trusted, base, report,
                   historyVars>>

\* git diff --find-renames: files of the commit that are not in the index, or
\* not there, and their pairings with new files of similar content.
Deleted == C!Removed(against, tracked, tree)
Renamings == C!Renamings(against, tracked, tree)

\* Mutated form: git diff is given the name HEAD, which may have moved since
\* the files of the commit were listed.
DiffChangesOfHead ==
    /\ phase = "diff"
    /\ \E renames \in C!Renamings(head, tracked, tree) :
          gone' = (gone \cup C!Removed(head, tracked, tree)) \ DOMAIN renames
    /\ phase' = "collect"
    /\ UNCHANGED <<snapshotVars, head, trusted, base, against, report,
                   historyVars>>

\* The renamed files are taken out of the deleted ones.
DiffChanges ==
    /\ phase = "diff"
    /\ \E renames \in Renamings :
          gone' = (gone \cup Deleted) \ DOMAIN renames
    /\ phase' = "collect"
    /\ UNCHANGED <<snapshotVars, head, trusted, base, against, report,
                   historyVars>>

\* Git fails: there is no baseline, or no path is known to be deleted.
GitFails ==
    /\ phase \in {"base", "list", "diff"}
    /\ gone' = {}
    /\ phase' = "collect"
    /\ Meddle
    /\ UNCHANGED <<snapshotVars, head, trusted, base, against, report,
                   vouched>>

\* collect_working_tree; a file that cannot be read is a disturbance.
Collect ==
    /\ phase = "collect"
    /\ List(gone) \/ CollectStep
    /\ phase' = IF stage' = "collected" THEN "verify" ELSE phase
    /\ vouched' = IF stage = "first" /\ stage' = "second"
                  THEN trusted ELSE vouched
    /\ IF \E p \in todo \ todo' : ReadFails(p)
       THEN Meddle
       ELSE UNCHANGED <<disturbed, meddled>>
    /\ UNCHANGED <<head, trusted, base, against, gone, report>>

\* The files cannot be listed.
CollectFails ==
    /\ phase = "collect"
    /\ phase' = "done"
    /\ report' = Failure
    /\ Meddle
    /\ UNCHANGED <<snapshotVars, head, trusted, base, against, gone,
                   vouched>>

\* Mutated form: the registry read before the collection is used.
VerifyNothing ==
    /\ phase = "verify"
    /\ phase' = "done"
    /\ report' = [exit |-> ExitCode(Inventory, base, CoverageComplete),
                  results |-> [r \in Rules |-> Result(r, Inventory, base)]]
    /\ UNCHANGED <<snapshotVars, head, trusted, base, against, gone,
                   historyVars>>

\* Mutated form: a baseline that could not be evaluated has no consumers.
VerifyUntrustedBase ==
    /\ phase = "verify"
    /\ phase' = "done"
    /\ report' =
          IF trusted
          THEN [exit |-> ExitCode(Inventory, base, CoverageComplete),
                results |->
                  [r \in Rules |->
                     [Result(r, Inventory, base) EXCEPT
                        !.added = Consumers(r, Inventory)
                                    \ (IF base = None THEN {}
                                       ELSE Consumers(r, base))]]]
          ELSE Failure
    /\ UNCHANGED <<snapshotVars, head, trusted, base, against, gone,
                   historyVars>>

\* load_registry_twice again, and the evaluation of every rule.
Verify ==
    /\ phase = "verify"
    /\ phase' = "done"
    /\ report' =
          IF trusted
          THEN [exit |-> ExitCode(Inventory, base, CoverageComplete),
                results |-> [r \in Rules |-> Result(r, Inventory, base)]]
          ELSE Failure
    /\ UNCHANGED <<snapshotVars, head, trusted, base, against, gone,
                   historyVars>>

-----------------------------------------------------------------------------
(* The environment and the specification                                   *)

\* Files and index change under the check.
EditTree ==
    /\ phase # "done"
    /\ EditPath
    /\ Meddle
    /\ UNCHANGED <<head, trusted, reviewVars, vouched>>

\* The registry is changed, and may be changed back.
EditRegistry ==
    /\ phase # "done"
    /\ trusted' = ~trusted
    /\ vouched' = \/ vouched
                  \/ trusted' /\ stage \in {"second", "collected"}
    /\ Disturb
    /\ UNCHANGED <<snapshotVars, head, reviewVars, meddled>>

\* A commit or a reset.
MoveHead ==
    /\ phase # "done"
    /\ head' \in Commits \ {head}
    /\ Disturb
    /\ UNCHANGED <<snapshotVars, trusted, reviewVars, vouched, meddled>>

Next ==
    \/ ReadRegistry \/ ReadHead
    \/ ListChanges \/ DiffChanges \/ GitFails
    \/ Collect \/ CollectFails
    \/ Verify
    \/ EditTree \/ EditRegistry \/ MoveHead

Spec == Init /\ [][Next]_vars

-----------------------------------------------------------------------------
(* Properties                                                              *)

Results == [status : {"OPEN", "VIOLATED", "UNVERIFIED"},
            consumers : SUBSET (Paths \X Functions),
            added : (SUBSET (Paths \X Functions)) \cup {None}]

\* The report has its schema, and is there exactly when the check is done.
TypeOK ==
    /\ SnapshotTypeOK
    /\ head \in Commits \cup {None}
    /\ trusted \in BOOLEAN
    /\ phase \in Phases
    /\ base \in Commits \cup {None}
    /\ against \in Commits \cup {None}
    /\ gone \subseteq Paths
    /\ phase # "done" => report = None
    /\ phase = "done" =>
          /\ report.exit \in 0 .. 2
          /\ report.results \in [Rules -> Results] \cup {None}
    /\ vouched \in BOOLEAN
    /\ disturbed \in 0 .. MaxDisturbed
    /\ meddled \in BOOLEAN

\* A report that claims to be complete (exit 0 or 1), although registry, HEAD,
\* change set and files were read one after the other under edits, is the
\* evaluation of the whole tree of one instant against the commit it names.
CompleteReportIsExact ==
    phase = "done" /\ report.exit \in {0, 1} =>
        /\ base # None
        /\ report.results = [r \in Rules |-> Result(r, witness, base)]
        /\ report.exit = 0 <=>
              \A r \in Rules : Status(r, witness) = "OPEN"

\* "compares digests so a self-modified registry cannot become a pass": rules
\* that were changed before the tree was read, and stay changed, are never
\* reported on.
SelfModifiedNeverPasses ==
    phase = "done" /\ report.results # None => vouched

\* A consumer is called added only if the commit it is compared with did not
\* have it, also in a report that is not complete.
AddedIsNew ==
    phase = "done" /\ report.results # None =>
        \A r \in Rules :
            report.results[r].added # None =>
                /\ base # None
                /\ \A c \in report.results[r].added :
                      base[c[1]] \in Sources =>
                          c[2] \notin Callers[base[c[1]]][r]

\* Files of the commit that Git may take for renamed.
Renamable == UNION {DOMAIN renames : renames \in Renamings}

\* Deleting tracked files is ordinary work: unless files, index or Git itself
\* interfere, it does not make the coverage incomplete, whether the index
\* knows of it or not, and although HEAD may move between the baseline, the
\* listing and the diff.  Excepted is a deletion that Git may take for half of
\* a rename: the old path of one that the index still has is not tolerated.
DeletionsTolerated ==
    phase = "done" /\ report.results # None /\ ~meddled /\ base # None
            /\ (\A p \in Paths :
                  /\ tree[p] # Undecodable
                  /\ p \in tracked /\ tree[p] = Absent =>
                        against[p] # Absent /\ p \notin Renamable) =>
        CoverageComplete

=============================================================================
