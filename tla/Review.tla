------------------------------- MODULE Review -------------------------------
(***************************************************************************)
(* The commands review and scan (cli.py, analyze_review in review.py) on a *)
(* working tree that changes while they run: the base commit, the deleted  *)
(* paths, the working tree, the renames and the exceptions are read one    *)
(* after the other, and the base is a name that may move in between.       *)
(*                                                                         *)
(* The day is read once, by the last step, so it does not pass here.       *)
(* debt reads and returns what scan does.  A stable collection is one step *)
(* here: it is the tree of one instant (SnapshotIsInstant), on its         *)
(* assumption that no path changes and changes back within the collection. *)
(* All detectors give severity medium, so --fail-on is medium or not there *)
(* (--fail-on high never fails).                                           *)
(***************************************************************************)
EXTENDS Findings

CONSTANTS
    Paths,
    Sources,      \* contents that decode
    Facts,        \* Facts[s]: the facts of s
    Broken,       \* sources that do not parse, of Python or taken for it
    Undecodable,  \* content that does not decode
    Absent,       \* no such file
    Missing,      \* inventory "failed:stat"
    Similar,      \* of ChangeSet
    Commits,      \* trees that the base may name
    ExceptionSets,\* contents of .spellguard-exceptions.json
    Invalid,      \* a content that is not one
    MaxDay,       \* bound: the days
    MaxDisturbed  \* bound: changes and failures during one command

States == Sources \cup {Undecodable, Absent}

ASSUME ReviewAssumption ==
    /\ Broken \subseteq Sources
    /\ None \notin Paths
    /\ Absent \notin Sources
    /\ DOMAIN Facts = Sources
    /\ Commits \subseteq [Paths -> States]
    /\ Invalid \notin ExceptionSets
    /\ \A entries \in ExceptionSets : \A e \in entries : e.expires \in Nat
    /\ MaxDay \in Nat
    /\ MaxDisturbed \in Nat

\* No finding is taken for a missing one, and no group for a single finding.
ASSUME NoneIsNoFinding ==
    \A s \in Sources, p \in Paths :
        /\ None \notin DetectFindings(Facts[s], p)
        /\ \A f \in Groups(Facts[s], p) :
              f.members \in [Symbols -> Nat] /\ f.members # None

VARIABLES
    tree,         \* the working tree
    tracked,      \* the paths in the Git index
    ref,          \* the commit that the base names
    exceptions,   \* the exceptions file
    today,
    command,      \* "review", "gate" (review --fail-on medium), "scan"
    phase,        \* where it is
    base,         \* the commit that was read
    deleted,      \* ignore_missing_paths
    inventory,    \* the working tree that was collected
    stable,       \* both passes of the collection saw the same
    compared,     \* base_commit of the second change set
    renames,      \* renames of the second change set
    report,       \* what is returned
    disturbed     \* history: how often something was changed, or failed

worldVars == <<tree, tracked, ref, exceptions, today>>
readVars == <<base, deleted, inventory, stable, compared, renames>>
vars == <<worldVars, command, phase, readVars, report, disturbed>>

C == INSTANCE ChangeSet

Phases == {"base", "changes", "collect", "renames", "govern", "done"}
NoRenames == [p \in {} |-> p]

Init ==
    /\ tree \in [Paths -> States]
    /\ tracked \in SUBSET Paths
    /\ ref \in Commits
    /\ exceptions \in ExceptionSets \cup {Invalid}
    /\ today \in 0 .. MaxDay
    /\ command \in {"review", "gate", "scan"}
    /\ phase = IF command = "scan" THEN "collect" ELSE "base"
    /\ base = None
    /\ deleted = {}
    /\ inventory = None
    /\ stable = FALSE
    /\ compared = None
    /\ renames = NoRenames
    /\ report = None
    /\ disturbed = 0

Disturb == disturbed < MaxDisturbed /\ disturbed' = disturbed + 1

-----------------------------------------------------------------------------
(* One side of a review                                                    *)

\* parse_snapshot: the files of an inventory or a commit that are analysed.
Parsed(side) == {p \in Paths : side[p] \in Sources \ Broken}

AllFindings(side) ==
    UNION {DetectFindings(Facts[side[p]], p) : p \in Parsed(side)}

\* Nothing was left unread or unparsed.
Complete(side) ==
    \A p \in Paths : side[p] \notin Broken \cup {Undecodable, Missing}

Eligible(side) == {p \in Paths : side[p] \in Sources \cup {Undecodable, Missing}}

-----------------------------------------------------------------------------
(* analyze_review, one action for each thing it reads                      *)

\* collect_commit.
CollectBase ==
    /\ phase = "base"
    /\ base' = ref
    /\ phase' = "changes"
    /\ UNCHANGED <<worldVars, command, deleted, inventory, stable, compared,
                   renames, report, disturbed>>

\* collect_change_set, for its deleted paths; it resolves the base again.
FindDeleted ==
    /\ phase = "changes"
    /\ \E changes \in C!ChangeSets(ref, tracked, tree) :
          deleted' = changes.deleted
    /\ phase' = "collect"
    /\ UNCHANGED <<worldVars, command, base, inventory, stable, compared,
                   renames, report, disturbed>>

\* What collect_working_tree notes of a path.
Noted(p) ==
    IF tree[p] = Absent /\ p \in tracked \ deleted THEN Missing ELSE tree[p]

\* Mutated form: scan goes on as review does.
CollectTreeForReview ==
    /\ phase = "collect"
    /\ inventory' = [p \in Paths |-> Noted(p)]
    /\ phase' = "renames"

CollectTree ==
    /\ phase = "collect"
    /\ inventory' = [p \in Paths |-> Noted(p)]
    /\ phase' = IF command = "scan" THEN "govern" ELSE "renames"

\* collect_working_tree.
Collect ==
    /\ CollectTree
    /\ stable' = TRUE
    /\ UNCHANGED <<worldVars, command, base, deleted, compared, renames,
                   report, disturbed>>

\* A file changes between the two passes.
CollectUnstable ==
    /\ CollectTree
    /\ stable' = FALSE
    /\ \E p \in Paths, s \in States :
          s # tree[p] /\ tree' = [tree EXCEPT ![p] = s]
    /\ Disturb
    /\ UNCHANGED <<tracked, ref, exceptions, today, command, base, deleted,
                   compared, renames, report>>

\* collect_change_set again, for its renames; it resolves the base again.
FindRenames ==
    /\ phase = "renames"
    /\ compared' = ref
    /\ \E changes \in C!ChangeSets(ref, tracked, tree) :
          renames' = changes.renames
    /\ phase' = "govern"
    /\ UNCHANGED <<worldVars, command, base, deleted, inventory, stable,
                   report, disturbed>>

Current == AllFindings(inventory)

ReviewComplete ==
    /\ Complete(base)
    /\ stable /\ Complete(inventory)
    /\ Eligible(base) \cup Eligible(inventory) # {}

\* _mark_no_supported_files.
ScanComplete == stable /\ Complete(inventory) /\ Eligible(inventory) # {}

Delta ==
    LET delta == CompareFindings(AllFindings(base), Current, renames)
    IN  IF ReviewComplete THEN delta ELSE IncompleteDelta(delta)

StatusOf(f) == Status(f, Current, exceptions, today)

\* The exit code of _review and _scan.
Exit ==
    IF command = "scan" THEN IF ScanComplete THEN 0 ELSE 2
    ELSE IF ~ReviewComplete THEN 2
    ELSE IF /\ command = "gate"
            /\ \E e \in Delta.introduced : StatusOf(e.after) # "accepted"
         THEN 1
    ELSE 0

Failure == [exit |-> 2, delta |-> None, accepted |-> {}]

\* load_and_associate, and the report.
Govern ==
    /\ phase = "govern"
    /\ phase' = "done"
    /\ report' =
          IF exceptions = Invalid THEN Failure
          ELSE [exit |-> Exit,
                delta |-> IF command = "scan" THEN None ELSE Delta,
                accepted |-> {f \in Current : StatusOf(f) = "accepted"}]
    /\ UNCHANGED <<worldVars, command, readVars, disturbed>>

\* A Git command fails, or the working tree cannot be listed.
GitFails ==
    /\ phase \in {"base", "changes", "collect", "renames"}
    /\ phase' = "done"
    /\ report' = Failure
    /\ Disturb
    /\ UNCHANGED <<worldVars, command, readVars>>

-----------------------------------------------------------------------------
(* The environment and the specification                                   *)

\* Files and index change, the base is moved, the exceptions are edited.
Change ==
    /\ phase # "done"
    /\ Disturb
    /\ \/ \E p \in Paths, s \in States :
             /\ s # tree[p]
             /\ tree' = [tree EXCEPT ![p] = s]
             /\ UNCHANGED <<tracked, ref, exceptions>>
       \/ \E p \in Paths :
             /\ tracked' = IF p \in tracked THEN tracked \ {p}
                           ELSE tracked \cup {p}
             /\ p \in tracked' => tree[p] # Absent
             /\ UNCHANGED <<tree, ref, exceptions>>
       \/ /\ ref' \in Commits \ {ref}
          /\ UNCHANGED <<tree, tracked, exceptions>>
       \/ /\ exceptions' \in (ExceptionSets \cup {Invalid}) \ {exceptions}
          /\ UNCHANGED <<tree, tracked, ref>>
    /\ UNCHANGED <<today, command, phase, readVars, report>>

Next ==
    \/ CollectBase \/ FindDeleted
    \/ Collect \/ CollectUnstable
    \/ FindRenames \/ Govern
    \/ GitFails
    \/ Change

Spec == Init /\ [][Next]_vars

-----------------------------------------------------------------------------
(* Properties                                                              *)

\* Everything that is read has the values the next step relies on.
TypeOK ==
    /\ tree \in [Paths -> States]
    /\ tracked \subseteq Paths
    /\ ref \in Commits
    /\ exceptions \in ExceptionSets \cup {Invalid}
    /\ today \in 0 .. MaxDay
    /\ phase \in Phases
    /\ base \in Commits \cup {None}
    /\ deleted \subseteq Paths
    /\ inventory \in [Paths -> States \cup {Missing}] \cup {None}
    /\ stable \in BOOLEAN
    /\ compared \in Commits \cup {None}
    /\ DOMAIN renames \subseteq Paths
    /\ \A p \in DOMAIN renames : renames[p] \in Paths
    /\ phase \in {"renames", "govern"} =>
          inventory \in [Paths -> States \cup {Missing}]
    /\ IF command = "scan" THEN phase \in {"collect", "govern", "done"}
       ELSE phase \notin {"base", "done"} => base \in Commits
    /\ IF phase = "done" THEN report.exit \in 0 .. 2 ELSE report = None

Reviewed == phase = "done" /\ report.delta # None

\* The comparison tells of every finding of either side exactly once, also
\* when an incomplete analysis takes some of it back.
DeltaIsPartition ==
    Reviewed => EachFindingOnce(report.delta, AllFindings(base), Current)

PathAfter(b) ==
    IF b.path \in DOMAIN renames THEN renames[b.path] ELSE b.path

\* The findings of the base that c may be, with renamed files followed.  Git
\* can tell of a rename although the old file is still there, untracked.
Counterparts(c) ==
    {b \in AllFindings(base) : \/ Fingerprint(b) = Fingerprint(c)
                               \/ /\ b.structure = c.structure
                                  /\ PathAfter(b) = c.path}

\* An entry of the exceptions file is for this one finding, until its day.
InForce(c) ==
    /\ \E e \in exceptions : /\ e.fingerprint = Fingerprint(c)
                             /\ e.rule = Rule(c)
                             /\ today < e.expires
    /\ \A d \in Current : Fingerprint(d) = Fingerprint(c) => d = c

\* A review that passes under --fail-on has looked at everything, and what it
\* found was there in the base, or an acceptance of it is in force; a group of
\* repeated chains has no function more than one of those in the base, unless
\* it is accepted (exit code 0 of _review).  The base it read must be the one
\* it knows the renames of: if its name was moved in between, a group of one
\* commit can meet one of another and neither be told from the other.
GateMissesNothing ==
    Reviewed /\ compared = base /\ command = "gate" /\ report.exit = 0 =>
        \A c \in Current :
            InForce(c) \/ \E b \in Counterparts(c) : ~Expanded(b, c)

StillThere(b) == \E d \in Current : Fingerprint(d) = Fingerprint(b)

\* What a review introduces is new, also when HEAD or files moved under it: a
\* finding of the base that is like it, in its file or in one that was renamed
\* to it, is the one it is compared with, and has lacked a function, or it is
\* still where it was (compare_findings).
IntroducedIsNew ==
    Reviewed => \A e \in report.delta.introduced :
                    \A b \in Counterparts(e.after) :
                        \/ b = e.before /\ Expanded(b, e.after)
                        \/ StillThere(b)

=============================================================================
