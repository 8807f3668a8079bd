------------------------------ MODULE Snapshot ------------------------------
(***************************************************************************)
(* collect_working_tree (repository.py): the files of the working tree are *)
(* listed and read twice, one at a time, while an editor or an Agent keeps *)
(* changing them; what the two passes saw is compared.                     *)
(*                                                                         *)
(* A path is one with a supported suffix that Git does not ignore.  What a *)
(* file holds is a source, stands for its digest, and is read in one step. *)
(* The actions are a part of the check, WindowReview.                      *)
(***************************************************************************)
EXTENDS FiniteSets, Naturals

CONSTANTS
    Paths,
    Sources,      \* contents that decode
    Undecodable,  \* the contents that do not; inventory "failed:read"
    Link,         \* a symbolic link, a directory; inventory "excluded:..."
    Absent,       \* no such file; inventory "deleted:missing"
    Missing,      \* inventory "failed:stat"
    None,         \* not in the inventory
    Undo,         \* whether a path may return to a state it has left
    MaxPast       \* bound: states that the paths leave, all together

States == Sources \cup {Undecodable, Link, Absent}
Entries == States \cup {Missing, None}

ASSUME SnapshotAssumption ==
    /\ {Undecodable, Link, Absent, Missing, None} \cap Sources = {}
    /\ Undecodable \notin {Link, Absent, Missing, None}
    /\ Link \notin {Absent, Missing, None}
    /\ Absent \notin {Missing, None}
    /\ Missing # None
    /\ Undo \in BOOLEAN
    /\ MaxPast \in Nat

VARIABLES
    tree,         \* the working tree
    tracked,      \* the paths in the Git index
    past,         \* history: the states each path has left
    stage,        \* where the collection is
    ignored,      \* ignore_missing_paths
    todo,         \* paths of the current pass that are still to be read
    first,        \* inventory of the first pass
    second,       \* inventory of the second pass
    witness       \* history: the tree when it was listed for the second pass

treeVars == <<tree, tracked, past>>
collectVars == <<stage, ignored, todo, first, second, witness>>
snapshotVars == <<treeVars, collectVars>>

NothingRead == [p \in Paths |-> None]

SnapshotInit ==
    /\ tree \in [Paths -> States]
    /\ tracked \in SUBSET Paths
    /\ past = [p \in Paths |-> {}]
    /\ stage = "idle"
    /\ ignored = {}
    /\ todo = {}
    /\ first = NothingRead
    /\ second = NothingRead
    /\ witness = tree

-----------------------------------------------------------------------------
(* The collection                                                          *)

\* git ls-files --cached --others --exclude-standard.
Listed == tracked \cup {p \in Paths : tree[p] # Absent}

\* Mutated form: a path that was deleted is not looked at again.
EntryUnread(p) == IF p \in ignored THEN Absent
                  ELSE IF tree[p] = Absent THEN Missing ELSE tree[p]

\* What _collect_once notes of a path.
Entry(p) ==
    IF tree[p] = Absent /\ p \notin ignored THEN Missing ELSE tree[p]

\* The first listing.
List(missing) ==
    /\ stage = "idle"
    /\ stage' = "first"
    /\ ignored' = missing
    /\ todo' = Listed
    /\ UNCHANGED <<treeVars, first, second, witness>>

\* Mutated form: a path can be listed, and then read, twice.
NoteDuplicates(p, entry) ==
    /\ p \in todo
    /\ todo' \in {todo, todo \ {p}}
    /\ \/ /\ stage = "first"
          /\ first' = [first EXCEPT ![p] = entry]
          /\ UNCHANGED second
       \/ /\ stage = "second"
          /\ second' = [second EXCEPT ![p] = entry]
          /\ UNCHANGED first
    /\ UNCHANGED <<treeVars, stage, ignored, witness>>

\* One turn of the loop of _collect_once.
Note(p, entry) ==
    /\ p \in todo
    /\ todo' = todo \ {p}
    /\ \/ /\ stage = "first"
          /\ first' = [first EXCEPT ![p] = entry]
          /\ UNCHANGED second
       \/ /\ stage = "second"
          /\ second' = [second EXCEPT ![p] = entry]
          /\ UNCHANGED first
    /\ UNCHANGED <<treeVars, stage, ignored, witness>>

Read(p) == Note(p, Entry(p))

\* Permissions, an I/O error, or the file went between lstat and open.
ReadFails(p) == tree[p] # Absent /\ Note(p, Undecodable)

\* Mutated form: one pass, trusted.
RelistTrusting ==
    /\ stage = "first"
    /\ todo = {}
    /\ stage' = "second"
    /\ second' = first
    /\ witness' = tree
    /\ UNCHANGED <<treeVars, ignored, todo, first>>

\* The second listing.
Relist ==
    /\ stage = "first"
    /\ todo = {}
    /\ stage' = "second"
    /\ todo' = Listed
    /\ witness' = tree
    /\ UNCHANGED <<treeVars, ignored, first, second>>

Finish ==
    /\ stage = "second"
    /\ todo = {}
    /\ stage' = "collected"
    /\ UNCHANGED <<treeVars, ignored, todo, first, second, witness>>

\* Both listings and both inventories are the same.
Stable == first = second

\* The inventory whose files are analysed.
Inventory == IF Stable THEN second ELSE first

CoverageComplete ==
    /\ Stable
    /\ \A p \in Paths : Inventory[p] \notin {Undecodable, Missing}

CollectStep ==
    \/ \E p \in Paths : Read(p) \/ ReadFails(p)
    \/ Relist
    \/ Finish

-----------------------------------------------------------------------------
(* The environment                                                         *)

\* An editor, an Agent or Git changes, creates, replaces or deletes a file.
EditFile(p, state) ==
    /\ state # tree[p]
    /\ Undo \/ state \notin past[p]
    /\ Cardinality(UNION {{q} \X past[q] : q \in Paths}) < MaxPast
    /\ tree' = [tree EXCEPT ![p] = state]
    /\ past' = [past EXCEPT ![p] = @ \cup {tree[p]}]
    /\ UNCHANGED <<tracked, collectVars>>

\* git add of a file that is there, git rm --cached.
EditIndex(p) ==
    /\ \/ tree[p] # Absent /\ tracked' = tracked \cup {p}
       \/ tracked' = tracked \ {p}
    /\ tracked' # tracked
    /\ UNCHANGED <<tree, past, collectVars>>

EditPath ==
    \E p \in Paths : EditIndex(p) \/ \E state \in States : EditFile(p, state)

-----------------------------------------------------------------------------
(* Properties                                                              *)

\* The inventories have the entries that the passes can note, and a path that
\* is still to be read has none in the pass that runs.
SnapshotTypeOK ==
    /\ tree \in [Paths -> States]
    /\ tracked \subseteq Paths
    /\ past \in [Paths -> SUBSET States]
    /\ stage \in {"idle", "first", "second", "collected"}
    /\ ignored \subseteq Paths
    /\ todo \subseteq Paths
    /\ first \in [Paths -> Entries]
    /\ second \in [Paths -> Entries]
    /\ witness \in [Paths -> States]
    /\ stage \in {"idle", "collected"} => todo = {}
    /\ \A p \in todo : IF stage = "first" THEN first[p] = None
                       ELSE second[p] = None

\* "a change during collection becomes an explicit unstable-snapshot
\* diagnostic" (collect_working_tree): although its files are read one by one
\* under edits, a snapshot that is reported complete is the whole working tree
\* at one instant between the passes, no file left out.
SnapshotIsInstant ==
    stage = "collected" /\ CoverageComplete =>
        \A p \in Paths :
            /\ witness[p] # Undecodable
            /\ witness[p] \in Sources => Inventory[p] = witness[p]
            /\ Inventory[p] \in Sources => Inventory[p] = witness[p]

=============================================================================
