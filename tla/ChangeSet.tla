------------------------------ MODULE ChangeSet ------------------------------
(***************************************************************************)
(* collect_change_set (repository.py): what Git says has changed between a *)
(* commit and the working tree.  A commit and a tree map every path to     *)
(* what is there, or to Absent; the index is known by the paths in it.     *)
(***************************************************************************)
CONSTANTS
    Paths,
    Absent,
    Similar       \* pairs of contents that --find-renames takes for one file

\* git ls-files --cached --others --exclude-standard.
Listed(tracked, tree) == tracked \cup {p \in Paths : tree[p] # Absent}

Committed(commit) == {p \in Paths : commit[p] # Absent}

\* git diff sees files through the index: status D, A, and M or T.
Removed(commit, tracked, tree) ==
    {p \in Committed(commit) : p \notin tracked \/ tree[p] = Absent}

Created(commit, tracked, tree) ==
    {p \in tracked : tree[p] # Absent /\ commit[p] = Absent}

Modified(commit, tracked, tree) ==
    {p \in tracked \cap Committed(commit) : tree[p] \notin {Absent, commit[p]}}

\* Status R: some of the removed files, each with a created one that it is
\* similar to.  Which pairs it makes is up to Git.
Renamings(commit, tracked, tree) ==
    LET removed == Removed(commit, tracked, tree)
        created == Created(commit, tracked, tree)
    IN  {f \in UNION {[old -> created] : old \in SUBSET removed} :
            /\ \A p \in DOMAIN f : <<commit[p], tree[f[p]]>> \in Similar
            /\ \A p, q \in DOMAIN f : f[p] = f[q] => p = q}

\* The listing and the diff together, with the renamed files taken out.
ChangeSets(commit, tracked, tree) ==
    LET listed == Listed(tracked, tree)
        removed == Removed(commit, tracked, tree)
        created == Created(commit, tracked, tree)
    IN  {[renames |-> f,
          modified |-> Modified(commit, tracked, tree),
          deleted |-> ((Committed(commit) \ listed) \cup removed) \ DOMAIN f,
          added |-> ((listed \ Committed(commit)) \cup created)
                       \ {f[p] : p \in DOMAIN f}] :
            f \in Renamings(commit, tracked, tree)}

=============================================================================
