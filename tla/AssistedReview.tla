--------------------------- MODULE AssistedReview ---------------------------
(***************************************************************************)
(* assist prepare and assist validate (assisted_review.py): a packet of    *)
(* evidence is built of HEAD and the working tree (review_packet.py), an   *)
(* assistant answers it with questions that quote it, and validate builds  *)
(* the packet again and holds the questions against that one.  Files,      *)
(* index, HEAD and registry may change at any time, also within a command, *)
(* but not within a stable collection of the tree, which is one step: it   *)
(* is the tree of one instant (SnapshotIsInstant of WindowReview) if no    *)
(* path changes and changes back between its two passes.                   *)
(*                                                                         *)
(* A path is its place in the order of the Go files; a content is its      *)
(* lines, and a line has length 1.  The id of a packet is a hash of it:    *)
(* here the packet stands for its id.                                      *)
(***************************************************************************)
EXTENDS Naturals, FiniteSets, Sequences

CONSTANTS
    LastPath,       \* there are so many Go files
    Dir,            \* Dir[p]: the directory of p
    Contents,       \* sequences of lines
    Undecodable,    \* content that does not decode
    Absent,         \* no such file
    Missing,        \* inventory "failed:stat"
    None,
    Marks,          \* Marks[<<b, c>>]: what a diff from b to c inserts
    Similar,        \* of ChangeSet
    Commits,        \* trees that HEAD may name
    Registries,     \* contents of rules.json, each standing for its digest
    Responses,      \* sets of questions that the assistant may answer with
    MaxFiles,       \* MAX_FILES
    MaxText,        \* MAX_TEXT_BYTES
    MaxQuestions,
    MaxAnchors,
    MaxAnchorLines,
    MaxChanges      \* bound: changes by others

Paths == 1 .. LastPath

States == Contents \cup {Undecodable, Absent}

ASSUME AssistedReviewAssumption ==
    /\ LastPath \in Nat
    /\ DOMAIN Dir = Paths
    /\ \A c \in Contents : c \in Seq({c[i] : i \in DOMAIN c})
    /\ {Undecodable, Absent, Missing, None} \cap Contents = {}
    /\ Marks \in [Contents \X Contents -> SUBSET Nat]
    /\ Commits \subseteq [Paths -> States]
    /\ {MaxFiles, MaxText, MaxQuestions, MaxAnchors, MaxAnchorLines,
        MaxChanges} \subseteq Nat

VARIABLES
    tree,         \* the working tree
    tracked,      \* the paths in the Git index
    head,         \* the commit that HEAD names
    registry,
    expected,     \* --registry-sha256, or None
    command,      \* "prepare", then "validate"
    phase,        \* what it reads next
    base,         \* the commit that was collected
    inventory,    \* the working tree that was collected
    stable,       \* both passes of the collection saw the same
    changes,      \* the change set that was collected, and its commit
    packet,       \* packet.json
    report,       \* of validate
    during,       \* history: the trees there were since the command began
    still,        \* history: nothing changed since it began
    changed       \* history: how many changes there were

worldVars == <<tree, tracked, head, registry>>
readVars == <<base, inventory, stable, changes>>
historyVars == <<during, still, changed>>
vars == <<worldVars, expected, command, phase, readVars, packet, report,
          historyVars>>

C == INSTANCE ChangeSet

Phases == {"base", "tree", "changes", "build", "done"}

Init ==
    /\ tree \in [Paths -> States]
    /\ tracked \in SUBSET Paths
    /\ head \in Commits
    /\ registry \in Registries
    /\ expected \in Registries \cup {None}
    /\ command = "prepare"
    /\ phase = "base"
    /\ base = None
    /\ inventory = None
    /\ stable = FALSE
    /\ changes = None
    /\ packet = None
    /\ report = None
    /\ during = {tree}
    /\ still = TRUE
    /\ changed = 0

-----------------------------------------------------------------------------
(* build_review_packet                                                     *)

\* The files of a snapshot are those that were decoded.
Text(side, p) == IF side[p] \in Contents THEN side[p] ELSE None

Size(text) == IF text = None THEN 0 ELSE Len(text)

Touched(set) ==
    set.modified \cup set.added \cup set.deleted \cup DOMAIN set.renames
        \cup {set.renames[p] : p \in DOMAIN set.renames}

\* The unchanged files next to a changed one.
Context(set, side) ==
    {p \in Paths \ Touched(set) :
        Text(side, p) # None /\ \E t \in Touched(set) : Dir[t] = Dir[p]}

ChangedAfterLines(before, after) ==
    CASE after = None -> {}
      [] before = None -> 1 .. Len(after)
      [] OTHER -> Marks[<<before, after>>]

FileEntry(p, before, after) ==
    [path |-> p, before |-> before, after |-> after,
     changedAfter |-> ChangedAfterLines(before, after)]

\* Mutated form: what does not fit is dropped without a word.
SelectSilently(chosen, p) ==
    LET before == Text(base, p)
        after == Text(inventory, p)
        size == Size(before) + Size(after)
    IN  IF \/ Len(chosen.files) >= MaxFiles
           \/ chosen.text + size > MaxText
           \/ before = None /\ after = None
        THEN chosen
        ELSE [chosen EXCEPT !.files = Append(@, FileEntry(p, before, after)),
                            !.text = @ + size]

\* One candidate more, if the budgets allow.
Select(chosen, p) ==
    LET before == Text(base, p)
        after == Text(inventory, p)
        size == Size(before) + Size(after)
    IN  IF \/ Len(chosen.files) >= MaxFiles
           \/ chosen.text + size > MaxText
           \/ before = None /\ after = None
        THEN [chosen EXCEPT !.omitted = @ + 1]
        ELSE [chosen EXCEPT !.files = Append(@, FileEntry(p, before, after)),
                            !.text = @ + size]

\* The candidates in their order: the paths that were touched, then those of
\* the context.
LastTurn == 2 * LastPath

PathAt(n) == IF n <= LastPath THEN n ELSE n - LastPath

Candidate(n) ==
    PathAt(n) \in IF n <= LastPath THEN Touched(changes.set)
                  ELSE Context(changes.set, inventory)

ChosenUpTo[n \in 0 .. LastTurn] ==
    IF n = 0 THEN [files |-> <<>>, text |-> 0, omitted |-> 0]
    ELSE IF Candidate(n) THEN Select(ChosenUpTo[n - 1], PathAt(n))
    ELSE ChosenUpTo[n - 1]

Chosen == ChosenUpTo[LastTurn]

Packet ==
    [base_commit |-> changes.base_commit,
     snapshot |-> [p \in Paths |-> Text(inventory, p)],
     registry |-> IF expected = None THEN None ELSE registry,
     files |-> Chosen.files,
     omitted |-> Chosen.omitted]

CollectionComplete ==
    stable /\ \A p \in Paths : inventory[p] \notin {Undecodable, Missing}

PacketComplete == CollectionComplete /\ Packet.omitted = 0

\* load_registry with the expected digest.
RegistryOk == expected = None \/ registry = expected

-----------------------------------------------------------------------------
(* prepare_assisted_review, one action for each thing it reads             *)

CollectBase ==
    /\ phase = "base"
    /\ base' = head
    /\ phase' = "tree"
    /\ UNCHANGED <<worldVars, expected, command, inventory, stable, changes,
                   packet, report, historyVars>>

\* collect_working_tree, where a tracked file that is not there is an error.
Noted(p) == IF tree[p] = Absent /\ p \in tracked THEN Missing ELSE tree[p]

Collect ==
    /\ phase = "tree"
    /\ inventory' = [p \in Paths |-> Noted(p)]
    /\ stable' \in BOOLEAN
    /\ phase' = "changes"
    /\ UNCHANGED <<worldVars, expected, command, base, changes, packet,
                   report, historyVars>>

\* collect_change_set resolves HEAD again.
ListChanges ==
    /\ phase = "changes"
    /\ \E set \in C!ChangeSets(head, tracked, tree) :
          changes' = [base_commit |-> head, set |-> set]
    /\ phase' = "build"
    /\ UNCHANGED <<worldVars, expected, command, base, inventory, stable,
                   packet, report, historyVars>>

Forget ==
    /\ base' = None
    /\ inventory' = None
    /\ stable' = FALSE
    /\ changes' = None

\* Mutated form: a packet that is not complete is not written.
PrepareCompleteOnly ==
    /\ phase = "build"
    /\ command = "prepare"
    /\ RegistryOk
    /\ packet' = IF PacketComplete THEN Packet ELSE None
    /\ command' = "validate"
    /\ phase' = "base"
    /\ Forget
    /\ during' = {tree}
    /\ still' = TRUE
    /\ UNCHANGED <<worldVars, expected, report, changed>>

\* The packet is written, complete or not; the assistant may answer it.
Prepare ==
    /\ phase = "build"
    /\ command = "prepare"
    /\ RegistryOk
    /\ packet' = Packet
    /\ command' = "validate"
    /\ phase' = "base"
    /\ Forget
    /\ during' = {tree}
    /\ still' = TRUE
    /\ UNCHANGED <<worldVars, expected, report, changed>>

Rejected(status) == [exit |-> 2, status |-> status, questions |-> {}]

\* A Git command fails, or the registry is not the expected one; validate
\* calls that a stale packet.
Fail ==
    /\ \/ phase \in {"base", "tree", "changes"}
       \/ phase = "build" /\ ~RegistryOk
    /\ phase' = "done"
    /\ report' = Rejected(IF command = "prepare" THEN "error" ELSE "stale")
    /\ Forget
    /\ UNCHANGED <<worldVars, expected, command, packet, historyVars>>

-----------------------------------------------------------------------------
(* validate_review_response                                                *)

SideOf(entry, side) == IF side = "before" THEN entry.before ELSE entry.after

\* An anchor quotes some lines of one side of a file, word for word.
AnchorHolds(files, a) ==
    \E i \in DOMAIN files :
        LET text == SideOf(files[i], a.side)
        IN  /\ files[i].path = a.path
            /\ text # None
            /\ 1 <= a.start_line /\ a.start_line <= a.end_line
            /\ a.end_line - a.start_line + 1 <= MaxAnchorLines
            /\ a.end_line <= Len(text)
            /\ a.quote = SubSeq(text, a.start_line, a.end_line)

After(question) == {a \in question : a.side = "after"}
Before(question) == {a \in question : a.side = "before"}

\* Only the first file with an after anchor is looked at, and only if
\* something was inserted in it; any after anchor may begin at such a line.
TouchesModification(files, question) ==
    LET quoted == {i \in DOMAIN files :
                      \E a \in After(question) : a.path = files[i].path}
        first == CHOOSE i \in quoted : \A j \in quoted : i <= j
        lines == IF quoted = {} THEN {} ELSE files[first].changedAfter
    IN  lines = {} \/ \E a \in After(question) : a.start_line \in lines

QuestionHolds(files, question) ==
    /\ Cardinality(question) <= MaxAnchors
    /\ \A a \in question : AnchorHolds(files, a)
    /\ After(question) # {} /\ Before(question) # {}
    /\ TouchesModification(files, question)

\* wellFormed: the fields of packet and response are what they should be.
Judged(files, questions, wellFormed) ==
    LET valid == {q \in questions : QuestionHolds(files, q)}
        ok == wellFormed /\ Cardinality(questions) <= MaxQuestions
                /\ valid = questions
    IN  [exit |-> IF ok THEN 0 ELSE 2,
         status |-> IF ok THEN "anchored" ELSE "unverified",
         questions |-> valid]

\* Mutated form: the packet that was submitted is believed.
ValidateSubmitted ==
    /\ phase = "build"
    /\ command = "validate"
    /\ RegistryOk
    /\ \E questions \in Responses, wellFormed \in BOOLEAN :
          report' = IF ~PacketComplete THEN Rejected("stale")
                    ELSE Judged(packet.files, questions, wellFormed)
    /\ phase' = "done"
    /\ Forget
    /\ UNCHANGED <<worldVars, expected, command, packet, historyVars>>

\* named: what was submitted as a packet has a packet_id.
Validate ==
    /\ phase = "build"
    /\ command = "validate"
    /\ RegistryOk
    /\ \E questions \in Responses, wellFormed, named \in BOOLEAN :
          report' = IF ~PacketComplete \/ (named /\ packet # Packet)
                    THEN Rejected("stale")
                    ELSE Judged(Packet.files, questions, wellFormed /\ named)
    /\ phase' = "done"
    /\ Forget
    /\ UNCHANGED <<worldVars, expected, command, packet, historyVars>>

-----------------------------------------------------------------------------
(* The environment and the specification                                   *)

\* A file, the index, HEAD or the registry changes.
Change ==
    /\ phase # "done"
    /\ changed < MaxChanges
    /\ changed' = changed + 1
    /\ still' = FALSE
    /\ \/ \E p \in Paths, s \in States :
             /\ s # tree[p]
             /\ tree' = [tree EXCEPT ![p] = s]
             /\ UNCHANGED <<tracked, head, registry>>
       \/ \E p \in Paths :
             /\ tracked' = IF p \in tracked THEN tracked \ {p}
                           ELSE tracked \cup {p}
             /\ p \in tracked' => tree[p] # Absent
             /\ UNCHANGED <<tree, head, registry>>
       \/ /\ head' \in Commits \ {head}
          /\ UNCHANGED <<tree, tracked, registry>>
       \/ /\ registry' \in Registries \ {registry}
          /\ UNCHANGED <<tree, tracked, head>>
    /\ during' = during \cup {tree'}
    /\ UNCHANGED <<expected, command, phase, readVars, packet, report>>

Next ==
    \/ CollectBase \/ Collect \/ ListChanges
    \/ Prepare \/ Validate \/ Fail
    \/ Change

Spec == Init /\ [][Next]_vars

-----------------------------------------------------------------------------
(* Properties                                                              *)

Inventories == [Paths -> States \cup {Missing}]

Texts == Contents \cup {None}

Entries ==
    [path : Paths, before : Texts, after : Texts, changedAfter : SUBSET Nat]

Packets ==
    [base_commit : Commits, snapshot : [Paths -> Texts],
     registry : Registries \cup {None}, files : Seq(Entries), omitted : Nat]

Reports ==
    [exit : {0, 2}, status : {"error", "stale", "unverified", "anchored"},
     questions : SUBSET UNION Responses]

\* What was read is there when it is used and forgotten afterwards, every
\* packet is a packet, and it keeps the budget of files.
TypeOK ==
    /\ tree \in [Paths -> States]
    /\ tracked \subseteq Paths
    /\ head \in Commits
    /\ registry \in Registries
    /\ expected \in Registries \cup {None}
    /\ phase \in Phases
    /\ stable \in BOOLEAN
    /\ IF phase \in {"tree", "changes", "build"}
       THEN base \in Commits ELSE base = None
    /\ IF phase \in {"changes", "build"}
       THEN inventory \in Inventories ELSE inventory = None
    /\ IF phase = "build"
       THEN /\ changes.base_commit \in Commits
            /\ Touched(changes.set) \subseteq Paths
       ELSE changes = None
    /\ IF phase = "done" THEN report \in Reports ELSE report = None
    /\ \/ command = "prepare" /\ packet = None
       \/ command = "validate" /\ packet \in Packets
             /\ Len(packet.files) <= MaxFiles

\* If nothing changes while a packet is built, and it is called complete, then
\* every Go file that HEAD and the working tree do not agree about is in it,
\* and so is every other one in the directory of such a file, each with the
\* text that it has (context_complete of build_review_packet).
CompletePacketShowsAll ==
    phase = "build" /\ still /\ PacketComplete =>
        LET differ == {p \in Paths : head[p] # tree[p]}
        IN  \A p \in Paths :
                \/ p \in differ
                \/ tree[p] # Absent /\ \E d \in differ : Dir[d] = Dir[p]
                => \E i \in DOMAIN Chosen.files :
                      /\ Chosen.files[i].path = p
                      /\ Chosen.files[i].before = Text(head, p)
                      /\ Chosen.files[i].after = Text(tree, p)

Quoted(side, a) ==
    /\ side[a.path] \in Contents
    /\ a.end_line <= Len(side[a.path])
    /\ a.quote = SubSeq(side[a.path], a.start_line, a.end_line)

\* An anchored response speaks of the packet that was shown, and that packet is
\* not stale: what it has of the working tree was there, in all its files, at
\* one instant of the validation, if no path changed and changed back while it
\* was collected; every quote is in it word for word; and if
\* nothing changed meanwhile, what is quoted of the baseline is in HEAD
\* (packet_id and evidence_status of validate_review_response).
AnchoredIsExact ==
    phase = "done" /\ report.status = "anchored" =>
        /\ \E t \in during : packet.snapshot = [p \in Paths |-> Text(t, p)]
        /\ \A q \in report.questions :
              /\ \A a \in q : AnchorHolds(packet.files, a)
              /\ \A a \in After(q) : Quoted(packet.snapshot, a)
              /\ still => \A a \in Before(q) : Quoted(head, a)

=============================================================================
