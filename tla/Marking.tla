------------------------------- MODULE Marking -------------------------------
(***************************************************************************)
(* The unmanaged propose / confirm of the first registration (marking.py): *)
(* a draft in the Git metadata is promoted to the registry.  There is no   *)
(* lock: what keeps concurrent clients apart is that the draft is replaced *)
(* and the registry created by one atomic file operation each.             *)
(*                                                                         *)
(* A file is its bytes; Digest is what parse_registry computes of them, so *)
(* two layouts of one registry share a digest and are not the same file.   *)
(***************************************************************************)
CONSTANTS
    Writers,      \* processes that run propose and confirm
    Drafts,       \* bytes that parse_registry accepts
    Proposals,    \* those that propose writes: the canonical layout
    Invalid,      \* bytes it refuses
    None,         \* no such file
    Digest,       \* of each member of Drafts
    HandEdits     \* what an edit by hand can leave in a file

Files == Drafts \cup {Invalid, None}

ASSUME MarkingAssumption ==
    /\ None \notin Drafts
    /\ Invalid \notin Drafts
    /\ None # Invalid
    /\ Proposals \subseteq Drafts
    /\ DOMAIN Digest = Drafts
    /\ HandEdits \subseteq Files

VARIABLES
    draft,        \* spellguard/proposal.json in the Git metadata
    registry,     \* .spellguard/rules.json
    shown,        \* history: digests printed by propose
    approved,     \* history: digests the maintainer passed to confirm
    calm,         \* history: from now on no fault and no edit
    pc,           \* where each process is
    raw,          \* the draft it has read
    digest        \* the digest it was given

vars == <<draft, registry, shown, approved, calm, pc, raw, digest>>

Digests == {Digest[d] : d \in Drafts}

Init ==
    /\ draft = None
    /\ registry \in Files
    /\ shown = {}
    /\ approved = {}
    /\ calm = FALSE
    /\ pc = [w \in Writers |-> "idle"]
    /\ raw = [w \in Writers |-> None]
    /\ digest = [w \in Writers |-> None]

Goto(w, label) == pc' = [pc EXCEPT ![w] = label]

Return(w) ==
    /\ Goto(w, "idle")
    /\ raw' = [raw EXCEPT ![w] = None]
    /\ digest' = [digest EXCEPT ![w] = None]

\* propose_temporary: the draft replaces any earlier one, unread.
Propose(w, d) ==
    /\ pc[w] = "idle"
    /\ draft' = d
    /\ shown' = shown \cup {Digest[d]}
    /\ UNCHANGED <<registry, approved, calm, pc, raw, digest>>

\* confirm_proposal with a digest that was shown.
Confirm(w, d) ==
    /\ pc[w] = "idle"
    /\ d \in shown
    /\ approved' = approved \cup {d}
    /\ digest' = [digest EXCEPT ![w] = d]
    /\ Goto(w, "read")
    /\ UNCHANGED <<draft, registry, shown, calm, raw>>

\* Mutated form: the digest is not compared.
ReadUnverified(w) ==
    /\ pc[w] = "read"
    /\ draft \in Drafts
    /\ raw' = [raw EXCEPT ![w] = draft]
    /\ Goto(w, "create")
    /\ UNCHANGED <<draft, registry, shown, approved, calm, digest>>

\* _read_proposal, parse_registry and the comparison of the digests.
Read(w) ==
    /\ pc[w] = "read"
    /\ draft \in Drafts
    /\ Digest[draft] = digest[w]
    /\ raw' = [raw EXCEPT ![w] = draft]
    /\ Goto(w, "create")
    /\ UNCHANGED <<draft, registry, shown, approved, calm, digest>>

\* No draft, a damaged one, or not the one that was approved.
ReadRefused(w) ==
    /\ pc[w] = "read"
    /\ draft \in Drafts => Digest[draft] # digest[w]
    /\ Return(w)
    /\ UNCHANGED <<draft, registry, shown, approved, calm>>

\* Mutated form: the draft is linked as it is by now.
CreateFromDraft(w) ==
    /\ pc[w] = "create"
    /\ registry = None
    /\ registry' = draft
    /\ Goto(w, "clean")
    /\ UNCHANGED <<draft, shown, approved, calm, raw, digest>>

\* os.link of a complete temporary file: it fails if there is a registry.
Create(w) ==
    /\ pc[w] = "create"
    /\ registry = None
    /\ registry' = raw[w]
    /\ Goto(w, "clean")
    /\ UNCHANGED <<draft, shown, approved, calm, raw, digest>>

\* The link failed: the registry there is will be read and compared.
CreateExists(w) ==
    /\ pc[w] = "create"
    /\ registry # None
    /\ Goto(w, "compare")
    /\ UNCHANGED <<draft, registry, shown, approved, calm, raw, digest>>

\* Mutated form: success is reported without cleaning up.
AlreadyReported(w) ==
    /\ pc[w] = "compare"
    /\ registry = raw[w]
    /\ Return(w)
    /\ UNCHANGED <<draft, registry, shown, approved, calm>>

\* The registry there is has the very bytes of the draft.
AlreadyConfirmed(w) ==
    /\ pc[w] = "compare"
    /\ registry = raw[w]
    /\ Goto(w, "clean")
    /\ UNCHANGED <<draft, registry, shown, approved, calm, raw, digest>>

\* Another registry, or none any more.
CreateRefused(w) ==
    /\ pc[w] = "compare"
    /\ registry # raw[w]
    /\ Return(w)
    /\ UNCHANGED <<draft, registry, shown, approved, calm>>

\* Unlinks proposal.json whatever it has become.
Clean(w) ==
    /\ pc[w] = "clean"
    /\ draft' = None
    /\ Return(w)
    /\ UNCHANGED <<registry, shown, approved, calm>>

\* The process dies or an operation fails; a failing unlink is reported as
\* proposal_cleaned = false.
Abort(w) ==
    /\ ~calm
    /\ pc[w] # "idle"
    /\ Return(w)
    /\ UNCHANGED <<draft, registry, shown, approved, calm>>

\* Somebody edits, deletes or reformats either file.
Edit ==
    /\ ~calm
    /\ \/ draft' \in HandEdits \ {draft} /\ UNCHANGED registry
       \/ registry' \in HandEdits \ {registry} /\ UNCHANGED draft
    /\ UNCHANGED <<shown, approved, calm, pc, raw, digest>>

CalmDown ==
    /\ ~calm
    /\ calm' = TRUE
    /\ UNCHANGED <<draft, registry, shown, approved, pc, raw, digest>>

Step(w) ==
    \/ Read(w) \/ ReadRefused(w)
    \/ Create(w) \/ CreateExists(w) \/ AlreadyConfirmed(w) \/ CreateRefused(w)
    \/ Clean(w)

ClientNext ==
    \E w \in Writers :
        \/ ~calm /\ \E d \in Proposals : Propose(w, d)
        \/ \E d \in Digests : Confirm(w, d)
        \/ Step(w)
        \/ Abort(w)

Next == ClientNext \/ Edit \/ CalmDown

Spec == Init /\ [][Next]_vars

\* A process that runs is not suspended for ever, and a draft that is shown
\* is confirmed again as long as it is there.
Fairness ==
    \A w \in Writers :
        /\ WF_vars(Step(w))
        /\ \A d \in Drafts : SF_vars(draft = d /\ Confirm(w, Digest[d]))

FairSpec == Spec /\ Fairness

----------------------------------------------------------------------------
(* Properties *)

\* Every variable has its type; a process past the read holds a draft of the
\* digest it was given, one that was approved.
TypeOK ==
    /\ draft \in Files
    /\ registry \in Files
    /\ approved \subseteq shown /\ shown \subseteq Digests
    /\ calm \in BOOLEAN
    /\ pc \in [Writers -> {"idle", "read", "create", "compare", "clean"}]
    /\ raw \in [Writers -> Drafts \cup {None}]
    /\ digest \in [Writers -> Digests \cup {None}]
    /\ \A w \in Writers :
        /\ pc[w] = "idle" => raw[w] = None /\ digest[w] = None
        /\ pc[w] # "idle" => digest[w] \in approved
        /\ pc[w] \notin {"idle", "read"} =>
                /\ raw[w] \in Drafts
                /\ Digest[raw[w]] = digest[w]

\* confirm_proposal: whatever happens to either file between its steps, the
\* command gives the repository a registry only where there is none, and only
\* one whose digest a maintainer was shown and passed back.
ConsentBeforeRegistry ==
    [][ClientNext /\ registry' # registry =>
        /\ registry = None
        /\ registry' \in Drafts
        /\ Digest[registry'] \in approved]_vars

\* A confirmation that dies between the link and the unlink can be repeated:
\* an undisturbed draft does not survive next to the registry made of it.
DraftCleaned ==
    (calm /\ draft \in Drafts /\ Digest[draft] \in shown
        /\ registry \in {None, draft}) ~> draft = None

=============================================================================
