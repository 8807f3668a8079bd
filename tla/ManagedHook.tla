----------------------------- MODULE ManagedHook -----------------------------
(***************************************************************************)
(* The hook of a managed installation (run_managed_adapter in              *)
(* hook_core.py).  It takes no lock: it loads the installation record,     *)
(* asks for the status, which reads the registry, the record again and the *)
(* pending confirmation, and then checks the tree under the digest of the  *)
(* record that it loaded first, which reads the registry twice more.       *)
(* Setup, confirmations and edits go on in between.                        *)
(*                                                                         *)
(* The files change as Installation says, which Managed implements; what   *)
(* is in the registry is RuleRegistry's.  Tree, findings and notifications *)
(* are those of WindowReview and HookNotify and are left out here.         *)
(***************************************************************************)
EXTENDS RuleRegistry

CONSTANTS
    Contents,     \* the registries that there are
    Unreadable, None,
    RegistryEdits \* what somebody may make of the registry by hand

Results == [c \in Contents \cup {None} |->
               Proposals(IF c = None THEN <<>> ELSE c)]

\* installation.json as the hook reads it.
Records == [lifecycle : {"active", "disabled"}, adopted : Contents \cup {None}]

ASSUME RecordsAssumption == None \notin Records

ASSUME ContentsAssumption ==
    /\ Contents \subseteq Registries
    /\ None \notin Contents
    /\ Unreadable \notin Contents
    /\ RegistryEdits \subseteq Contents \cup {None, Unreadable}
    /\ \A c \in Contents \cup {None} : Results[c] \subseteq Contents

VARIABLES
    \* of Installation
    registry, record, pending, setupPending, written, lineage,
    edited,       \* history: the registry was changed by hand, and since then
                  \* was never the adopted one with nobody at work
    stage,        \* where the hook is
    loaded,       \* the adopted digest of the record that it loaded
    snapshot,     \* the registry as the status has read it, until it is used
    answer,       \* checked, failed, quiet, notice: what the hook returned,
                  \* none while it runs
    settled       \* history: since the hook loaded the record its digest was,
                  \* at one instant, the trusted one and the registry's, and
                  \* no confirmation was pending

fileVars == <<registry, record, pending, setupPending, written, lineage>>
hookVars == <<stage, loaded, snapshot, answer>>
vars == <<fileVars, edited, hookVars, settled>>

I == INSTANCE Installation

Adopted ==
    /\ record # None
    /\ pending = None
    /\ record.adopted = registry

Settled == Adopted /\ loaded = registry

Init ==
    /\ I!Init
    /\ edited = FALSE
    /\ stage = "idle"
    /\ loaded = None
    /\ snapshot = None
    /\ answer = "none"
    /\ settled = FALSE

-----------------------------------------------------------------------------
(* run_managed_adapter                                                     *)

\* The hook returns and forgets what it has read.
Answer(verdict) ==
    /\ answer' = verdict
    /\ stage' = "idle"
    /\ loaded' = None
    /\ settled' = FALSE

Continue(next) ==
    /\ stage' = next
    /\ UNCHANGED <<loaded, answer, settled>>

\* load_installation; INSTALLATION_NOT_FOUND ends the hook.
Load ==
    /\ stage = "idle"
    /\ UNCHANGED <<fileVars, edited, snapshot>>
    /\ \/ record = None /\ Answer("failed")
       \/ /\ record # None
          /\ loaded' = record.adopted
          /\ stage' = "registry"
          /\ answer' = "none"
          /\ settled' = Settled'

\* _registry_snapshot, the first thing the status reads.
ReadRegistry ==
    /\ stage = "registry"
    /\ snapshot' = registry
    /\ Continue("record")
    /\ UNCHANGED <<fileVars, edited>>

\* _refine_registry_state with the record as it is now.  Whatever is pending,
\* a registry that is not the adopted one ends in a notice.
ReadRecord ==
    /\ stage = "record"
    /\ IF snapshot = None \/ snapshot = record.adopted
       THEN Continue("pending")
       ELSE Answer("notice")
    /\ snapshot' = None
    /\ UNCHANGED <<fileVars, edited>>

\* Mutated form: what is pending is not looked at.
ReadPendingIgnored ==
    /\ stage = "pending"
    /\ IF loaded = None THEN Answer("quiet") ELSE Continue("check")
    /\ UNCHANGED <<fileVars, edited, snapshot>>

\* The status is complete: a notice, a quiet turn of an installation that had
\* no registry when the record was loaded, or a check.
ReadPending ==
    /\ stage = "pending"
    /\ IF pending # None THEN Answer("notice")
       ELSE IF loaded = None THEN Answer("quiet")
       ELSE Continue("check")
    /\ UNCHANGED <<fileVars, edited, snapshot>>

\* run_adapter loads the registry under the digest: for the context of a
\* prompt, or to begin the check of a Stop.
CheckRegistry ==
    /\ stage = "check"
    /\ \/ registry # loaded /\ Answer("failed")
       \/ registry = loaded /\ Answer("checked")
       \/ registry = loaded /\ Continue("verify")
    /\ UNCHANGED <<fileVars, edited, snapshot>>

\* review_windows loads it again when it has collected the tree.
VerifyRegistry ==
    /\ stage = "verify"
    /\ Answer(IF registry = loaded THEN "checked" ELSE "failed")
    /\ UNCHANGED <<fileVars, edited, snapshot>>

-----------------------------------------------------------------------------
(* Everybody else and the specification                                    *)

\* Setup, a confirmation or somebody's editor.
Others ==
    /\ I!Next
    /\ edited' = IF I!EditRegistry THEN TRUE
                 ELSE edited /\ ~(stage = "idle" /\ Adopted /\ setupPending = None)
    /\ UNCHANGED hookVars
    /\ settled' = (stage # "idle" /\ (settled \/ Settled'))

Next ==
    \/ Load
    \/ ReadRegistry \/ ReadRecord \/ ReadPending
    \/ CheckRegistry \/ VerifyRegistry
    \/ Others

Spec == Init /\ [][Next]_vars

-----------------------------------------------------------------------------
(* Properties                                                              *)

\* "While a confirmation is pending it reports the incompleteness and does not
\* adopt the current registry" (run_managed_adapter): rules are checked, or
\* told to the Agent, only if at some instant since the record was loaded they
\* were the registry and the trusted one with no confirmation under way,
\* although five reads without a lock came in between.
AnswersUnderTrust ==
    [][stage # "idle" /\ answer' = "checked" => settled \/ edited]_vars

\* Every change that the current registry admits gives a registry that parses,
\* whatever identifiers somebody wrote into it by hand: no proposal is built
\* and then refused by the parser.
ChangesParse ==
    registry \notin {None, Unreadable} =>
        \A result \in Changes(registry) : Parses(result)

\* An identifier is given once: through any sequence of confirmations that
\* crash and are recovered, setups and removals, the file keeps every rule
\* where it was, resolved ones too, unless somebody edits it.
RegistryContinues ==
    [][registry' # registry /\ registry \in Contents /\ ~edited' =>
          Continues(registry', registry)]_vars

=============================================================================
