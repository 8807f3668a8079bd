---------------------------- MODULE ManagedState ----------------------------
(***************************************************************************)
(* The durable state that the managed commands of Spellguard share: the    *)
(* registry file <repo>/.spellguard/rules.json, the installation record    *)
(* installation.json and the per-installation flock.                       *)
(*                                                                         *)
(* A registry is known to every component by its digest only, and the      *)
(* digest is a hash of the canonical content, so a content stands for its  *)
(* own digest.  None is "no such file" and JSON null.                      *)
(***************************************************************************)

CONSTANTS
    Contents,     \* registries that parse, one per digest
    Unreadable,   \* the registry file is there and does not parse
    None,         \* absent file, null field, free lock
    RegistryEdits, \* what somebody may make of the registry by hand
    Clients       \* command-line processes that share one installation

Records == [lifecycle : {"active", "disabled"}, adopted : Contents \cup {None}]

ASSUME MarkersAssumption ==
    /\ None \notin Contents
    /\ Unreadable \notin Contents
    /\ None # Unreadable
    /\ None \notin Clients
    /\ None \notin Records
    /\ RegistryEdits \subseteq Contents \cup {None, Unreadable}

VARIABLES
    registry,     \* .spellguard/rules.json
    record,       \* lifecycle and adopted digest of installation.json
    lock,         \* holder of <installation>/lock, None when it is free
    edited,       \* history: somebody changed the registry by hand
    lineage,      \* history: every digest that has ever been adopted
    calm          \* history: from now on no fault and no edit by hand

sharedVars == <<registry, record, lock, edited, lineage, calm>>

SharedTypeOK ==
    /\ registry \in Contents \cup {None, Unreadable}
    /\ record \in Records \cup {None}
    /\ lock \in Clients \cup {None}
    /\ edited \in BOOLEAN
    /\ lineage \subseteq Contents \cup {None}
    /\ calm \in BOOLEAN

\* An editor, a git checkout or an Agent rewrites or deletes rules.json; none
\* of them takes the installation lock.
EditRegistry ==
    /\ ~calm
    /\ registry' \in RegistryEdits \ {registry}
    /\ edited' = TRUE
    /\ UNCHANGED <<record, lock, lineage, calm>>

\* Crashes, failing writes, lock timeouts and edits may stop for ever, which
\* is what a liveness property assumes; no step of the code depends on it.
CalmDown ==
    /\ ~calm
    /\ calm' = TRUE
    /\ UNCHANGED <<registry, record, lock, edited, lineage>>

\* Mutated form: the lock file is opened and never locked.
LockIgnored == TRUE

\* A waiting process can take the flock only when nobody holds it.
LockFree == lock = None

=============================================================================
