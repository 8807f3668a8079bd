---------------------------- MODULE Installation ----------------------------
(***************************************************************************)
(* What setup and confirmation together promise about the files of one     *)
(* installation, with no processes, no lock and no crashes: each of the    *)
(* two leaves its pending record first, changes its files, the registry    *)
(* before the installation record, while that record stands, and takes it  *)
(* away only when the installation record is as the pending record says.   *)
(*                                                                         *)
(* A hook that reads these files without the lock sees no more than this.  *)
(***************************************************************************)

CONSTANTS
    Contents,     \* registries that parse, one per digest
    Unreadable,   \* the registry file is there and does not parse
    None,         \* absent file, null field
    RegistryEdits, \* what somebody may make of the registry by hand
    Results       \* Results[c]: what one add or resolve can make of c

VARIABLES
    registry,     \* .spellguard/rules.json
    record,       \* lifecycle and adopted digest of installation.json
    pending,      \* confirmation-pending.json
    setupPending, \* setup-pending.json: the operation, the digest to install
    written,      \* the confirmation has seen its result in the registry
    lineage       \* history: every digest that has ever been adopted

vars == <<registry, record, pending, setupPending, written, lineage>>

Init ==
    /\ registry \in Contents \cup {None, Unreadable}
    /\ record = None
    /\ pending = None
    /\ setupPending = None
    /\ written = FALSE
    /\ lineage = {}

Trusted == [lifecycle |-> "active", adopted |-> setupPending.digest]

\* For a registry that was adopted once: the record that the client compares
\* it with may be an older one.
StartConfirmation ==
    /\ pending = None
    /\ registry \in lineage
    /\ \E result \in Results[registry] :
          pending' = [expected |-> registry, result |-> result]
    /\ UNCHANGED <<registry, record, setupPending, written, lineage>>

WriteRegistry ==
    /\ pending # None
    /\ registry' = pending.result
    /\ written' = TRUE
    /\ UNCHANGED <<record, pending, setupPending, lineage>>

FindWritten ==
    /\ pending # None
    /\ registry = pending.result
    /\ written' = TRUE
    /\ UNCHANGED <<registry, record, pending, setupPending, lineage>>

Adopt ==
    /\ written
    /\ record' = [record EXCEPT !.adopted = pending.result]
    /\ lineage' = lineage \cup {pending.result}
    /\ UNCHANGED <<registry, pending, setupPending, written>>

\* A confirmation that stops is begun again from its pending record, or, when
\* only that record was left, is over.
Interrupt ==
    /\ written
    /\ written' = FALSE
    /\ UNCHANGED <<registry, record, pending, setupPending, lineage>>

EndConfirmation ==
    /\ written
    /\ record.adopted = pending.result
    /\ pending' = None
    /\ written' = FALSE
    /\ UNCHANGED <<registry, record, setupPending, lineage>>

StartSetup ==
    /\ setupPending = None
    /\ \/ /\ registry # Unreadable
          /\ setupPending' = [op |-> "install", digest |-> registry]
       \/ setupPending' = [op |-> "remove", digest |-> None]
    /\ UNCHANGED <<registry, record, pending, written, lineage>>

CommitSetup ==
    /\ setupPending # None
    /\ \/ /\ setupPending.op = "install"
          /\ record' = Trusted
          /\ lineage' = lineage \cup {setupPending.digest}
       \/ /\ setupPending.op = "remove"
          /\ record # None
          /\ record' = [record EXCEPT !.lifecycle = "disabled"]
          /\ UNCHANGED lineage
    /\ UNCHANGED <<registry, pending, setupPending, written>>

EndSetup ==
    /\ setupPending # None
    /\ \/ setupPending.op = "install" /\ record = Trusted
       \/ /\ setupPending.op = "remove"
          /\ record # None => record.lifecycle = "disabled"
    /\ setupPending' = None
    /\ UNCHANGED <<registry, record, pending, written, lineage>>

EditRegistry ==
    /\ registry' \in RegistryEdits \ {registry}
    /\ UNCHANGED <<record, pending, setupPending, written, lineage>>

Next ==
    \/ StartConfirmation \/ WriteRegistry \/ FindWritten
    \/ Adopt \/ Interrupt \/ EndConfirmation
    \/ StartSetup \/ CommitSetup \/ EndSetup
    \/ EditRegistry

Spec == Init /\ [][Next]_vars

=============================================================================
