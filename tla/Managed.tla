------------------------------- MODULE Managed -------------------------------
(***************************************************************************)
(* One installation with everything that changes it: setup clients and     *)
(* confirmation clients race for the same lock and rewrite the same        *)
(* installation.json, while the registry and hooks.json are edited by      *)
(* hand and processes die.  Neither transaction looks at the other one's   *)
(* pending record.                                                         *)
(***************************************************************************)
EXTENDS Confirmation

CONSTANTS
    Installers,                      \* the clients that run setup
    Events, Others, Empty, HostEdits  \* of Setup

VARIABLES
    config, hostEdited, manifest, setupPending, setupPc, setupJob

setupVars ==
    <<config, hostEdited, manifest, setupPending, setupPc, setupJob>>
managedVars == <<sharedVars, setupVars, confirmationVars>>

Setup == INSTANCE Setup WITH
    pending <- setupPending, pc <- setupPc, job <- setupJob

\* No client is of both kinds; the rest is what Setup assumes.
ASSUME KindsAssumption ==
    /\ Installers \cap Confirmers = {}
    /\ Installers \subseteq Clients

ASSUME SetupAssumption ==
    /\ Empty \in Others
    /\ HostEdits \subseteq Setup!Files
    /\ {None, Unreadable} \cap Setup!Configs = {}
    /\ None \notin Setup!Plans

\* What Installation may see of a pending setup.
SetupPlans == [op : {"install", "remove"}, digest : Contents \cup {None}]

ASSUME SetupPlansAssumption == None \notin SetupPlans

\* Nothing was ever installed: the confirmation files do not exist.
ManagedInit ==
    /\ Setup!Init
    /\ proposal = None
    /\ legacyDraft = FALSE
    /\ pending = None
    /\ confirmation = None
    /\ previewed = {}
    /\ authorized = {}
    /\ pc = [p \in Confirmers |-> "idle"]
    /\ job = [p \in Confirmers |-> None]
    /\ rec = [p \in Confirmers |-> None]

SetupNext ==
    /\ Setup!ClientNext \/ Setup!EditConfig
    /\ UNCHANGED confirmationVars

ConfirmationNext ==
    /\ ClientNext \/ LegacyDraft
    /\ UNCHANGED setupVars

ManagedEdit == EditRegistry /\ UNCHANGED <<setupVars, confirmationVars>>

ManagedNext == SetupNext \/ ConfirmationNext \/ ManagedEdit

ManagedSpec == ManagedInit /\ [][ManagedNext]_managedVars

-----------------------------------------------------------------------------
(* Properties                                                              *)

\* What Installation sees of a setup plan: a removal shows no digest.
SetupPlan ==
    IF setupPending = None THEN None
    ELSE [op |-> setupPending.op,
          digest |-> IF setupPending.op = "install" THEN setupPending.digest
                     ELSE None]

\* A confirmation is past the registry.
Written ==
    \E p \in Confirmers :
        pc[p] \in {"writeConfirmation", "writeRecord", "unlinkPending"}

\* Whatever clients race, wait, crash and resume, what they do to the files is
\* what two transactions without processes would do (the abstract
\* specification): neither pending record goes before the installation record
\* is as it says, so neither transaction loses the other one's update.
I == INSTANCE Installation WITH setupPending <- SetupPlan, written <- Written

ImplementsInstallation == I!Spec

\* The trusted digest moves for two reasons only: a confirmation whose
\* envelope the maintainer authorised, or an install whose plan showed that
\* digest; in particular a removal and a resumed removal never move it.
TrustMovesOnlyByConsent ==
    [][record # None /\ record' # None /\ record'.adopted # record.adopted =>
          \/ \E e \in authorized :
                e.result = record'.adopted /\ pending = e
          \/ /\ setupPending # None
             /\ setupPending.op = "install"
             /\ setupPending.digest = record'.adopted]_managedVars

=============================================================================
