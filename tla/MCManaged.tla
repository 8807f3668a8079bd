------------------------------ MODULE MCManaged ------------------------------
(***************************************************************************)
(* A small instance of Managed: one client of each kind, and the registry  *)
(* that one add makes of the absent one.                                   *)
(***************************************************************************)
EXTENDS Managed, TLC

CONSTANTS a, stop

MCOneAdd == (None :> {a}) @@ (a :> {})

\* hooks.json is absent or was made absent; nobody else uses it.
MCHostEdits == {None}

=============================================================================
