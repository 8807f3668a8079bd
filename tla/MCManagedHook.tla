---------------------------- MODULE MCManagedHook ----------------------------
(***************************************************************************)
(* Small instances of ManagedHook: one protected function that is put      *)
(* under a rule and taken out again, and a registry written by hand whose  *)
(* identifiers begin at a higher number.                                   *)
(***************************************************************************)
EXTENDS ManagedHook, TLC

CONSTANTS f, padded

Rule(number, spelling, active) ==
    [id |-> [number |-> number, spelling |-> spelling],
     symbol |-> f, active |-> active]

\* The count of the rules comes to the number of one that is there.
Handmade == <<Rule(2, Canonical, FALSE)>>

\* What can become of these registries by one change.
Closure(seeds) == seeds \cup UNION {Proposals(c) : c \in seeds}

\* By all that MaxRules = 2 admits: two additions and two resolutions.
MCContents == Closure(Closure(Closure({Handmade} \cup Proposals(<<>>))))

\* Somebody deletes the registry, at any time.
MCRegistryEdits == {None}

=============================================================================
