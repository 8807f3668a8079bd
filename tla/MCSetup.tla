------------------------------- MODULE MCSetup -------------------------------
(***************************************************************************)
(* Small instances of Setup: two host events, one other entry that a user  *)
(* may have in hooks.json, and one shape of file for every branch of a     *)
(* plan.                                                                   *)
(***************************************************************************)
EXTENDS Setup, TLC

CONSTANTS prompt, stop, mine

File(owned, clash, other) ==
    [owned |-> owned, clash |-> clash, other |-> other]

\* Every file setup has to tell apart: absent, damaged, blank, somebody
\* else's, in the way, half ours, and ours beside somebody else's.
AllEdits ==
    {None, Unreadable, File({}, FALSE, Empty), File({}, FALSE, mine),
     File({}, TRUE, mine), File({stop}, FALSE, Empty),
     File({prompt, stop}, FALSE, mine)}

\* Absent, and somebody else's.
FewEdits == {None, File({}, FALSE, mine)}

=============================================================================
