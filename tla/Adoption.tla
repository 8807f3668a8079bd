------------------------------ MODULE Adoption ------------------------------
(***************************************************************************)
(* What the managed confirmation promises, with no files, no lock and no   *)
(* crash: the digest the hooks trust moves only by one atomic step, from a *)
(* digest that was trusted once to the result of an envelope that the      *)
(* maintainer authorised for exactly that digest.                          *)
(***************************************************************************)

CONSTANTS Contents, None

VARIABLES
    adopted,      \* the digest the hooks check against
    lineage,      \* the digests adopted so far
    authorized    \* the envelopes the maintainer has said yes to

vars == <<adopted, lineage, authorized>>

Envelopes == [expected : Contents \cup {None}, result : Contents]

Init ==
    /\ adopted \in Contents \cup {None}
    /\ lineage = {adopted}
    /\ authorized = {}

Authorize ==
    \E e \in Envelopes :
        /\ authorized' = authorized \cup {e}
        /\ UNCHANGED <<adopted, lineage>>

Adopt ==
    \E e \in authorized :
        /\ e.expected \in lineage
        /\ adopted' = e.result
        /\ lineage' = lineage \cup {e.result}
        /\ UNCHANGED authorized

Next == Authorize \/ Adopt

Spec == Init /\ [][Next]_vars

=============================================================================
