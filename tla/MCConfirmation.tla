--------------------------- MODULE MCConfirmation ---------------------------
(***************************************************************************)
(* A small instance of Confirmation.  An add makes a or b of the absent    *)
(* registry, and a further change makes a of b, so that two proposals      *)
(* compete for the same registry and can also follow one another.          *)
(***************************************************************************)
EXTENDS Confirmation, TLC

CONSTANTS a, b

MCResults == (None :> {a, b}) @@ (a :> {}) @@ (b :> {a})

=============================================================================
