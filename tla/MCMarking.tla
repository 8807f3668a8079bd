------------------------------ MODULE MCMarking ------------------------------
EXTENDS Marking, TLC

CONSTANTS w1, w2, a, aPretty, b, da, db

TwoWriters == {w1, w2}
\* aPretty is another layout of a.
TwoLayouts == {a, aPretty, b}
Canonical == {a, b}
Digests2 == a :> da @@ aPretty :> da @@ b :> db

AllEdits == {a, aPretty, Invalid, None}

=============================================================================
