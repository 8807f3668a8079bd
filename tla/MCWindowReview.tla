--------------------------- MODULE MCWindowReview ---------------------------
(***************************************************************************)
(* Small instances of WindowReview: one rule, the protected file, another, *)
(* a source that defines the protected function, one that calls it, and    *)
(* one that calls it and leaves a doubt.                                   *)
(***************************************************************************)
EXTENDS WindowReview, TLC

CONSTANTS r, f, home, other, def, call, odd

MCHome == r :> home
MCDefines == (def :> {r}) @@ (call :> {}) @@ (odd :> {})
MCCallers ==
    (def :> (r :> {})) @@ (call :> (r :> {f})) @@ (odd :> (r :> {f}))
MCUnclear == (def :> {}) @@ (call :> {}) @@ (odd :> {r})

\* A source is similar to itself, and call to what it was edited from.
MCSimilar ==
    {pair \in States \X States : pair[1] = pair[2]} \cup {<<def, call>>}

Commit(h, o) == (home :> h) @@ (other :> o)

\* The rule holds, is broken, cannot be evaluated, is broken in a file that is
\* new since, and in one that could not be read.
MCCommits ==
    {Commit(def, def), Commit(def, call), Commit(call, call),
     Commit(def, Absent), Commit(def, Undecodable)}

\* The check begins with the expected registry and with the protected file in
\* the index, as it should be or deleted.
MCInit ==
    /\ Init
    /\ trusted
    /\ tree[home] \in {def, Absent}
    /\ home \in tracked

MCSpec == MCInit /\ [][Next]_vars

=============================================================================
