------------------------------ MODULE MCAssist ------------------------------
(***************************************************************************)
(* A small instance of AssistedReview: two files of one directory and one  *)
(* of another, texts of one or two lines, and questions with one anchor or *)
(* two on the side of the working tree.                                    *)
(***************************************************************************)
EXTENDS AssistedReview, TLC

CONSTANTS x, y, z, r1, r2, inventory_, other_

one == <<x>>
two == <<x, y>>
new == <<z, y>>
MCContents == {one, two, new}

\* The same line at the same place is not in a diff of these texts.
MCMarks ==
    [pair \in MCContents \X MCContents |->
        {i \in DOMAIN pair[2] :
            i \notin DOMAIN pair[1] \/ pair[1][i] # pair[2][i]}]

MCSimilar == {pair \in MCContents \X MCContents : pair[1] = pair[2]}

MCDir == (1 :> inventory_) @@ (2 :> inventory_) @@ (3 :> other_)

Tree(s, t, u) == (1 :> s) @@ (2 :> t) @@ (3 :> u)
MCCommits == {Tree(two, one, Absent), Tree(one, Undecodable, one)}

Anchor(side, path, first, quote) ==
    [side |-> side, path |-> path, start_line |-> first,
     end_line |-> first + Len(quote) - 1, quote |-> quote]

Questions ==
    {{Anchor("after", 1, 1, new), Anchor("before", 1, 1, one)},
     {Anchor("after", 2, 1, one), Anchor("before", 1, 1, two)},
     {Anchor("after", 1, 2, <<y>>), Anchor("after", 3, 1, <<z>>),
      Anchor("before", 1, 1, <<x>>)},
     {Anchor("after", 1, 1, <<x>>)}}
MCResponses == {{q} : q \in Questions} \cup {Questions, {}}

=============================================================================
