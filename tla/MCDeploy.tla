------------------------------ MODULE MCDeploy ------------------------------
(* Three releases, the tag of the second beginning with the tag of the     *)
(* first; a branch pin and an empty ref.  The repository's line alone,     *)
(* below another input, below a commented-out copy of itself, above one.   *)
EXTENDS Deploy

MCTag == << <<"v1">>, <<"v1", "0">>, <<"v2">> >>

At(ref, rev) == [ref |-> ref, rev |-> rev]
MCPins == {At(MCTag[1], 1), At(MCTag[2], 2), At(MCTag[3], 3), At(<<"main">>, 2),
           At(<< >>, 1), At(<<"main">>, 0)}

Line(ours, live) == [ours |-> ours, live |-> live]
MCLayouts == {<<Line(TRUE, TRUE)>>, <<Line(FALSE, TRUE), Line(TRUE, TRUE)>>,
              <<Line(TRUE, FALSE), Line(TRUE, TRUE)>>, <<Line(TRUE, TRUE), Line(TRUE, FALSE)>>}
=============================================================================
