------------------------------ MODULE MCTitles ------------------------------
(* No title, the feature alone, another alone, and both. *)
EXTENDS Titles

SomeSelections == {<<>>, <<0>>, <<1>>, <<1, 0>>}
=============================================================================
